------------------------- MODULE RelaxSectionProofs -------------------------
(***************************************************************************)
(* Proofs about RelaxSection, for every section, label, address and width. *)
(* What is left of a section decodes after every deletion, relocations and *)
(* labels are where they belong, and, for sections as they are assembled,  *)
(* delay slots and addresses are kept and short branches reach.            *)
(*                                                                         *)
(* Each relaxation is shown to be one kind of step: a deletion of an       *)
(* instruction, or of the second half of one that has a short form.  What  *)
(* a deletion does to halfwords, offsets and distances is proved of that   *)
(* kind once.                                                              *)
(***************************************************************************)
EXTENDS RelaxSection, SumTheorems

(***************************************************************************)
(* Lists of halfwords.                                                     *)
(***************************************************************************)
\* Lists of halfwords of n instructions.
Halfwords(n) == Seq((1..n) \X {1, 2})

\* Where the k-th halfword was before the halfwords a + 1 to a + n were taken out.
At(a, n, k) == IF k <= a THEN k ELSE k + n

\* The list without them.
Without(c, a, n) == [k \in 1..(Len(c) - n) |-> c[At(a, n, k)]]

\* The first p halfwords are those of instructions before i.
Cut(c, i, p) ==
  /\ p \in 0..Len(c)
  /\ \A k \in 1..p : c[k][1] < i
  /\ \A k \in (p + 1)..Len(c) : i <= c[k][1]

\* Instructions are in order, each with at most two halves that are adjacent.
Ordered(c) ==
  \A j, k \in 1..Len(c) : j < k =>
    \/ c[j][1] < c[k][1]
    \/ k = j + 1 /\ c[j][1] = c[k][1] /\ c[j][2] = 1 /\ c[k][2] = 2

\* They are whole, of the size of their opcode.
Whole(c, o) ==
  \A k \in 1..Len(c) :
    /\ c[k][2] = 1 => ((k < Len(c) /\ c[k + 1] = <<c[k][1], 2>>) <=> Size(o[c[k][1]]) = 4)
    /\ c[k][2] = 2 => k > 1 /\ c[k - 1] = <<c[k][1], 1>>

\* What a sequence over a set is.
LEMMA SeqFacts ==
  ASSUME NEW S, NEW c \in Seq(S)
  PROVE  Len(c) \in Nat /\ DOMAIN c = 1..Len(c) /\ \A k \in 1..Len(c) : c[k] \in S
OBVIOUS

\* What a list of halfwords is.
LEMMA HalfwordFacts ==
  ASSUME NEW L \in Nat, NEW c \in Halfwords(L)
  PROVE  /\ Len(c) \in Nat /\ DOMAIN c = 1..Len(c)
         /\ \A k \in 1..Len(c) : /\ c[k] = <<c[k][1], c[k][2]>>
                                 /\ c[k][1] \in 1..L /\ c[k][2] \in {1, 2}
BY DEF Halfwords

\* Taking halfwords out keeps the order of the others.
LEMMA AtFacts ==
  ASSUME NEW N \in Nat, NEW a \in Nat, NEW n \in Nat, a + n <= N
  PROVE  /\ \A k \in 1..(N - n) : At(a, n, k) \in 1..N
         /\ \A j, k \in 1..(N - n) : j < k =>
              /\ At(a, n, j) < At(a, n, k)
              /\ At(a, n, k) = At(a, n, j) + 1 => k = j + 1
BY DEF At

\* A list without some of its halfwords is a list of halfwords.
LEMMA WithoutFacts ==
  ASSUME NEW L \in Nat, NEW c \in Halfwords(L), NEW a \in Nat, NEW n \in Nat, a + n <= Len(c)
  PROVE  /\ Without(c, a, n) \in Halfwords(L)
         /\ Len(Without(c, a, n)) = Len(c) - n
         /\ \A k \in 1..(Len(c) - n) : Without(c, a, n)[k] = c[At(a, n, k)]
<1>1. Len(c) \in Nat /\ Len(c) - n \in Nat
  BY HalfwordFacts
<1>2. \A k \in 1..(Len(c) - n) : c[At(a, n, k)] \in (1..L) \X {1, 2}
  <2>1. \A k \in 1..(Len(c) - n) : At(a, n, k) \in 1..Len(c)
    BY <1>1 DEF At
  <2>2. \A k \in 1..Len(c) : c[k] \in (1..L) \X {1, 2}
    BY DEF Halfwords
  <2>3. QED
    BY <2>1, <2>2
<1>3. Without(c, a, n) \in Halfwords(L) /\ Len(Without(c, a, n)) = Len(c) - n
  BY <1>1, <1>2 DEF Without, Halfwords
<1>4. QED
  BY <1>1, <1>3 DEF Without

\* Where the halfwords of earlier instructions end is the offset of an instruction.
LEMMA CutOffset ==
  ASSUME NEW L \in Nat, NEW c \in Halfwords(L), NEW i \in Nat, NEW p, Cut(c, i, p)
  PROVE  OffsetIn(c, i) = 2 * p
<1>1. Len(c) \in Nat /\ p \in Nat /\ p <= Len(c)
  BY HalfwordFacts DEF Cut
<1>2. {k \in 1..Len(c) : c[k][1] < i} = 1..p
  <2>1. \A k \in 1..Len(c) : c[k][1] \in 1..L
    BY HalfwordFacts
  <2>2. QED
    BY <1>1, <2>1 DEF Cut
<1>3. Cardinality(1..p) = p
  BY <1>1, FS_Interval, 1 \in Int
<1>4. QED
  BY <1>2, <1>3 DEF OffsetIn

\* Taking out an instruction, or a half of one, moves that place with it.
LEMMA CutWithout ==
  ASSUME NEW L \in Nat, NEW c \in Halfwords(L), NEW a \in Nat, NEW n \in {1, 2},
         a + n <= Len(c), n = 2 => c[a + 1][1] = c[a + 2][1],
         NEW i \in Nat, NEW p, Cut(c, i, p)
  PROVE  /\ Cut(Without(c, a, n), i, IF p > a THEN p - n ELSE p)
         /\ p > a => p >= a + n
<1> DEFINE d == Without(c, a, n)
           r == IF p > a THEN p - n ELSE p
<1>1. /\ Len(c) \in Nat /\ p \in 0..Len(c) /\ n \in Nat
      /\ \A k \in 1..Len(c) : c[k][1] \in 1..L
  BY HalfwordFacts DEF Cut
<1>2. /\ Len(d) = Len(c) - n
      /\ \A k \in 1..(Len(c) - n) : d[k] = c[At(a, n, k)]
  <2>1. n \in Nat
    OBVIOUS
  <2>2. QED
    BY <2>1, WithoutFacts
<1>3. p > a => p >= a + n
  <2>1. SUFFICES ASSUME n = 2, p = a + 1 PROVE FALSE
    BY <1>1
  <2>2. c[a + 1][1] < i /\ i <= c[a + 2][1]
    BY <1>1, <2>1 DEF Cut
  <2>3. QED
    BY <1>1, <2>1, <2>2
<1> HIDE DEF d
<1>4. /\ r \in 0..(Len(c) - n)
      /\ \A k \in 1..r : k \in 1..(Len(c) - n) /\ At(a, n, k) \in 1..p
      /\ \A k \in (r + 1)..(Len(c) - n) :
           k \in 1..(Len(c) - n) /\ At(a, n, k) \in (p + 1)..Len(c)
  BY <1>1, <1>3 DEF At
<1>5. Cut(d, i, r)
  <2> HIDE DEF r
  <2>1. \A k \in 1..r : d[k][1] < i
    BY <1>2, <1>4 DEF Cut
  <2>2. \A k \in (r + 1)..Len(d) : i <= d[k][1]
    BY <1>2, <1>4 DEF Cut
  <2>3. QED
    BY <1>2, <1>4, <2>1, <2>2 DEF Cut
<1>6. QED
  BY <1>3, <1>5 DEF d

\* What is left is in order.
LEMMA OrderedWithout ==
  ASSUME NEW L \in Nat, NEW c \in Halfwords(L), NEW a \in Nat, NEW n \in Nat,
         a + n <= Len(c), Ordered(c)
  PROVE  Ordered(Without(c, a, n))
<1> DEFINE d == Without(c, a, n)
           at(k) == At(a, n, k)
<1>1. /\ Len(c) \in Nat /\ n \in Nat
      /\ \A k \in 1..Len(c) : c[k][1] \in 1..L
  BY HalfwordFacts
<1>2. Len(d) = Len(c) - n /\ \A k \in 1..(Len(c) - n) : d[k] = c[at(k)]
  <2>1. n \in Nat
    OBVIOUS
  <2>2. QED
    BY <2>1, WithoutFacts
<1> HIDE DEF d
<1>3. SUFFICES ASSUME NEW j \in 1..Len(d), NEW k \in 1..Len(d), j < k
               PROVE  \/ d[j][1] < d[k][1]
                      \/ k = j + 1 /\ d[j][1] = d[k][1] /\ d[j][2] = 1 /\ d[k][2] = 2
  BY DEF Ordered, d
<1>4. at(j) \in 1..Len(c) /\ at(k) \in 1..Len(c) /\ at(j) < at(k)
      /\ (at(k) = at(j) + 1 => k = j + 1)
  <2>1. Len(c) \in Nat /\ Len(d) = Len(c) - n /\ j \in Int /\ k \in Int
    BY <1>1, <1>2
  <2>2. at(j) \in 1..Len(c) /\ at(k) \in 1..Len(c)
    BY <2>1 DEF At
  <2>3. at(j) < at(k)
    BY <1>3, <2>1 DEF At
  <2>4. at(k) = at(j) + 1 => k = j + 1
    BY <2>1 DEF At
  <2>5. QED
    BY <2>2, <2>3, <2>4
<1>5. d[j] = c[at(j)] /\ d[k] = c[at(k)]
  BY <1>2
<1> HIDE DEF at
<1>6. QED
  BY <1>4, <1>5 DEF Ordered

\* What may be taken out: an instruction, or the second half of one that is
\* shorter from now on, when the opcodes become q.
Removable(c, a, n, o, q, L) ==
  \/ /\ c[a + 1][2] = 1 /\ n = (IF Size(o[c[a + 1][1]]) = 4 THEN 2 ELSE 1)
     /\ \A x \in 1..L : Size(q[x]) = Size(o[x])
  \/ /\ c[a + 1][2] = 2 /\ n = 1 /\ Size(q[c[a + 1][1]]) # 4
     /\ \A x \in 1..L : x # c[a + 1][1] => Size(q[x]) = Size(o[x])

\* What is left is whole.
LEMMA WholeWithout ==
  ASSUME NEW L \in Nat, NEW c \in Halfwords(L), NEW a \in Nat, NEW n \in {1, 2},
         a + n <= Len(c), Ordered(c), NEW o, NEW q, Whole(c, o),
         Removable(c, a, n, o, q, L)
  PROVE  Whole(Without(c, a, n), q)
<1> DEFINE d == Without(c, a, n)
           at(k) == At(a, n, k)
<1>1. /\ Len(c) \in Nat /\ n \in Nat
      /\ \A k \in 1..Len(c) : /\ c[k] = <<c[k][1], c[k][2]>>
                              /\ c[k][1] \in 1..L /\ c[k][2] \in {1, 2}
  BY HalfwordFacts
<1>2. Len(d) = Len(c) - n /\ \A k \in 1..(Len(c) - n) : d[k] = c[at(k)]
  <2>1. n \in Nat
    OBVIOUS
  <2>2. QED
    BY <2>1, WithoutFacts
<1> HIDE DEF d
<1>3. \/ /\ c[a + 1][2] = 1 /\ n = (IF Size(o[c[a + 1][1]]) = 4 THEN 2 ELSE 1)
         /\ \A x \in 1..L : Size(q[x]) = Size(o[x])
      \/ /\ c[a + 1][2] = 2 /\ n = 1 /\ Size(q[c[a + 1][1]]) # 4
         /\ \A x \in 1..L : x # c[a + 1][1] => Size(q[x]) = Size(o[x])
  BY DEF Removable
<1>4. \A k \in 1..Len(c) :
        /\ c[k][2] = 1 => ((k < Len(c) /\ c[k + 1] = <<c[k][1], 2>>) <=> Size(o[c[k][1]]) = 4)
        /\ c[k][2] = 2 => k > 1 /\ c[k - 1] = <<c[k][1], 1>>
  BY DEF Whole
<1>5. SUFFICES ASSUME NEW k \in 1..Len(d)
               PROVE  /\ d[k][2] = 1 => ((k < Len(d) /\ d[k + 1] = <<d[k][1], 2>>)
                                           <=> Size(q[d[k][1]]) = 4)
                      /\ d[k][2] = 2 => k > 1 /\ d[k - 1] = <<d[k][1], 1>>
  BY DEF Whole, d
<1>6. Len(c) \in Nat /\ n \in Nat /\ Len(d) = Len(c) - n
  BY <1>1, <1>2
<1>7. at(k) \in 1..Len(c) /\ d[k] = c[at(k)]
  <2>1. at(k) \in 1..Len(c)
    BY <1>6 DEF At
  <2>2. k \in 1..(Len(c) - n)
    BY <1>6
  <2> HIDE DEF at
  <2>3. QED
    BY <1>2, <2>1, <2>2
<1>8. ASSUME d[k][2] = 1
      PROVE  (k < Len(d) /\ d[k + 1] = <<d[k][1], 2>>) <=> Size(q[d[k][1]]) = 4
  <2>1. CASE k = a
    <3>1. at(k) = a /\ a \in 1..Len(c) /\ a + 1 \in 1..Len(c)
      BY <1>6, <2>1 DEF At
    <3>2. d[k] = c[a] /\ a \in 1..Len(c) /\ a + 1 \in 1..Len(c) /\ c[a][2] = 1
      BY <1>7, <1>8, <3>1
    <3>3. ~(k < Len(d) /\ d[k + 1] = <<d[k][1], 2>>)
      <4>1. SUFFICES ASSUME k < Len(d), d[k + 1] = <<d[k][1], 2>> PROVE FALSE
        OBVIOUS
      <4>2. a + 1 + n \in 1..Len(c) /\ d[k + 1] = c[a + 1 + n]
        <5>1. /\ a + 1 + n \in 1..Len(c) /\ at(k + 1) = a + 1 + n
              /\ k + 1 \in 1..(Len(c) - n)
          BY <1>6, <2>1, <4>1 DEF At
        <5>2. QED
          BY <1>2, <5>1
      <4>3. c[a][1] < c[a + 1 + n][1]
        BY <3>2, <4>2 DEF Ordered
      <4>4. c[a][1] \in 1..L /\ c[a + 1 + n][1] = c[a][1]
        BY <1>1, <3>2, <4>1, <4>2
      <4>5. QED
        BY <4>3, <4>4
    <3>4. Size(q[c[a][1]]) # 4
      <4>1. CASE c[a + 1][2] = 1
        <5>1. Size(o[c[a][1]]) # 4
          <6>1. c[a + 1] # <<c[a][1], 2>>
            BY <4>1
          <6>2. (a < Len(c) /\ c[a + 1] = <<c[a][1], 2>>) <=> Size(o[c[a][1]]) = 4
            BY <1>4, <3>2
          <6>3. QED
            BY <6>1, <6>2
        <5>2. QED
          BY <1>1, <1>3, <3>2, <4>1, <5>1
      <4>2. CASE c[a + 1][2] = 2
        <5>1. c[a] = <<c[a + 1][1], 1>>
          BY <1>1, <1>4, <3>2, <4>2
        <5>2. c[a][1] = c[a + 1][1]
          BY <5>1
        <5>3. QED
          BY <1>3, <4>2, <5>2
      <4>3. QED
        BY <1>1, <3>2, <4>1, <4>2
    <3>5. QED
      BY <3>2, <3>3, <3>4
  <2>2. CASE k # a
    <3>1. /\ k < Len(d) <=> at(k) < Len(c)
          /\ k < Len(d) => d[k + 1] = c[at(k) + 1]
      <4>1. /\ k < Len(d) <=> at(k) < Len(c)
            /\ k < Len(d) => k + 1 \in 1..(Len(c) - n) /\ at(k + 1) = at(k) + 1
        BY <1>6, <2>2 DEF At
      <4>2. QED
        BY <1>2, <4>1
    <3>2. Size(q[c[at(k)][1]]) = Size(o[c[at(k)][1]])
      <4>1. CASE c[a + 1][2] = 1
        BY <1>1, <1>7, <1>3, <4>1
      <4>2. CASE c[a + 1][2] = 2
        <5>1. a + 1 \in 1..Len(c) /\ c[a] = <<c[a + 1][1], 1>> /\ a \in 1..Len(c)
          BY <1>1, <1>4, <4>2
        <5>2. at(k) # a /\ at(k) # a + 1
          BY <1>6, <2>2, <4>2 DEF At
        <5>3. c[at(k)][1] # c[a + 1][1]
          <6>1. CASE at(k) < a + 1
            BY <1>1, <1>7, <5>1, <5>2, <6>1 DEF Ordered
          <6>2. CASE at(k) > a + 1
            BY <1>1, <1>7, <5>1, <5>2, <6>2, <4>2 DEF Ordered
          <6>3. QED
            BY <1>7, <5>2, <6>1, <6>2
        <5>4. QED
          BY <1>1, <1>7, <1>3, <4>2, <5>3
      <4>3. QED
        BY <1>1, <4>1, <4>2
    <3> HIDE DEF at
    <3>3. QED
      BY <1>4, <1>7, <1>8, <3>1, <3>2
  <2>3. QED
    BY <2>1, <2>2
<1>9. ASSUME d[k][2] = 2
      PROVE  k > 1 /\ d[k - 1] = <<d[k][1], 1>>
  <2>1. at(k) > 1 /\ c[at(k) - 1] = <<c[at(k)][1], 1>>
    <3> HIDE DEF at
    <3>1. QED
      BY <1>4, <1>7, <1>9
  <2>2. k # a + 1
    <3>1. SUFFICES ASSUME k = a + 1 PROVE FALSE
      OBVIOUS
    <3>2. at(k) = a + 1 + n /\ c[a + n] = <<c[a + 1 + n][1], 1>>
      BY <1>6, <2>1, <3>1 DEF At
    <3>3. c[a + n][2] = 1 /\ c[a + n][1] = c[a + 1 + n][1]
      BY <3>2
    <3>4. c[a + 1 + n] = <<c[a + n][1], 2>> /\ a + n \in 1..Len(c) /\ a + n < Len(c)
      BY <1>1, <1>7, <1>9, <3>2, <3>3
    <3>5. Size(o[c[a + n][1]]) = 4
      <4>1. a + n < Len(c) /\ c[a + n + 1] = <<c[a + n][1], 2>>
        BY <1>6, <3>4
      <4>2. QED
        BY <1>4, <3>3, <3>4, <4>1
    <3>6. n = 2 /\ c[a + 1][2] = 1
      BY <1>3, <3>3, <3>5
    <3>7. a + 1 \in 1..Len(c) /\ c[a + 2] = <<c[a + 1][1], 2>>
      BY <1>1, <1>4, <1>3, <3>6
    <3>8. QED
      BY <3>3, <3>6, <3>7
  <2>3. at(k - 1) = at(k) - 1 /\ k - 1 \in 1..Len(d)
    BY <1>6, <2>1, <2>2 DEF At
  <2>4. k > 1 /\ k - 1 \in 1..(Len(c) - n)
    BY <1>6, <2>3
  <2>5. QED
    BY <1>2, <1>7, <2>1, <2>3, <2>4
<1>10. QED
  BY <1>8, <1>9

-----------------------------------------------------------------------------
(***************************************************************************)
(* The section as assembled.                                               *)
(***************************************************************************)
\* An instruction is where the one before it ends.
LEMMA BeginNext ==
  ASSUME NEW code, NEW n \in Nat \ {0}
  PROVE  /\ Begin(code, n) \in Nat
         /\ Begin(code, n + 1) = Begin(code, n) + (IF Size(code[n].op) = 4 THEN 2 ELSE 1)
<1> DEFINE long(m) == {j \in 1..(m - 1) : Size(code[j].op) = 4}
<1>1. IsFiniteSet(long(n)) /\ Cardinality(long(n)) \in Nat
  <2>1. IsFiniteSet(1..(n - 1))
    BY FiniteInterval, 1 \in Int, n - 1 \in Int
  <2>2. long(n) \subseteq 1..(n - 1)
    OBVIOUS
  <2> HIDE DEF long
  <2>3. QED
    BY <2>1, <2>2, FS_Subset, FS_CardinalityType
<1>2. long(n + 1) = IF Size(code[n].op) = 4 THEN long(n) \cup {n} ELSE long(n)
  <2>1. n + 1 - 1 = n /\ n - 1 + 1 = n
    OBVIOUS
  <2>2. \A j : j \in 1..n <=> (j \in 1..(n - 1) \/ j = n)
    OBVIOUS
  <2>3. QED
    BY <2>1, <2>2
<1>3. n \notin long(n)
  OBVIOUS
<1>4. Begin(code, n) = n - 1 + Cardinality(long(n))
      /\ Begin(code, n + 1) = n + 1 - 1 + Cardinality(long(n + 1))
  BY DEF Begin
<1> HIDE DEF long
<1>5. Cardinality(long(n) \cup {n}) = Cardinality(long(n)) + 1
  BY <1>1, <1>3, FS_AddElement
<1>6. QED
  BY <1>1, <1>2, <1>4, <1>5

\* Instructions are at least one halfword apart.
LEMMA BeginMonotone ==
  ASSUME NEW code, NEW n \in Nat \ {0}, NEW m \in 1..n
  PROVE  Begin(code, m) + (n - m) <= Begin(code, n)
<1> DEFINE long(x) == {j \in 1..(x - 1) : Size(code[j].op) = 4}
<1>1. IsFiniteSet(1..(n - 1))
  BY FiniteInterval, 1 \in Int, n - 1 \in Int
<1>2. long(n) \subseteq 1..(n - 1) /\ long(m) \subseteq long(n)
  OBVIOUS
<1>3. Begin(code, n) = n - 1 + Cardinality(long(n))
      /\ Begin(code, m) = m - 1 + Cardinality(long(m))
  BY DEF Begin
<1> HIDE DEF long
<1>4. IsFiniteSet(long(n)) /\ IsFiniteSet(long(m))
  BY <1>1, <1>2, FS_Subset
<1>5. Cardinality(long(m)) <= Cardinality(long(n))
      /\ Cardinality(long(m)) \in Nat /\ Cardinality(long(n)) \in Nat
  BY <1>2, <1>4, FS_Subset, FS_CardinalityType
<1>6. QED
  BY <1>3, <1>5

\* The first instruction begins the section.
LEMMA BeginFirst ==
  ASSUME NEW code
  PROVE  Begin(code, 1) = 0
<1>1. {j \in 1..(1 - 1) : Size(code[j].op) = 4} = {}
  OBVIOUS
<1>2. QED
  BY <1>1, FS_EmptySet DEF Begin

\* Every halfword belongs to one instruction.
LEMMA HalfwordOf ==
  ASSUME NEW code, NEW L \in Nat, NEW k \in 1..Begin(code, L + 1)
  PROVE  \E n \in 1..L : /\ Begin(code, n) < k /\ k <= Begin(code, n + 1)
                         /\ \A m \in 1..L : Begin(code, m) < k /\ k <= Begin(code, m + 1)
                                          => m = n
<1> DEFINE before == {n \in 1..L : Begin(code, n) < k}
<1>1. k \in Nat \ {0} /\ Begin(code, 1) = 0 /\ Begin(code, L + 1) \in Nat
  BY BeginFirst, BeginNext
<1>2. L # 0
  BY <1>1
<1>3. 1 \in before
  BY <1>1, <1>2
<1>4. PICK n \in before : \A m \in before : m <= n
  <2>1. IsFiniteSet(1..L) /\ 1..L \subseteq Int
    BY FiniteInterval, 1 \in Int
  <2>2. before \in SUBSET (1..L) /\ before # {}
    BY <1>3
  <2> HIDE DEF before
  <2>3. QED
    BY <2>1, <2>2, Extremes
<1>5. k <= Begin(code, n + 1)
  <2>1. CASE n = L
    BY <2>1
  <2>2. CASE n # L
    <3>1. n + 1 \in 1..L /\ n + 1 \notin before /\ Begin(code, n + 1) \in Nat
      BY <1>4, <2>2, BeginNext
    <3>2. QED
      BY <1>1, <3>1
  <2>3. QED
    BY <2>1, <2>2
<1>6. ASSUME NEW m \in 1..L, Begin(code, m) < k, k <= Begin(code, m + 1), m # n
      PROVE  FALSE
  <2>1. m \in before /\ m < n
    BY <1>4, <1>6
  <2>2. m + 1 \in 1..n /\ n \in Nat \ {0} /\ m + 1 \in Nat \ {0}
    BY <1>4, <2>1
  <2>3. Begin(code, m + 1) + (n - (m + 1)) <= Begin(code, n)
    BY <2>2, BeginMonotone
  <2>4. Begin(code, m + 1) \in Nat /\ Begin(code, n) \in Nat
    BY <2>2, BeginNext
  <2>5. QED
    BY <1>1, <1>4, <1>6, <2>2, <2>3, <2>4
<1>7. QED
  BY <1>4, <1>5, <1>6

\* The halfwords of the code: those of the n-th instruction begin at Begin(code, n).
LEMMA HalfAt ==
  ASSUME NEW code \in Seq(Insn), NEW k \in 1..Begin(code, Len(code) + 1)
  PROVE  \E n \in 1..Len(code) :
           /\ Begin(code, n) < k /\ k <= Begin(code, n + 1)
           /\ Begin(code, n) \in Nat
           /\ Halves(code)[k] = <<n, k - Begin(code, n)>>
<1>1. Len(code) \in Nat
  OBVIOUS
<1>2. PICK n \in 1..Len(code) :
             /\ Begin(code, n) < k /\ k <= Begin(code, n + 1)
             /\ \A m \in 1..Len(code) : Begin(code, m) < k /\ k <= Begin(code, m + 1) => m = n
  BY <1>1, HalfwordOf
<1>3. (CHOOSE m \in 1..Len(code) : Begin(code, m) < k /\ k <= Begin(code, m + 1)) = n
  BY <1>2
<1>4. Halves(code)[k] = <<n, k - Begin(code, n)>>
  BY <1>3 DEF Halves
<1>5. QED
  BY <1>1, <1>2, <1>4, BeginNext

\* The assembled code is a list of halfwords, as long as the last instruction ends.
LEMMA HalvesType ==
  ASSUME NEW code \in Seq(Insn)
  PROVE  /\ Halves(code) \in Halfwords(Len(code))
         /\ Len(Halves(code)) = Begin(code, Len(code) + 1)
<1> DEFINE N == Begin(code, Len(code) + 1)
<1>1. Len(code) \in Nat /\ N \in Nat
  BY BeginNext
<1>2. ASSUME NEW k \in 1..N
      PROVE  Halves(code)[k] \in (1..Len(code)) \X {1, 2}
  <2>1. PICK n \in 1..Len(code) :
           /\ Begin(code, n) < k /\ k <= Begin(code, n + 1)
           /\ Begin(code, n) \in Nat
           /\ Halves(code)[k] = <<n, k - Begin(code, n)>>
    BY HalfAt
  <2>2. Begin(code, n + 1) = Begin(code, n) + (IF Size(code[n].op) = 4 THEN 2 ELSE 1)
    BY <1>1, BeginNext
  <2>3. k - Begin(code, n) \in {1, 2}
    BY <1>1, <2>1, <2>2
  <2>4. QED
    BY <2>1, <2>3
<1> DEFINE half(k) ==
             LET n == CHOOSE n \in 1..Len(code) : Begin(code, n) < k /\ k <= Begin(code, n + 1)
             IN <<n, k - Begin(code, n)>>
<1>3. Halves(code) = [k \in 1..N |-> half(k)]
  BY DEF Halves
<1> HIDE DEF N, half
<1>4. \A k \in 1..N : half(k) \in (1..Len(code)) \X {1, 2}
  BY <1>2, <1>3
<1>5. QED
  BY <1>1, <1>3, <1>4 DEF Halfwords, N

\* In it each instruction begins where Begin says.
LEMMA HalvesCut ==
  ASSUME NEW code \in Seq(Insn), NEW n \in 1..(Len(code) + 1)
  PROVE  Cut(Halves(code), n, Begin(code, n))
<1>1. Len(code) \in Nat /\ n \in Nat \ {0} /\ Begin(code, n) \in Nat
      /\ Begin(code, Len(code) + 1) \in Nat
  BY BeginNext
<1>2. \A m \in 1..n : Begin(code, m) \in Nat /\ Begin(code, m) <= Begin(code, n)
  <2>1. ASSUME NEW m \in 1..n
        PROVE  Begin(code, m) \in Nat /\ Begin(code, m) <= Begin(code, n)
    <3>1. m \in Nat \ {0} /\ n - m \in Nat
      BY <1>1
    <3>2. Begin(code, m) \in Nat /\ Begin(code, m) + (n - m) <= Begin(code, n)
      BY <1>1, <3>1, BeginNext, BeginMonotone
    <3>3. QED
      BY <1>1, <3>1, <3>2
  <2>2. QED
    BY <2>1
<1>3. \A m \in n..(Len(code) + 1) : Begin(code, m) \in Nat /\ Begin(code, n) <= Begin(code, m)
  <2>1. ASSUME NEW m \in n..(Len(code) + 1)
        PROVE  Begin(code, m) \in Nat /\ Begin(code, n) <= Begin(code, m)
    <3>1. m \in Nat \ {0} /\ n \in 1..m
      BY <1>1
    <3>2. Begin(code, m) \in Nat /\ Begin(code, n) + (m - n) <= Begin(code, m)
      BY <3>1, BeginNext, BeginMonotone
    <3>3. QED
      BY <1>1, <3>1, <3>2
  <2>2. QED
    BY <2>1
<1>4. Begin(code, n) \in 0..Begin(code, Len(code) + 1)
  BY <1>1, <1>3
<1>5. ASSUME NEW k \in 1..Begin(code, n)
      PROVE  Halves(code)[k][1] < n
  <2>1. k \in 1..Begin(code, Len(code) + 1)
    BY <1>1, <1>4
  <2>2. PICK m \in 1..Len(code) :
           /\ Begin(code, m) < k /\ Begin(code, m) \in Nat
           /\ Halves(code)[k] = <<m, k - Begin(code, m)>>
    BY <2>1, HalfAt
  <2>3. m < n
    <3>1. SUFFICES ASSUME ~(m < n) PROVE FALSE
      OBVIOUS
    <3>2. m \in n..(Len(code) + 1)
      BY <1>1, <3>1
    <3>3. QED
      BY <1>1, <1>3, <2>2, <3>2
  <2>4. QED
    BY <2>2, <2>3
<1>6. ASSUME NEW k \in (Begin(code, n) + 1)..Begin(code, Len(code) + 1)
      PROVE  n <= Halves(code)[k][1]
  <2>1. k \in 1..Begin(code, Len(code) + 1)
    BY <1>1
  <2>2. PICK m \in 1..Len(code) :
           /\ k <= Begin(code, m + 1)
           /\ Halves(code)[k] = <<m, k - Begin(code, m)>>
    BY <2>1, HalfAt
  <2>3. n <= m
    <3>1. SUFFICES ASSUME ~(n <= m) PROVE FALSE
      OBVIOUS
    <3>2. m + 1 \in 1..n
      BY <1>1, <3>1
    <3>3. QED
      BY <1>1, <1>2, <2>2, <3>2
  <2>4. QED
    BY <2>2, <2>3
<1>7. QED
  BY <1>4, <1>5, <1>6, HalvesType DEF Cut

\* It is in order.
LEMMA HalvesOrdered ==
  ASSUME NEW code \in Seq(Insn)
  PROVE  Ordered(Halves(code))
<1> DEFINE c == Halves(code)
           N == Begin(code, Len(code) + 1)
<1>1. Len(code) \in Nat /\ N \in Nat /\ Len(c) = N
  BY BeginNext, HalvesType
<1>2. SUFFICES ASSUME NEW j \in 1..N, NEW k \in 1..N, j < k
               PROVE  \/ c[j][1] < c[k][1]
                      \/ k = j + 1 /\ c[j][1] = c[k][1] /\ c[j][2] = 1 /\ c[k][2] = 2
  BY <1>1 DEF Ordered
<1>3. PICK m \in 1..Len(code) :
           /\ Begin(code, m) < j /\ j <= Begin(code, m + 1) /\ Begin(code, m) \in Nat
           /\ Halves(code)[j] = <<m, j - Begin(code, m)>>
  BY HalfAt
<1>4. PICK n \in 1..Len(code) :
           /\ Begin(code, n) < k /\ k <= Begin(code, n + 1) /\ Begin(code, n) \in Nat
           /\ Halves(code)[k] = <<n, k - Begin(code, n)>>
  BY HalfAt
<1>5. c[j][1] = m /\ c[j][2] = j - Begin(code, m)
      /\ c[k][1] = n /\ c[k][2] = k - Begin(code, n)
  BY <1>3, <1>4
<1>6. Begin(code, n + 1) = Begin(code, n) + (IF Size(code[n].op) = 4 THEN 2 ELSE 1)
  BY <1>1, BeginNext
<1>7. CASE m = n
  BY <1>1, <1>2, <1>3, <1>4, <1>5, <1>6, <1>7
<1>8. CASE m > n
  <2>1. n + 1 \in 1..m /\ m \in Nat \ {0} /\ n + 1 \in Nat \ {0}
    BY <1>1, <1>8
  <2>2. Begin(code, n + 1) + (m - (n + 1)) <= Begin(code, m) /\ Begin(code, n + 1) \in Nat
    BY <2>1, BeginMonotone, BeginNext
  <2>3. QED
    BY <1>1, <1>2, <1>3, <1>4, <2>1, <2>2
<1>9. CASE m < n
  BY <1>5, <1>9
<1>10. QED
  BY <1>1, <1>7, <1>8, <1>9

\* Its instructions are whole and all there.
LEMMA HalvesWhole ==
  ASSUME NEW code \in Seq(Insn)
  PROVE  /\ Whole(Halves(code), [n \in 1..Len(code) |-> code[n].op])
         /\ \A n \in 1..Len(code) : \E k \in 1..Len(Halves(code)) : Halves(code)[k][1] = n
<1> DEFINE c == Halves(code)
           N == Begin(code, Len(code) + 1)
           o == [n \in 1..Len(code) |-> code[n].op]
<1>1. Len(code) \in Nat /\ N \in Nat /\ Len(c) = N
  BY BeginNext, HalvesType
<1>2. ASSUME NEW n \in 1..Len(code)
      PROVE  /\ Begin(code, n) \in Nat
             /\ Begin(code, n + 1) = Begin(code, n) + (IF Size(code[n].op) = 4 THEN 2 ELSE 1)
             /\ Begin(code, n + 1) <= N
             /\ c[Begin(code, n) + 1] = <<n, 1>>
             /\ Size(code[n].op) = 4 => c[Begin(code, n) + 2] = <<n, 2>>
             /\ \A k \in 1..N : Begin(code, n) < k /\ k <= Begin(code, n + 1)
                                  => c[k] = <<n, k - Begin(code, n)>>
  <2>1. /\ Begin(code, n) \in Nat
        /\ Begin(code, n + 1) = Begin(code, n) + (IF Size(code[n].op) = 4 THEN 2 ELSE 1)
    BY <1>1, BeginNext
  <2>2. Begin(code, n + 1) <= N
    <3>1. n + 1 \in 1..(Len(code) + 1) /\ Len(code) + 1 \in Nat \ {0}
      BY <1>1
    <3>2. Begin(code, n + 1) + (Len(code) + 1 - (n + 1)) <= N
      BY <3>1, BeginMonotone
    <3>3. QED
      BY <1>1, <2>1, <3>2
  <2>3. ASSUME NEW k \in 1..N, Begin(code, n) < k, k <= Begin(code, n + 1)
        PROVE  c[k] = <<n, k - Begin(code, n)>>
    <3>1. PICK x \in 1..Len(code) :
             /\ Begin(code, x) < k /\ k <= Begin(code, x + 1)
             /\ \A m \in 1..Len(code) : Begin(code, m) < k /\ k <= Begin(code, m + 1) => m = x
      BY <1>1, HalfwordOf
    <3>2. PICK y \in 1..Len(code) :
             /\ Begin(code, y) < k /\ k <= Begin(code, y + 1)
             /\ Halves(code)[k] = <<y, k - Begin(code, y)>>
      BY HalfAt
    <3>3. n = x /\ y = x
      BY <2>3, <3>1, <3>2
    <3>4. QED
      BY <3>2, <3>3
  <2>4. c[Begin(code, n) + 1] = <<n, 1>>
    <3>1. PICK x : x = Begin(code, n) + 1
      OBVIOUS
    <3>2. x \in 1..N /\ Begin(code, n) < x /\ x <= Begin(code, n + 1) /\ x - Begin(code, n) = 1
      BY <1>1, <2>1, <2>2, <3>1
    <3>3. c[x] = <<n, x - Begin(code, n)>>
      BY <2>3, <3>2
    <3>4. QED
      BY <3>1, <3>2, <3>3
  <2>5. Size(code[n].op) = 4 => c[Begin(code, n) + 2] = <<n, 2>>
    <3>1. SUFFICES ASSUME Size(code[n].op) = 4 PROVE c[Begin(code, n) + 2] = <<n, 2>>
      OBVIOUS
    <3>2. PICK x : x = Begin(code, n) + 2
      OBVIOUS
    <3>3. x \in 1..N /\ Begin(code, n) < x /\ x <= Begin(code, n + 1) /\ x - Begin(code, n) = 2
      BY <1>1, <2>1, <2>2, <3>1, <3>2
    <3>4. c[x] = <<n, x - Begin(code, n)>>
      BY <2>3, <3>3
    <3>5. QED
      BY <3>2, <3>3, <3>4
  <2>6. QED
    BY <2>1, <2>2, <2>3, <2>4, <2>5
<1>3. ASSUME NEW k \in 1..N
      PROVE  /\ c[k][2] = 1 => ((k < N /\ c[k + 1] = <<c[k][1], 2>>) <=> Size(o[c[k][1]]) = 4)
             /\ c[k][2] = 2 => k > 1 /\ c[k - 1] = <<c[k][1], 1>>
  <2>1. PICK n \in 1..Len(code) :
           /\ Begin(code, n) < k /\ k <= Begin(code, n + 1)
           /\ Begin(code, n) \in Nat
           /\ Halves(code)[k] = <<n, k - Begin(code, n)>>
    BY HalfAt
  <2>2. c[k][1] = n /\ c[k][2] = k - Begin(code, n) /\ o[n] = code[n].op
    BY <2>1
  <2>3. /\ Begin(code, n + 1) = Begin(code, n) + (IF Size(code[n].op) = 4 THEN 2 ELSE 1)
        /\ Begin(code, n + 1) <= N
        /\ c[Begin(code, n) + 1] = <<n, 1>>
        /\ Size(code[n].op) = 4 => c[Begin(code, n) + 2] = <<n, 2>>
    BY <1>2
  <2> HIDE DEF c, N, o
  <2>4. CASE c[k][2] = 1
    <3>1. k = Begin(code, n) + 1 /\ k + 1 = Begin(code, n) + 2
      BY <1>1, <2>1, <2>2, <2>4
    <3>2. CASE Size(code[n].op) = 4
      <4>1. k < N /\ c[k + 1] = <<n, 2>>
        BY <1>1, <2>1, <2>3, <3>1, <3>2
      <4>2. QED
        BY <2>2, <2>4, <3>2, <4>1
    <3>3. CASE Size(code[n].op) # 4
      <4>1. ASSUME k < N, c[k + 1] = <<n, 2>> PROVE FALSE
        <5>1. PICK j : j = k + 1
          OBVIOUS
        <5>2. j \in 1..Begin(code, Len(code) + 1)
          BY <1>1, <4>1, <5>1 DEF N
        <5>3. PICK m \in 1..Len(code) :
                 /\ Begin(code, m) < j /\ j <= Begin(code, m + 1)
                 /\ Begin(code, m) \in Nat
                 /\ Halves(code)[j] = <<m, j - Begin(code, m)>>
          BY <5>2, HalfAt
        <5>4. m = n
          BY <4>1, <5>1, <5>3 DEF c
        <5>5. QED
          BY <2>1, <2>3, <3>1, <3>3, <5>1, <5>3, <5>4
      <4>2. QED
        BY <2>2, <2>4, <3>3, <4>1
    <3>4. QED
      BY <3>2, <3>3
  <2>5. CASE c[k][2] = 2
    <3>1. k - 1 = Begin(code, n) + 1 /\ k > 1
      BY <1>1, <2>1, <2>2, <2>5
    <3>2. QED
      BY <2>2, <2>3, <2>5, <3>1
  <2>6. QED
    BY <2>4, <2>5
<1>4. Whole(c, o)
  <2> HIDE DEF c, N, o
  <2>1. QED
    BY <1>1, <1>3 DEF Whole
<1>5. \A n \in 1..Len(code) : \E k \in 1..Len(Halves(code)) : Halves(code)[k][1] = n
  <2>1. ASSUME NEW n \in 1..Len(code)
        PROVE  \E k \in 1..N : c[k][1] = n
    <3>1. Begin(code, n) + 1 \in 1..N /\ c[Begin(code, n) + 1] = <<n, 1>>
      <4>1. /\ Begin(code, n) \in Nat
            /\ Begin(code, n + 1) = Begin(code, n) + (IF Size(code[n].op) = 4 THEN 2 ELSE 1)
            /\ Begin(code, n + 1) <= N
            /\ c[Begin(code, n) + 1] = <<n, 1>>
        BY <1>2
      <4> HIDE DEF c, N
      <4>2. QED
        BY <1>1, <4>1
    <3>2. QED
      BY <3>1
  <2>2. QED
    BY <1>1, <2>1
<1>6. QED
  BY <1>4, <1>5

\* The k-th instruction with a relocation.
LEMMA NthFacts ==
  ASSUME NEW code \in Seq(Insn), NEW k \in 1..Cardinality(Relocated(code))
  PROVE  /\ Nth(code, k) \in Relocated(code)
         /\ Cardinality({m \in Relocated(code) : m <= Nth(code, k)}) = k
<1> DEFINE L == Len(code)
           with == Relocated(code)
           upto(n) == {m \in with : m <= n}
<1>1. L \in Nat /\ with \subseteq 1..L /\ IsFiniteSet(1..L) /\ 1..L \subseteq Int
  BY FiniteInterval, 1 \in Int DEF Relocated
<1>2. IsFiniteSet(with) /\ Cardinality(with) \in Nat
  BY <1>1, FS_Subset, FS_CardinalityType
<1> DEFINE enough == {n \in 1..L : k <= Cardinality(upto(n))}
<1>3. \A n : IsFiniteSet(upto(n)) /\ Cardinality(upto(n)) \in Nat
  <2>1. \A n : upto(n) \subseteq with
    OBVIOUS
  <2> HIDE DEF upto
  <2>2. QED
    BY <1>2, <2>1, FS_Subset, FS_CardinalityType
<1>4. upto(L) = with /\ upto(0) = {}
  BY <1>1
<1>5. L \in enough
  <2>1. L # 0
    <3>1. SUFFICES ASSUME L = 0 PROVE FALSE
      OBVIOUS
    <3>2. with = {}
      BY <1>1, <3>1
    <3> HIDE DEF with
    <3>3. QED
      BY <3>2, FS_EmptySet DEF with
  <2>2. k <= Cardinality(upto(L))
    <3>1. k <= Cardinality(with)
      BY <1>2
    <3> HIDE DEF upto, with
    <3>2. QED
      BY <1>4, <3>1
  <2> HIDE DEF L, upto
  <2>3. QED
    BY <1>1, <2>1, <2>2
<1>6. PICK n \in enough : \A m \in enough : n <= m
  <2>1. enough \in SUBSET (1..L) /\ enough # {}
    BY <1>5
  <2> HIDE DEF enough, L
  <2>2. QED
    BY <1>1, <2>1, Extremes
<1>7. n \in 1..L /\ k <= Cardinality(upto(n)) /\ n - 1 \in 0..L
  BY <1>1, <1>6
<1>8. Cardinality(upto(n - 1)) < k
  <2>1. CASE n = 1
    <3>1. n - 1 = 0
      BY <2>1
    <3>2. Cardinality(upto(n - 1)) = 0
      BY <1>4, <3>1, FS_EmptySet
    <3> HIDE DEF upto
    <3>3. QED
      BY <3>2
  <2>2. CASE n # 1
    <3>1. n - 1 \in 1..L /\ n - 1 \notin enough
      BY <1>1, <1>6, <1>7, <2>2
    <3>2. ~(k <= Cardinality(upto(n - 1)))
      BY <3>1
    <3> HIDE DEF upto
    <3>3. Cardinality(upto(n - 1)) \in Nat
      BY <1>3
    <3>4. QED
      BY <3>2, <3>3
  <2>3. QED
    BY <2>1, <2>2
<1>9. n \in with /\ Cardinality(upto(n)) = k
  <2>1. upto(n) = IF n \in with THEN upto(n - 1) \cup {n} ELSE upto(n - 1)
    <3>1. \A m \in with : m <= n <=> m <= n - 1 \/ m = n
      BY <1>1, <1>7
    <3>2. QED
      BY <1>1, <1>7, <3>1
  <2>2. n \notin upto(n - 1)
    BY <1>1, <1>7
  <2> HIDE DEF upto
  <2>3. Cardinality(upto(n - 1) \cup {n}) = Cardinality(upto(n - 1)) + 1
    BY <1>3, <2>2, FS_AddElement
  <2>4. QED
    BY <1>3, <1>7, <1>8, <2>1, <2>3
<1>10. QED
  BY <1>9 DEF Nth

\* A relocation.
Rec == [type : Types, sym : Syms, insn : Nat, offset : Nat]

\* The relocations of the assembled code, one for an instruction.
LEMMA RelocsFacts ==
  ASSUME NEW code \in Seq(Insn)
  PROVE  /\ RelocsOf(code) \in Seq(Rec)
         /\ \A k \in 1..Len(RelocsOf(code)) :
              LET r == RelocsOf(code)[k] IN
              /\ r.insn \in 1..Len(code)
              /\ r.type = code[r.insn].type /\ r.sym = code[r.insn].sym
              /\ r.offset = 2 * Begin(code, r.insn)
         /\ \A j, k \in 1..Len(RelocsOf(code)) :
              RelocsOf(code)[j].insn = RelocsOf(code)[k].insn => j = k
<1> DEFINE N == Cardinality(Relocated(code))
           rec(k) == [type |-> code[Nth(code, k)].type, sym |-> code[Nth(code, k)].sym,
                      insn |-> Nth(code, k), offset |-> 2 * Begin(code, Nth(code, k))]
<1>1. Len(code) \in Nat /\ N \in Nat
  <2>1. IsFiniteSet(1..Len(code)) /\ Relocated(code) \subseteq 1..Len(code)
    BY FiniteInterval, 1 \in Int DEF Relocated
  <2>2. QED
    BY <2>1, FS_Subset, FS_CardinalityType
<1>2. RelocsOf(code) = [k \in 1..N |-> rec(k)]
  BY DEF RelocsOf
<1>3. ASSUME NEW k \in 1..N
      PROVE  /\ Nth(code, k) \in 1..Len(code) /\ rec(k) \in Rec
             /\ Cardinality({m \in Relocated(code) : m <= Nth(code, k)}) = k
  <2>1. /\ Nth(code, k) \in 1..Len(code)
        /\ Cardinality({m \in Relocated(code) : m <= Nth(code, k)}) = k
    BY NthFacts DEF Relocated
  <2>2. code[Nth(code, k)] \in Insn
    BY <2>1
  <2>3. Begin(code, Nth(code, k)) \in Nat
    <3>1. Nth(code, k) \in Nat \ {0}
      BY <1>1, <2>1
    <3>2. QED
      BY <3>1, BeginNext
  <2>4. QED
    BY <1>1, <2>1, <2>2, <2>3 DEF Insn, Rec
<1>4. \A k \in 1..N : /\ rec(k).insn = Nth(code, k)
                      /\ rec(k).type = code[rec(k).insn].type
                      /\ rec(k).sym = code[rec(k).insn].sym
                      /\ rec(k).offset = 2 * Begin(code, rec(k).insn)
  OBVIOUS
<1> HIDE DEF N, rec
<1>5. \A k \in 1..N : rec(k) \in Rec
  BY <1>3
<1>6. /\ RelocsOf(code) \in Seq(Rec) /\ Len(RelocsOf(code)) = N
      /\ \A k \in 1..N : RelocsOf(code)[k] = rec(k)
  BY <1>1, <1>2, <1>5
<1>7. ASSUME NEW j \in 1..N, NEW k \in 1..N, Nth(code, j) = Nth(code, k)
      PROVE  j = k
  BY <1>3, <1>7
<1>8. \A k \in 1..N : rec(k).insn \in 1..Len(code)
  BY <1>3, <1>4
<1>9. \A j, k \in 1..N : rec(j).insn = rec(k).insn => j = k
  BY <1>4, <1>7
<1>10. QED
  BY <1>4, <1>6, <1>8, <1>9

-----------------------------------------------------------------------------
(***************************************************************************)
(* What holds in every state.                                              *)
(***************************************************************************)
\* The code as assembled.
Code == section.code

\* The types of the variables.
Shape ==
  /\ section \in Sections
  /\ pc \in {"walk", "done"} /\ again \in BOOLEAN
  /\ op \in [1..Len(Code) -> Op16 \cup Op32]
  /\ contents \in Halfwords(Len(Code))
  /\ relocs \in Seq(Rec) /\ Len(relocs) = Len(RelocsOf(Code))
  /\ irel \in 1..(Len(relocs) + 1)
  /\ value \in [Labels -> Nat]

\* What is left is in order and whole.
Decodes == Ordered(contents) /\ Whole(contents, op)

\* A relocation stays with its instruction and symbol.
Named ==
  \A k \in 1..Len(relocs) :
    /\ relocs[k].insn = RelocsOf(Code)[k].insn
    /\ relocs[k].sym = RelocsOf(Code)[k].sym

\* Offsets of relocations and labels are between the right instructions.
Placed ==
  /\ \A k \in 1..Len(relocs) : \E p \in 0..Len(contents) :
       relocs[k].offset = 2 * p /\ Cut(contents, relocs[k].insn, p)
  /\ \A l \in Labels : \E p \in 0..Len(contents) :
       value[l] = 2 * p /\ Cut(contents, section.label[l], p)

\* What an opcode may be replaced by.
Shorter ==
  {<<"addiu", "addiupc">>, <<"beqz", "bzc">>, <<"b", "bzc">>, <<"b", "b16">>,
   <<"beqz", "beqz16">>, <<"jal", "jals">>, <<"nop32", "nop">>, <<"move32", "move16">>}

\* No opcode is replaced twice.
Opcodes ==
  \A n \in 1..Len(Code) : op[n] = Code[n].op \/ <<Code[n].op, op[n]>> \in Shorter

\* Nothing but LUIs and NOPs is ever missing.
OnlyDropped ==
  \A n \in 1..Len(Code) : ~Present(n) => op[n] \in {"lui", "nop"}

\* The inductive invariant.
IInv == Shape /\ Decodes /\ Named /\ Placed /\ Opcodes /\ OnlyDropped

-----------------------------------------------------------------------------
(***************************************************************************)
(* Deletions.                                                              *)
(***************************************************************************)
\* What a relaxation does: the n halfwords after the first a are an instruction or
\* the second half of one that has a short form now.
Deletion(a, n, rels) ==
  /\ a \in Nat /\ n \in {1, 2} /\ a + n <= Len(contents)
  /\ DeleteBytes(2 * a, 2 * n, rels)
  /\ rels \in Seq(Rec) /\ Len(rels) = Len(relocs)
  /\ \A k \in 1..Len(relocs) : /\ rels[k].insn = relocs[k].insn /\ rels[k].sym = relocs[k].sym
                               /\ rels[k].offset = relocs[k].offset
  /\ op' \in [1..Len(Code) -> Op16 \cup Op32]
  /\ \A x \in 1..Len(Code) : op'[x] = op[x] \/ <<op[x], op'[x]>> \in Shorter
  /\ Removable(contents, a, n, op, op', Len(Code))
  /\ contents[a + 1][2] = 1 => op[contents[a + 1][1]] \in {"lui", "nop"}

\* The section in any state is one of those considered.
LEMMA CodeType ==
  ASSUME Shape
  PROVE  /\ Code \in Seq(Insn) /\ Len(Code) \in Nat
         /\ section.label \in [Labels -> 1..(Len(Code) + 1)]
BY SectionsAssumption DEF Shape, IsSection, Code

\* The halfwords that are deleted are of one instruction.
LEMMA DeletedHalves ==
  ASSUME IInv, NEW a, NEW n, NEW rels, Deletion(a, n, rels)
  PROVE  /\ Len(contents) \in Nat /\ a + 1 \in 1..Len(contents)
         /\ contents[a + 1][1] \in 1..Len(Code)
         /\ n = 2 => contents[a + 2] = <<contents[a + 1][1], 2>>
                     /\ a + 2 \in 1..Len(contents)
         /\ contents[a + 1][2] = 2 => a \in 1..Len(contents)
                                      /\ contents[a] = <<contents[a + 1][1], 1>>
<1>1. Len(Code) \in Nat /\ contents \in Halfwords(Len(Code))
  BY CodeType DEF IInv, Shape
<1>2. Len(contents) \in Nat /\ a \in Nat /\ n \in {1, 2} /\ a + n <= Len(contents)
  BY <1>1, HalfwordFacts DEF Deletion
<1>3. a + 1 \in 1..Len(contents)
  BY <1>2
<1>4. contents[a + 1][1] \in 1..Len(Code)
  BY <1>1, <1>3, HalfwordFacts
<1>5. ASSUME n = 2
      PROVE  contents[a + 2] = <<contents[a + 1][1], 2>> /\ a + 2 \in 1..Len(contents)
  <2>1. contents[a + 1][2] = 1 /\ Size(op[contents[a + 1][1]]) = 4
    BY <1>5 DEF Deletion, Removable
  <2>2. contents[a + 1 + 1] = <<contents[a + 1][1], 2>>
    BY <1>3, <2>1 DEF IInv, Decodes, Whole
  <2>3. QED
    BY <1>2, <1>5, <2>2
<1>6. ASSUME contents[a + 1][2] = 2
      PROVE  a \in 1..Len(contents) /\ contents[a] = <<contents[a + 1][1], 1>>
  <2>1. a + 1 > 1 /\ contents[a + 1 - 1] = <<contents[a + 1][1], 1>>
    BY <1>2, <1>3, <1>6 DEF IInv, Decodes, Whole
  <2>2. QED
    BY <1>2, <2>1
<1>7. QED
  BY <1>2, <1>3, <1>4, <1>5, <1>6

\* The state after a deletion.
LEMMA DeletedState ==
  ASSUME IInv, NEW a, NEW n, NEW rels, Deletion(a, n, rels)
  PROVE  /\ contents' = Without(contents, a, n)
         /\ Len(relocs') = Len(relocs)
         /\ \A k \in 1..Len(relocs) :
              /\ relocs'[k].insn = relocs[k].insn /\ relocs'[k].sym = relocs[k].sym
              /\ relocs'[k].type = rels[k].type
              /\ relocs'[k].offset = Shifted(relocs[k].offset, 2 * a, 2 * n)
              /\ Shifted(relocs[k].offset, 2 * a, 2 * n) \in Nat => relocs'[k] \in Rec
         /\ \A l \in Labels : value'[l] = Shifted(value[l], 2 * a, 2 * n)
         /\ section' = section /\ pc' = pc /\ again' = TRUE /\ irel' = irel + 1
<1>1. Len(contents) \in Nat /\ a \in Nat /\ n \in {1, 2}
  BY DeletedHalves DEF Deletion
<1>2. contents' = [k \in 1..(Len(contents) - (2 * n) \div 2) |->
                    IF 2 * k <= 2 * a THEN contents[k] ELSE contents[k + (2 * n) \div 2]]
  BY DEF Deletion, DeleteBytes
<1>3. (2 * n) \div 2 = n /\ \A k \in Int : 2 * k <= 2 * a <=> k <= a
  BY <1>1
<1>4. contents' = Without(contents, a, n)
  <2>1. contents' = [k \in 1..(Len(contents) - n) |->
                    IF 2 * k <= 2 * a THEN contents[k] ELSE contents[k + n]]
    BY <1>2, <1>3
  <2>2. \A k \in 1..(Len(contents) - n) :
          (IF 2 * k <= 2 * a THEN contents[k] ELSE contents[k + n]) = contents[At(a, n, k)]
    BY <1>1, <1>3 DEF At
  <2>3. QED
    BY <2>1, <2>2 DEF Without
<1>5. DOMAIN rels = 1..Len(relocs) /\ Len(relocs) \in Nat
  BY DEF Deletion
<1>6. relocs' = [k \in 1..Len(relocs) |->
                  [rels[k] EXCEPT !.offset = Shifted(rels[k].offset, 2 * a, 2 * n)]]
  BY <1>5 DEF Deletion, DeleteBytes
<1>7. Len(relocs') = Len(relocs)
  BY <1>5, <1>6
<1>8. ASSUME NEW k \in 1..Len(relocs)
      PROVE  /\ relocs'[k].insn = relocs[k].insn /\ relocs'[k].sym = relocs[k].sym
             /\ relocs'[k].type = rels[k].type
             /\ relocs'[k].offset = Shifted(relocs[k].offset, 2 * a, 2 * n)
             /\ Shifted(relocs[k].offset, 2 * a, 2 * n) \in Nat => relocs'[k] \in Rec
  <2>1. /\ rels[k].offset = relocs[k].offset /\ rels[k].insn = relocs[k].insn
        /\ rels[k].sym = relocs[k].sym /\ rels[k] \in Rec
    BY DEF Deletion
  <2>2. relocs'[k] = [rels[k] EXCEPT !.offset = Shifted(relocs[k].offset, 2 * a, 2 * n)]
    BY <1>6, <2>1
  <2>3. QED
    BY <2>1, <2>2 DEF Rec
<1>9. /\ \A l \in Labels : value'[l] = Shifted(value[l], 2 * a, 2 * n)
      /\ section' = section /\ pc' = pc /\ again' = TRUE /\ irel' = irel + 1
  BY DEF Deletion, DeleteBytes
<1>10. QED
  BY <1>4, <1>7, <1>8, <1>9

\* The types of relocations after a deletion.
LEMMA DeletedTypes ==
  ASSUME NEW a, NEW n, NEW rels, Deletion(a, n, rels)
  PROVE  \A k \in 1..Len(relocs) : relocs'[k].type = rels[k].type
<1>1. DOMAIN rels = 1..Len(relocs) /\ rels \in Seq(Rec) /\ Len(rels) = Len(relocs)
  BY DEF Deletion
<1>2. relocs' = [k \in 1..Len(relocs) |->
                  [rels[k] EXCEPT !.offset = Shifted(rels[k].offset, 2 * a, 2 * n)]]
  BY <1>1 DEF Deletion, DeleteBytes
<1>3. SUFFICES ASSUME NEW k \in 1..Len(relocs)
               PROVE  relocs'[k].type = rels[k].type
  OBVIOUS
<1>4. rels[k] \in Rec
  BY <1>1
<1>5. relocs'[k] = [rels[k] EXCEPT !.offset = Shifted(rels[k].offset, 2 * a, 2 * n)]
  BY <1>2
<1>6. QED
  BY <1>4, <1>5 DEF Rec

\* The offset of an instruction after a deletion is again its offset.
LEMMA DeletedPlaces ==
  ASSUME IInv, NEW a, NEW n, NEW rels, Deletion(a, n, rels),
         NEW i \in Nat, NEW p \in Nat, Cut(contents, i, p)
  PROVE  /\ \E q \in Nat : Shifted(2 * p, 2 * a, 2 * n) = 2 * q /\ Cut(contents', i, q)
         /\ p > a => p >= a + n
<1>1. Len(Code) \in Nat /\ contents \in Halfwords(Len(Code))
  BY CodeType DEF IInv, Shape
<1>2. a \in Nat /\ n \in {1, 2} /\ a + n <= Len(contents)
  BY DEF Deletion
<1>3. n = 2 => contents[a + 1][1] = contents[a + 2][1]
  BY DeletedHalves
<1>4. /\ Cut(Without(contents, a, n), i, IF p > a THEN p - n ELSE p)
      /\ p > a => p >= a + n
  BY <1>1, <1>2, <1>3, CutWithout
<1>5. contents' = Without(contents, a, n)
  BY DeletedState
<1> DEFINE q == IF p > a THEN p - n ELSE p
<1>6. q \in Nat /\ Shifted(2 * p, 2 * a, 2 * n) = 2 * q
  BY <1>2, <1>4 DEF Shifted
<1>7. QED
  BY <1>4, <1>5, <1>6

\* A deletion brings nothing back and removes at most the instruction deleted.
LEMMA DeletedPresent ==
  ASSUME IInv, NEW a, NEW n, NEW rels, Deletion(a, n, rels), NEW x
  PROVE  /\ Present(x)' => Present(x)
         /\ Present(x) => Present(x)' \/ (contents[a + 1][2] = 1 /\ x = contents[a + 1][1])
<1>1. Len(Code) \in Nat /\ contents \in Halfwords(Len(Code))
  BY CodeType DEF IInv, Shape
<1>2. a \in Nat /\ n \in {1, 2} /\ n \in Nat /\ a + n <= Len(contents)
  BY DEF Deletion
<1>3. contents' = Without(contents, a, n)
  BY DeletedState
<1>4. /\ Len(contents') = Len(contents) - n /\ contents' \in Halfwords(Len(Code))
      /\ \A k \in 1..(Len(contents) - n) : contents'[k] = contents[At(a, n, k)]
  BY <1>1, <1>2, <1>3, WithoutFacts
<1>5. Len(contents) \in Nat /\ DOMAIN contents = 1..Len(contents)
      /\ DOMAIN contents' = 1..(Len(contents) - n)
  BY <1>1, <1>2, <1>4, HalfwordFacts
<1>6. ASSUME NEW k \in DOMAIN contents', contents'[k][1] = x
      PROVE  Present(x)
  <2>1. At(a, n, k) \in DOMAIN contents
    BY <1>2, <1>5 DEF At
  <2>2. QED
    BY <1>4, <1>5, <1>6, <2>1 DEF Present
<1>7. ASSUME NEW k \in DOMAIN contents, contents[k][1] = x
      PROVE  Present(x)' \/ (contents[a + 1][2] = 1 /\ x = contents[a + 1][1])
  <2>1. CASE k <= a
    <3>1. k \in DOMAIN contents' /\ At(a, n, k) = k
      BY <1>2, <1>5, <2>1 DEF At
    <3>2. QED
      BY <1>4, <1>5, <1>7, <3>1 DEF Present
  <2>2. CASE k > a + n
    <3>1. k - n \in DOMAIN contents' /\ At(a, n, k - n) = k
      BY <1>2, <1>5, <2>2 DEF At
    <3>2. QED
      BY <1>4, <1>5, <1>7, <3>1 DEF Present
  <2>3. CASE a < k /\ k <= a + n
    <3>1. k = a + 1 \/ (n = 2 /\ k = a + 2)
      BY <1>2, <1>5, <2>3
    <3>2. x = contents[a + 1][1]
      BY <1>7, <3>1, DeletedHalves
    <3>3. ASSUME contents[a + 1][2] = 2
          PROVE  Present(x)'
      <4>1. a \in DOMAIN contents /\ contents[a][1] = x
        BY <1>5, <3>2, <3>3, DeletedHalves
      <4>2. a \in DOMAIN contents' /\ At(a, n, a) = a
        BY <1>2, <1>5, <4>1 DEF At
      <4>3. QED
        BY <1>4, <1>5, <4>1, <4>2 DEF Present
    <3>4. contents[a + 1][2] \in {1, 2}
      BY <1>1, DeletedHalves, HalfwordFacts
    <3>5. QED
      BY <3>2, <3>3, <3>4
  <2>4. QED
    BY <1>2, <1>5, <2>1, <2>2, <2>3
<1>8. QED
  BY <1>6, <1>7 DEF Present

\* Every deletion keeps the invariant.
LEMMA DeletionInv ==
  ASSUME IInv, irel \in 1..Len(relocs), NEW a, NEW n, NEW rels, Deletion(a, n, rels)
  PROVE  IInv'
<1>1. /\ Len(Code) \in Nat /\ contents \in Halfwords(Len(Code)) /\ Code' = Code
      /\ section.label \in [Labels -> 1..(Len(Code) + 1)]
  BY CodeType, DeletedState DEF IInv, Shape, Code
<1>2. a \in Nat /\ n \in {1, 2} /\ n \in Nat /\ a + n <= Len(contents)
  BY DEF Deletion
<1>3. /\ contents' = Without(contents, a, n)
      /\ Len(relocs') = Len(relocs)
      /\ \A l \in Labels : value'[l] = Shifted(value[l], 2 * a, 2 * n)
      /\ section' = section /\ pc' = pc /\ again' = TRUE /\ irel' = irel + 1
  BY DeletedState
<1>4. ASSUME NEW k \in 1..Len(relocs)
      PROVE  /\ relocs'[k].insn = relocs[k].insn /\ relocs'[k].sym = relocs[k].sym
             /\ relocs'[k].type = rels[k].type
             /\ relocs'[k].offset = Shifted(relocs[k].offset, 2 * a, 2 * n)
             /\ relocs[k].insn \in Nat
             /\ \E q \in Nat : relocs'[k].offset = 2 * q /\ Cut(contents', relocs[k].insn, q)
             /\ relocs'[k] \in Rec
  <2>1. /\ relocs'[k].insn = relocs[k].insn /\ relocs'[k].sym = relocs[k].sym
        /\ relocs'[k].type = rels[k].type
        /\ relocs'[k].offset = Shifted(relocs[k].offset, 2 * a, 2 * n)
        /\ Shifted(relocs[k].offset, 2 * a, 2 * n) \in Nat => relocs'[k] \in Rec
    BY DeletedState
  <2>2. relocs[k] \in Rec
    BY DEF IInv, Shape
  <2>3. PICK p : p \in Nat /\ relocs[k].offset = 2 * p /\ Cut(contents, relocs[k].insn, p)
    BY DEF IInv, Placed
  <2>4. relocs[k].insn \in Nat
    BY <2>2 DEF Rec
  <2>5. \E q \in Nat : /\ Shifted(relocs[k].offset, 2 * a, 2 * n) = 2 * q
                       /\ Cut(contents', relocs[k].insn, q)
    <3>1. PICK i \in Nat : i = relocs[k].insn
      BY <2>4
    <3>2. \E q \in Nat : Shifted(2 * p, 2 * a, 2 * n) = 2 * q /\ Cut(contents', i, q)
      BY <2>3, <3>1, DeletedPlaces
    <3>3. QED
      BY <2>3, <3>1, <3>2
  <2>6. Shifted(relocs[k].offset, 2 * a, 2 * n) \in Nat
    BY <2>5
  <2>7. QED
    BY <2>1, <2>4, <2>5, <2>6
<1>5. ASSUME NEW l \in Labels
      PROVE  \E q \in Nat : value'[l] = 2 * q /\ Cut(contents', section.label[l], q)
  <2>1. PICK p : p \in Nat /\ value[l] = 2 * p /\ Cut(contents, section.label[l], p)
    BY DEF IInv, Placed
  <2>2. PICK i \in Nat : i = section.label[l]
    BY <1>1
  <2>3. \E q \in Nat : Shifted(2 * p, 2 * a, 2 * n) = 2 * q /\ Cut(contents', i, q)
    <3>1. Cut(contents, i, p) /\ p \in Nat /\ i \in Nat
      BY <2>1, <2>2
    <3>2. QED
      BY <3>1, DeletedPlaces
  <2>4. QED
    BY <1>3, <2>1, <2>2, <2>3
<1>6. Shape'
  <2>1. contents' \in Halfwords(Len(Code))
    BY <1>1, <1>2, <1>3, WithoutFacts
  <2>2. relocs' \in Seq(Rec)
    <3>1. Len(relocs) \in Nat /\ DOMAIN relocs' = 1..Len(relocs)
      BY DEF Deletion, DeleteBytes, IInv, Shape
    <3>2. relocs' = [k \in 1..Len(relocs) |-> relocs'[k]]
      BY <3>1 DEF Deletion, DeleteBytes
    <3>3. \A k \in 1..Len(relocs) : relocs'[k] \in Rec
      BY <1>4
    <3>4. QED
      BY <3>1, <3>2, <3>3
  <2>3. value' \in [Labels -> Nat]
    <3>1. value' = [l \in Labels |-> Shifted(value[l], 2 * a, 2 * n)]
      BY DEF Deletion, DeleteBytes
    <3>2. \A l \in Labels : Shifted(value[l], 2 * a, 2 * n) \in Nat
      BY <1>3, <1>5
    <3>3. QED
      BY <3>1, <3>2
  <2>4. irel' \in 1..(Len(relocs') + 1)
    BY <1>3 DEF IInv, Shape
  <2>5. op' \in [1..Len(Code) -> Op16 \cup Op32]
    BY DEF Deletion
  <2>6. /\ section' \in Sections /\ pc' \in {"walk", "done"} /\ again' \in BOOLEAN
        /\ Len(relocs') = Len(RelocsOf(Code))
    BY <1>3 DEF IInv, Shape
  <2>7. QED
    BY <1>1, <2>1, <2>2, <2>3, <2>4, <2>5, <2>6 DEF Shape
<1>7. Decodes'
  <2>1. Ordered(contents)
    BY DEF IInv, Decodes
  <2>2. Ordered(contents')
    BY <1>1, <1>2, <1>3, <2>1, OrderedWithout
  <2>3. Whole(contents, op)
    BY DEF IInv, Decodes
  <2>4. Whole(contents', op')
    <3>1. Removable(contents, a, n, op, op', Len(Code))
      BY DEF Deletion
    <3>2. PICK L, c, o, q : L = Len(Code) /\ c = contents /\ o = op /\ q = op'
      OBVIOUS
    <3>3. /\ L \in Nat /\ c \in Halfwords(L) /\ a + n <= Len(c) /\ Ordered(c) /\ Whole(c, o)
          /\ Removable(c, a, n, o, q, L)
      BY <1>1, <1>2, <2>1, <2>3, <3>1, <3>2
    <3>4. Whole(Without(c, a, n), q)
      BY <1>2, <3>3, WholeWithout
    <3>5. QED
      BY <1>3, <3>2, <3>4
  <2>5. QED
    BY <2>2, <2>4 DEF Decodes
<1>8. Named' /\ Placed'
  <2>1. Named'
    BY <1>1, <1>3, <1>4 DEF IInv, Named
  <2>2. ASSUME NEW k \in 1..Len(relocs)
        PROVE  \E q \in 0..Len(contents') :
                 relocs'[k].offset = 2 * q /\ Cut(contents', relocs'[k].insn, q)
    BY <1>4 DEF Cut
  <2>3. ASSUME NEW l \in Labels
        PROVE  \E q \in 0..Len(contents') :
                 value'[l] = 2 * q /\ Cut(contents', section'.label[l], q)
    BY <1>3, <1>5 DEF Cut
  <2>4. QED
    BY <1>3, <2>1, <2>2, <2>3 DEF Placed
<1>9. Opcodes'
  <2>1. SUFFICES ASSUME NEW x \in 1..Len(Code)
                 PROVE  op'[x] = Code[x].op \/ <<Code[x].op, op'[x]>> \in Shorter
    BY <1>1 DEF Opcodes
  <2>2. op[x] = Code[x].op \/ <<Code[x].op, op[x]>> \in Shorter
    BY DEF IInv, Opcodes
  <2>3. op'[x] = op[x] \/ <<op[x], op'[x]>> \in Shorter
    BY DEF Deletion
  <2>4. <<op[x], op'[x]>> \in Shorter => <<Code[x].op, op[x]>> \notin Shorter
    BY DEF Shorter
  <2>5. QED
    BY <2>2, <2>3, <2>4
<1>10. OnlyDropped'
  <2>1. SUFFICES ASSUME NEW x \in 1..Len(Code), ~Present(x)'
                 PROVE  op'[x] \in {"lui", "nop"}
    BY <1>1 DEF OnlyDropped
  <2>2. op[x] \in {"lui", "nop"}
    <3>1. ~Present(x) \/ (contents[a + 1][2] = 1 /\ x = contents[a + 1][1])
      BY <2>1, DeletedPresent
    <3>2. contents[a + 1][2] = 1 => op[contents[a + 1][1]] \in {"lui", "nop"}
      BY DEF Deletion
    <3>3. QED
      BY <3>1, <3>2 DEF IInv, OnlyDropped
  <2>3. op'[x] = op[x] \/ <<op[x], op'[x]>> \in Shorter
    BY DEF Deletion
  <2>4. QED
    BY <2>2, <2>3 DEF Shorter
<1>11. QED
  BY <1>6, <1>7, <1>8, <1>9, <1>10 DEF IInv

-----------------------------------------------------------------------------
(***************************************************************************)
(* Each relaxation is a deletion.                                          *)
(***************************************************************************)
\* What is at an offset.
LEMMA OpAtFacts ==
  ASSUME Shape, NEW a \in Int, NEW x, x = 2 * a, OpAt(x) # "none"
  PROVE  /\ a + 1 \in 1..Len(contents) /\ Len(contents) \in Nat
         /\ contents[a + 1] = <<contents[a + 1][1], 1>> /\ contents[a + 1][2] = 1
         /\ contents[a + 1][1] \in 1..Len(Code)
         /\ OpAt(x) = op[contents[a + 1][1]] /\ InsnAt(x) = contents[a + 1][1]
<1>1. Len(Code) \in Nat /\ contents \in Halfwords(Len(Code))
  BY CodeType DEF Shape
<1>2. Len(contents) \in Nat
  BY <1>1, HalfwordFacts
<1>3. 2 * a \in 0..(2 * Len(contents) - 2) /\ contents[(2 * a) \div 2 + 1][2] = 1
  BY DEF OpAt, SectionSize
<1>4. (2 * a) \div 2 = a /\ a + 1 \in 1..Len(contents)
  BY <1>2, <1>3
<1>5. /\ contents[a + 1] = <<contents[a + 1][1], contents[a + 1][2]>>
      /\ contents[a + 1][1] \in 1..Len(Code)
  BY <1>1, <1>4, HalfwordFacts
<1>6. OpAt(x) = op[contents[a + 1][1]] /\ InsnAt(x) = contents[a + 1][1]
  BY <1>3, <1>4 DEF OpAt, InsnAt, SectionSize
<1>7. QED
  BY <1>2, <1>3, <1>4, <1>5, <1>6

\* The second half of what is at an offset.
LEMMA SecondHalf ==
  ASSUME IInv, NEW k \in 1..Len(contents), contents[k][2] = 1,
         Size(op[contents[k][1]]) = 4
  PROVE  k + 1 \in 1..Len(contents) /\ contents[k + 1] = <<contents[k][1], 2>>
         /\ contents[k + 1][1] = contents[k][1] /\ contents[k + 1][2] = 2
<1>1. k < Len(contents) /\ contents[k + 1] = <<contents[k][1], 2>>
  BY DEF IInv, Decodes, Whole
<1>2. Len(contents) \in Nat
  BY CodeType, HalfwordFacts DEF IInv, Shape
<1>3. QED
  BY <1>1, <1>2

\* Relocations of which the k-th has another type.
WithType(r, k, t) == [r EXCEPT ![k].type = t]

\* Giving a relocation another type leaves the rest of it alone.
LEMMA TypeSet ==
  ASSUME NEW r \in Seq(Rec), NEW k \in 1..Len(r), NEW t \in Types
  PROVE  /\ WithType(r, k, t) \in Seq(Rec) /\ Len(WithType(r, k, t)) = Len(r)
         /\ WithType(r, k, t)[k].type = t
         /\ \A j \in 1..Len(r) :
              /\ WithType(r, k, t)[j].insn = r[j].insn
              /\ WithType(r, k, t)[j].sym = r[j].sym
              /\ WithType(r, k, t)[j].offset = r[j].offset
              /\ j # k => WithType(r, k, t)[j].type = r[j].type
<1> DEFINE q == WithType(r, k, t)
<1>1. Len(r) \in Nat /\ \A j \in 1..Len(r) : r[j] \in Rec
  OBVIOUS
<1>2. [r[k] EXCEPT !.type = t] \in Rec
  BY <1>1 DEF Rec
<1>3. q = [r EXCEPT ![k] = [r[k] EXCEPT !.type = t]]
  BY DEF WithType
<1> HIDE DEF q
<1>4. q \in Seq(Rec) /\ Len(q) = Len(r)
  BY <1>2, <1>3
<1>5. q[k] = [r[k] EXCEPT !.type = t] /\ \A j \in 1..Len(r) : j # k => q[j] = r[j]
  BY <1>1, <1>3
<1>6. /\ q[k].type = t /\ q[k].insn = r[k].insn
      /\ q[k].sym = r[k].sym /\ q[k].offset = r[k].offset
  BY <1>1, <1>5 DEF Rec
<1>7. QED
  BY <1>4, <1>5, <1>6 DEF q

\* Where the relocation that is visited is.
LEMMA RelocAt ==
  ASSUME IInv, NEW k \in 1..Len(relocs)
  PROVE  \E a \in Nat : relocs[k].offset = 2 * a /\ Cut(contents, relocs[k].insn, a)
<1>1. Len(contents) \in Nat
  BY CodeType, HalfwordFacts DEF IInv, Shape
<1>2. QED
  BY <1>1 DEF IInv, Placed

\* DropLui deletes the LUI.
LEMMA DropLuiDeletes ==
  ASSUME IInv, irel \in 1..Len(relocs), DropLui
  PROVE  \E a, rels :
           /\ Deletion(a, 2, rels)
           /\ relocs[irel].offset = 2 * a /\ contents[a + 1][2] = 1
           /\ op[contents[a + 1][1]] = "lui"
           /\ \A k \in 1..Len(relocs) : rels[k].type = IF k = irel THEN "NONE"
                                                       ELSE IF k = irel + 1 THEN LoForm(irel)
                                                       ELSE relocs[k].type
<1>1. /\ Shape /\ Len(relocs) \in Nat /\ relocs \in Seq(Rec)
      /\ op \in [1..Len(Code) -> Op16 \cup Op32]
  BY DEF IInv, Shape
<1>2. PICK a : a \in Nat /\ relocs[irel].offset = 2 * a /\ Cut(contents, relocs[irel].insn, a)
  BY RelocAt
<1>3. /\ OpAt(relocs[irel].offset) = "lui" /\ irel < Len(relocs)
      /\ LoForm(irel) \in {"HI0_LO16", "PC23"}
  BY DEF DropLui, CanDropLui, IsPair, LoForm
<1>4. /\ a + 1 \in 1..Len(contents) /\ Len(contents) \in Nat
      /\ contents[a + 1][2] = 1 /\ contents[a + 1][1] \in 1..Len(Code)
      /\ op[contents[a + 1][1]] = "lui"
  <2>1. a \in Int /\ OpAt(relocs[irel].offset) # "none"
    BY <1>2, <1>3
  <2>2. QED
    BY <1>1, <1>2, <1>3, <2>1, OpAtFacts
<1>5. Size(op[contents[a + 1][1]]) = 4
  BY <1>4 DEF Size, Op16
<1>6. a + 2 <= Len(contents)
  BY <1>2, <1>4, <1>5, SecondHalf
<1>7. irel + 1 \in 1..Len(relocs) /\ "NONE" \in Types /\ LoForm(irel) \in Types
  BY <1>1, <1>3 DEF Types
<1>8. PICK r, i, i1, t : r = relocs /\ i = irel /\ i1 = irel + 1 /\ t = LoForm(irel)
  OBVIOUS
<1>9. PICK one, rels : one = WithType(r, i, "NONE") /\ rels = WithType(one, i1, t)
  OBVIOUS
<1>10. /\ one \in Seq(Rec) /\ Len(one) = Len(r) /\ one[i].type = "NONE"
       /\ \A j \in 1..Len(r) :
            /\ one[j].insn = r[j].insn /\ one[j].sym = r[j].sym /\ one[j].offset = r[j].offset
            /\ j # i => one[j].type = r[j].type
  <2>1. r \in Seq(Rec) /\ i \in 1..Len(r) /\ "NONE" \in Types
    BY <1>1, <1>7, <1>8
  <2>2. QED
    BY <1>9, <2>1, TypeSet
<1>11. /\ rels \in Seq(Rec) /\ Len(rels) = Len(r) /\ rels[i1].type = t
       /\ \A j \in 1..Len(r) :
            /\ rels[j].insn = one[j].insn /\ rels[j].sym = one[j].sym
            /\ rels[j].offset = one[j].offset
            /\ j # i1 => rels[j].type = one[j].type
  <2>1. i1 \in 1..Len(one) /\ t \in Types /\ one \in Seq(Rec) /\ Len(one) = Len(r)
    BY <1>7, <1>8, <1>10
  <2>2. rels = WithType(one, i1, t)
    BY <1>9
  <2> HIDE DEF WithType
  <2>3. QED
    BY <2>1, <2>2, TypeSet
<1>12. DeleteBytes(2 * a, 2 * 2, rels)
  <2>1. rels = [relocs EXCEPT ![irel].type = "NONE", ![irel + 1].type = LoForm(irel)]
    BY <1>8, <1>9 DEF WithType
  <2>2. 2 * 2 = 4
    OBVIOUS
  <2>3. QED
    BY <1>2, <2>1, <2>2 DEF DropLui
<1>13. /\ op' \in [1..Len(Code) -> Op16 \cup Op32]
       /\ \A x \in 1..Len(Code) : op'[x] = op[x] \/ (op[x] = "addiu" /\ op'[x] = "addiupc")
  <2>1. CASE LoForm(irel) = "PC23"
    <3>1. OpAt(relocs[irel + 1].offset) = "addiu"
      BY <2>1 DEF LoForm
    <3>2. PICK b : b \in Nat /\ relocs[irel + 1].offset = 2 * b
      BY <1>7, RelocAt
    <3>3. op[InsnAt(relocs[irel + 1].offset)] = "addiu"
      BY <1>1, <3>1, <3>2, OpAtFacts
    <3>4. op' = [op EXCEPT ![InsnAt(relocs[irel + 1].offset)] = "addiupc"]
      BY <2>1 DEF DropLui
    <3>5. "addiupc" \in Op32
      BY DEF Op32
    <3>6. QED
      BY <1>1, <3>3, <3>4, <3>5
  <2>2. CASE LoForm(irel) # "PC23"
    BY <1>1, <2>2 DEF DropLui
  <2>3. QED
    BY <2>1, <2>2
<1>14. Removable(contents, a, 2, op, op', Len(Code))
  <2>1. \A x \in 1..Len(Code) : Size(op'[x]) = Size(op[x])
    BY <1>13 DEF Size, Op16
  <2>2. QED
    BY <1>4, <1>5, <2>1 DEF Removable
<1>15. Deletion(a, 2, rels)
  <2>1. \A x \in 1..Len(Code) : op'[x] = op[x] \/ <<op[x], op'[x]>> \in Shorter
    BY <1>13 DEF Shorter
  <2>2. QED
    BY <1>2, <1>4, <1>6, <1>8, <1>10, <1>11, <1>12, <1>13, <1>14, <2>1 DEF Deletion
<1>16. \A k \in 1..Len(relocs) : rels[k].type = IF k = irel THEN "NONE"
                                               ELSE IF k = irel + 1 THEN LoForm(irel)
                                               ELSE relocs[k].type
  BY <1>7, <1>8, <1>10, <1>11
<1>17. QED
  BY <1>2, <1>4, <1>15, <1>16

\* The instruction that a branch or jump begins, and where it ends.
LEMMA LongAt ==
  ASSUME IInv, NEW x \in Int, OpAt(x) \in Op32
  PROVE  \A a \in Nat : x = 2 * a =>
           /\ a + 1 \in 1..Len(contents) /\ a + 2 \in 1..Len(contents)
           /\ contents[a + 1][1] \in 1..Len(Code)
           /\ contents[a + 1] = <<contents[a + 1][1], 1>> /\ contents[a + 1][2] = 1
           /\ contents[a + 2] = <<contents[a + 1][1], 2>> /\ contents[a + 2][2] = 2
           /\ contents[a + 2][1] = contents[a + 1][1]
           /\ OpAt(x) = op[contents[a + 1][1]] /\ InsnAt(x) = contents[a + 1][1]
<1>1. SUFFICES ASSUME NEW a \in Nat, x = 2 * a
               PROVE  /\ a + 1 \in 1..Len(contents) /\ a + 2 \in 1..Len(contents)
                      /\ contents[a + 1][1] \in 1..Len(Code)
                      /\ contents[a + 1] = <<contents[a + 1][1], 1>> /\ contents[a + 1][2] = 1
                      /\ contents[a + 2] = <<contents[a + 1][1], 2>> /\ contents[a + 2][2] = 2
                      /\ contents[a + 2][1] = contents[a + 1][1]
                      /\ OpAt(x) = op[contents[a + 1][1]] /\ InsnAt(x) = contents[a + 1][1]
  OBVIOUS
<1>2. Shape /\ a \in Int /\ OpAt(x) # "none"
  BY DEF IInv, Op32
<1>3. /\ a + 1 \in 1..Len(contents) /\ Len(contents) \in Nat
      /\ contents[a + 1] = <<contents[a + 1][1], 1>> /\ contents[a + 1][2] = 1
      /\ contents[a + 1][1] \in 1..Len(Code)
      /\ OpAt(x) = op[contents[a + 1][1]] /\ InsnAt(x) = contents[a + 1][1]
  BY <1>1, <1>2, OpAtFacts
<1>4. Size(op[contents[a + 1][1]]) = 4
  BY <1>3 DEF Op32, Op16, Size
<1>5. PICK k \in 1..Len(contents) : k = a + 1
  BY <1>3
<1>6. k + 1 \in 1..Len(contents) /\ contents[k + 1] = <<contents[k][1], 2>>
      /\ contents[k + 1][1] = contents[k][1] /\ contents[k + 1][2] = 2
  BY <1>3, <1>4, <1>5, SecondHalf
<1>7. k + 1 = a + 2
  BY <1>5
<1>8. QED
  BY <1>3, <1>5, <1>6, <1>7

\* The types that most steps need.
LEMMA StateTypes ==
  ASSUME IInv
  PROVE  /\ relocs \in Seq(Rec) /\ Len(relocs) \in Nat
         /\ op \in [1..Len(Code) -> Op16 \cup Op32]
BY DEF IInv, Shape

\* CompactBranch deletes the NOP in the delay slot.
LEMMA CompactBranchDeletes ==
  ASSUME IInv, irel \in 1..Len(relocs), CompactBranch
  PROVE  \E a \in Nat :
           /\ Deletion(a + 2, 1, relocs)
           /\ relocs[irel].offset = 2 * a /\ relocs[irel].type = "PC16"
           /\ a + 3 \in 1..Len(contents)
           /\ contents[a + 1][1] \in 1..Len(Code) /\ contents[a + 1][2] = 1
           /\ contents[a + 2] = <<contents[a + 1][1], 2>>
           /\ contents[a + 3][2] = 1 /\ contents[a + 3][1] \in 1..Len(Code)
           /\ op[contents[a + 1][1]] \in {"beqz", "b"} /\ op[contents[a + 3][1]] = "nop"
           /\ op' = [op EXCEPT ![contents[a + 1][1]] = "bzc"]
<1>1. PICK a : a \in Nat /\ relocs[irel].offset = 2 * a /\ Cut(contents, relocs[irel].insn, a)
  BY RelocAt
<1>2. /\ OpAt(2 * a) \in {"beqz", "b"} /\ OpAt(2 * a + 4) = "nop"
      /\ relocs[irel].type = "PC16"
  BY <1>1 DEF CompactBranch, CanCompact
<1>3. /\ a + 1 \in 1..Len(contents) /\ contents[a + 1][1] \in 1..Len(Code)
      /\ contents[a + 1][2] = 1 /\ contents[a + 2] = <<contents[a + 1][1], 2>>
      /\ OpAt(2 * a) = op[contents[a + 1][1]] /\ InsnAt(2 * a) = contents[a + 1][1]
  <2>1. OpAt(2 * a) \in Op32
    BY <1>2 DEF Op32
  <2>2. PICK x \in Int : x = 2 * a
    BY <1>1
  <2>3. OpAt(x) \in Op32
    BY <2>1, <2>2
  <2>4. QED
    BY <1>1, <2>2, <2>3, LongAt
<1>4. /\ a + 3 \in 1..Len(contents) /\ Len(contents) \in Nat
      /\ contents[a + 3][2] = 1 /\ contents[a + 3][1] \in 1..Len(Code)
      /\ OpAt(2 * a + 4) = op[contents[a + 3][1]]
  <2>1. PICK b \in Int : b = a + 2
    BY <1>1
  <2>2. PICK x : x = 2 * a + 4
    OBVIOUS
  <2>3. x = 2 * b /\ OpAt(x) # "none" /\ b + 1 = a + 3
    BY <1>1, <1>2, <2>1, <2>2
  <2>4. Shape
    BY DEF IInv
  <2>5. /\ b + 1 \in 1..Len(contents) /\ Len(contents) \in Nat /\ contents[b + 1][2] = 1
        /\ contents[b + 1][1] \in 1..Len(Code) /\ OpAt(x) = op[contents[b + 1][1]]
    BY <2>3, <2>4, OpAtFacts
  <2>6. QED
    BY <2>2, <2>3, <2>5
<1>5. op' = [op EXCEPT ![contents[a + 1][1]] = "bzc"]
  BY <1>1, <1>3 DEF CompactBranch
<1>6. op[contents[a + 1][1]] \in {"beqz", "b"} /\ op[contents[a + 3][1]] = "nop"
  BY <1>2, <1>3, <1>4
<1>7. op \in [1..Len(Code) -> Op16 \cup Op32]
  BY StateTypes
<1>8. Deletion(a + 2, 1, relocs)
  <2>1. a + 2 \in Nat /\ a + 2 + 1 <= Len(contents) /\ 1 \in {1, 2} /\ a + 2 + 1 = a + 3
    BY <1>1, <1>4
  <2>2. DeleteBytes(2 * (a + 2), 2 * 1, relocs)
    <3>1. 2 * (a + 2) = 2 * a + 4 /\ 2 * 1 = 2
      BY <1>1
    <3>2. QED
      BY <1>1, <3>1 DEF CompactBranch
  <2>3. op' \in [1..Len(Code) -> Op16 \cup Op32]
    BY <1>5, <1>7 DEF Op32
  <2>4. \A x \in 1..Len(Code) : op'[x] = op[x] \/ (op[x] \in {"beqz", "b"} /\ op'[x] = "bzc")
    BY <1>5, <1>6, <1>7
  <2>5. \A x \in 1..Len(Code) : op'[x] = op[x] \/ <<op[x], op'[x]>> \in Shorter
    BY <2>4 DEF Shorter
  <2>6. \A x \in 1..Len(Code) : Size(op'[x]) = Size(op[x])
    BY <2>4 DEF Size, Op16
  <2>7. Removable(contents, a + 2, 1, op, op', Len(Code))
    <3>1. Size(op[contents[a + 3][1]]) # 4
      BY <1>6 DEF Size, Op16
    <3>2. QED
      BY <1>4, <2>1, <2>6, <3>1 DEF Removable
  <2>8. QED
    BY <1>4, <1>6, <2>1, <2>2, <2>3, <2>5, <2>7, StateTypes DEF Deletion
<1>9. QED
  BY <1>1, <1>2, <1>3, <1>4, <1>5, <1>6, <1>8

\* ShortenBranch deletes the second half of the branch.
LEMMA ShortenBranchDeletes ==
  ASSUME IInv, irel \in 1..Len(relocs), ShortenBranch
  PROVE  \E a \in Nat : \E rels : \E form \in {<<"PC10", "b16">>, <<"PC7", "beqz16">>} :
           /\ Deletion(a + 1, 1, rels)
           /\ relocs[irel].offset = 2 * a /\ relocs[irel].type = "PC16"
           /\ ReachesShort(relocs[irel], form[1])
           /\ \A k \in 1..Len(relocs) : rels[k].type = IF k = irel THEN form[1]
                                                       ELSE relocs[k].type
           /\ a + 2 \in 1..Len(contents)
           /\ contents[a + 1][1] \in 1..Len(Code) /\ contents[a + 1][2] = 1
           /\ contents[a + 2] = <<contents[a + 1][1], 2>>
           /\ op[contents[a + 1][1]] \in {"beqz", "b"}
           /\ op' = [op EXCEPT ![contents[a + 1][1]] = form[2]]
<1>1. PICK a : a \in Nat /\ relocs[irel].offset = 2 * a /\ Cut(contents, relocs[irel].insn, a)
  BY RelocAt
<1>2. PICK form : /\ form \in ShortForms(relocs[irel])
                  /\ op' = [op EXCEPT ![InsnAt(relocs[irel].offset)] = form[2]]
                  /\ DeleteBytes(relocs[irel].offset + 2, 2,
                                 [relocs EXCEPT ![irel].type = form[1]])
  BY DEF ShortenBranch
<1>3. /\ form \in {<<"PC10", "b16">>, <<"PC7", "beqz16">>}
      /\ <<OpAt(relocs[irel].offset), form[2]>> \in {<<"b", "b16">>, <<"beqz", "beqz16">>}
      /\ ReachesShort(relocs[irel], form[1]) /\ relocs[irel].type = "PC16"
  BY <1>2 DEF ShortForms
<1>4. form[1] \in {"PC10", "PC7"} /\ form[2] \in {"b16", "beqz16"}
      /\ OpAt(2 * a) \in {"b", "beqz"}
  BY <1>1, <1>3
<1>5. /\ a + 1 \in 1..Len(contents) /\ a + 2 \in 1..Len(contents)
      /\ contents[a + 1][1] \in 1..Len(Code)
      /\ contents[a + 1][2] = 1 /\ contents[a + 2] = <<contents[a + 1][1], 2>>
      /\ contents[a + 2][2] = 2 /\ contents[a + 2][1] = contents[a + 1][1]
      /\ OpAt(2 * a) = op[contents[a + 1][1]] /\ InsnAt(2 * a) = contents[a + 1][1]
  <2>1. OpAt(2 * a) \in Op32
    BY <1>4 DEF Op32
  <2>2. PICK x \in Int : x = 2 * a
    BY <1>1
  <2>3. OpAt(x) \in Op32
    BY <2>1, <2>2
  <2>4. QED
    BY <1>1, <2>2, <2>3, LongAt
<1>6. op' = [op EXCEPT ![contents[a + 1][1]] = form[2]]
  BY <1>1, <1>2, <1>5
<1>7. relocs \in Seq(Rec) /\ op \in [1..Len(Code) -> Op16 \cup Op32]
  BY StateTypes
<1>8. PICK r, i, t : r = relocs /\ i = irel /\ t = form[1]
  OBVIOUS
<1>9. PICK rels : rels = WithType(r, i, t)
  OBVIOUS
<1>10. /\ rels \in Seq(Rec) /\ Len(rels) = Len(r) /\ rels[i].type = t
       /\ \A j \in 1..Len(r) :
            /\ rels[j].insn = r[j].insn /\ rels[j].sym = r[j].sym
            /\ rels[j].offset = r[j].offset
            /\ j # i => rels[j].type = r[j].type
  <2>1. r \in Seq(Rec) /\ i \in 1..Len(r) /\ t \in Types
    BY <1>4, <1>7, <1>8 DEF Types
  <2>2. QED
    BY <1>9, <2>1, TypeSet
<1>11. \A k \in 1..Len(relocs) : rels[k].type = IF k = irel THEN form[1] ELSE relocs[k].type
  BY <1>8, <1>10
<1>12. Deletion(a + 1, 1, rels)
  <2>1. a + 1 \in Nat /\ a + 1 + 1 <= Len(contents) /\ 1 \in {1, 2} /\ a + 1 + 1 = a + 2
    <3>1. Len(contents) \in Nat
      BY CodeType, HalfwordFacts DEF IInv, Shape
    <3>2. QED
      BY <1>1, <1>5, <3>1
  <2>2. DeleteBytes(2 * (a + 1), 2 * 1, rels)
    <3>1. 2 * (a + 1) = 2 * a + 2 /\ 2 * 1 = 2
      BY <1>1
    <3>2. rels = [relocs EXCEPT ![irel].type = form[1]]
      BY <1>8, <1>9 DEF WithType
    <3>3. QED
      BY <1>1, <1>2, <3>1, <3>2
  <2>3. op' \in [1..Len(Code) -> Op16 \cup Op32]
    BY <1>4, <1>6, <1>7 DEF Op16
  <2>4. \A x \in 1..Len(Code) : x # contents[a + 1][1] => op'[x] = op[x]
    BY <1>6, <1>7
  <2>5. \A x \in 1..Len(Code) : op'[x] = op[x] \/ <<op[x], op'[x]>> \in Shorter
    <3>1. op'[contents[a + 1][1]] = form[2]
      BY <1>5, <1>6, <1>7
    <3>2. <<op[contents[a + 1][1]], form[2]>> \in Shorter
      BY <1>1, <1>3, <1>5 DEF Shorter
    <3>3. QED
      BY <2>4, <3>1, <3>2
  <2>6. Removable(contents, a + 1, 1, op, op', Len(Code))
    <3>1. op'[contents[a + 1][1]] = form[2]
      BY <1>5, <1>6, <1>7
    <3>2. Size(op'[contents[a + 1][1]]) # 4
      BY <1>4, <3>1 DEF Size, Op16
    <3>3. QED
      BY <1>5, <2>1, <2>4, <3>2 DEF Removable
  <2>7. QED
    BY <1>5, <1>8, <1>10, <2>1, <2>2, <2>3, <2>5, <2>6 DEF Deletion
<1>13. op[contents[a + 1][1]] \in {"beqz", "b"}
  BY <1>4, <1>5
<1>14. QED
  BY <1>1, <1>3, <1>5, <1>6, <1>11, <1>12, <1>13

\* ShortenSlot deletes the second half of what is in the delay slot.
LEMMA ShortenSlotDeletes ==
  ASSUME IInv, irel \in 1..Len(relocs), ShortenSlot
  PROVE  \E a \in Nat :
           /\ Deletion(a + 3, 1, relocs)
           /\ relocs[irel].offset = 2 * a /\ relocs[irel].type = "26"
           /\ a + 4 \in 1..Len(contents)
           /\ contents[a + 1][1] \in 1..Len(Code) /\ contents[a + 1][2] = 1
           /\ contents[a + 2] = <<contents[a + 1][1], 2>>
           /\ contents[a + 3][1] \in 1..Len(Code) /\ contents[a + 3][2] = 1
           /\ contents[a + 4] = <<contents[a + 3][1], 2>>
           /\ op[contents[a + 1][1]] = "jal"
           /\ op[contents[a + 3][1]] \in {"nop32", "move32"}
           /\ op'[contents[a + 1][1]] = "jals"
           /\ op'[contents[a + 3][1]] \in {"nop", "move16"}
           /\ \A x \in 1..Len(Code) : \/ op'[x] = op[x]
                                      \/ x = contents[a + 1][1] \/ x = contents[a + 3][1]
<1>1. PICK a : a \in Nat /\ relocs[irel].offset = 2 * a /\ Cut(contents, relocs[irel].insn, a)
  BY RelocAt
<1>2. /\ OpAt(2 * a) = "jal" /\ OpAt(2 * a + 4) \in {"nop32", "move32"}
      /\ relocs[irel].type = "26"
  BY <1>1 DEF ShortenSlot, CanShortenSlot
<1>3. /\ contents[a + 1][1] \in 1..Len(Code)
      /\ contents[a + 1][2] = 1 /\ contents[a + 2] = <<contents[a + 1][1], 2>>
      /\ OpAt(2 * a) = op[contents[a + 1][1]] /\ InsnAt(2 * a) = contents[a + 1][1]
  <2>1. OpAt(2 * a) \in Op32
    BY <1>2 DEF Op32
  <2>2. PICK x \in Int : x = 2 * a
    BY <1>1
  <2>3. OpAt(x) \in Op32
    BY <2>1, <2>2
  <2>4. QED
    BY <1>1, <2>2, <2>3, LongAt
<1>4. /\ a + 4 \in 1..Len(contents) /\ contents[a + 3][1] \in 1..Len(Code)
      /\ contents[a + 3][2] = 1 /\ contents[a + 4] = <<contents[a + 3][1], 2>>
      /\ contents[a + 4][2] = 2 /\ contents[a + 4][1] = contents[a + 3][1]
      /\ OpAt(2 * a + 4) = op[contents[a + 3][1]] /\ InsnAt(2 * a + 4) = contents[a + 3][1]
  <2>1. PICK b \in Nat : b = a + 2
    BY <1>1
  <2>2. PICK x \in Int : x = 2 * a + 4
    BY <1>1
  <2>3. OpAt(x) \in Op32 /\ x = 2 * b /\ b + 1 = a + 3 /\ b + 2 = a + 4
    BY <1>1, <1>2, <2>1, <2>2 DEF Op32
  <2>4. /\ b + 2 \in 1..Len(contents) /\ contents[b + 1][1] \in 1..Len(Code)
        /\ contents[b + 1][2] = 1 /\ contents[b + 2] = <<contents[b + 1][1], 2>>
        /\ contents[b + 2][2] = 2 /\ contents[b + 2][1] = contents[b + 1][1]
        /\ OpAt(x) = op[contents[b + 1][1]] /\ InsnAt(x) = contents[b + 1][1]
    BY <2>3, LongAt
  <2>5. QED
    BY <2>2, <2>3, <2>4
<1>5. op' = [op EXCEPT ![contents[a + 1][1]] = "jals",
                       ![contents[a + 3][1]] = IF @ = "nop32" THEN "nop" ELSE "move16"]
  BY <1>1, <1>3, <1>4 DEF ShortenSlot
<1>6. op[contents[a + 1][1]] = "jal" /\ op[contents[a + 3][1]] \in {"nop32", "move32"}
  BY <1>2, <1>3, <1>4
<1>7. op \in [1..Len(Code) -> Op16 \cup Op32]
  BY StateTypes
<1>8. /\ op'[contents[a + 1][1]] = "jals"
      /\ op'[contents[a + 3][1]] = IF op[contents[a + 3][1]] = "nop32" THEN "nop" ELSE "move16"
      /\ \A x \in 1..Len(Code) : \/ op'[x] = op[x]
                                 \/ x = contents[a + 1][1] \/ x = contents[a + 3][1]
  BY <1>3, <1>4, <1>5, <1>6, <1>7
<1>9. Deletion(a + 3, 1, relocs)
  <2>1. a + 3 \in Nat /\ a + 3 + 1 <= Len(contents) /\ 1 \in {1, 2} /\ a + 3 + 1 = a + 4
    <3>1. Len(contents) \in Nat
      BY CodeType, HalfwordFacts DEF IInv, Shape
    <3>2. QED
      BY <1>1, <1>4, <3>1
  <2>2. DeleteBytes(2 * (a + 3), 2 * 1, relocs)
    <3>1. 2 * (a + 3) = 2 * a + 6 /\ 2 * 1 = 2
      BY <1>1
    <3>2. QED
      BY <1>1, <3>1 DEF ShortenSlot
  <2>3. op' \in [1..Len(Code) -> Op16 \cup Op32]
    BY <1>5, <1>7 DEF Op16, Op32
  <2>4. \A x \in 1..Len(Code) : op'[x] = op[x] \/ <<op[x], op'[x]>> \in Shorter
    BY <1>6, <1>8 DEF Shorter
  <2>5. \A x \in 1..Len(Code) : x # contents[a + 3][1] => Size(op'[x]) = Size(op[x])
    <3>1. Size("jal") = Size("jals")
      BY DEF Size, Op16
    <3>2. QED
      BY <1>6, <1>8, <3>1
  <2>6. Size(op'[contents[a + 3][1]]) # 4
    BY <1>8 DEF Size, Op16
  <2>7. Removable(contents, a + 3, 1, op, op', Len(Code))
    BY <1>4, <2>1, <2>5, <2>6 DEF Removable
  <2>8. QED
    BY <1>4, <2>1, <2>2, <2>3, <2>4, <2>7, StateTypes DEF Deletion
<1>10. QED
  BY <1>1, <1>2, <1>3, <1>4, <1>6, <1>8, <1>9

-----------------------------------------------------------------------------
(***************************************************************************)
(* The section still decodes, and relocations and labels follow the code.  *)
(***************************************************************************)
\* The section as assembled has the invariant.
LEMMA InitInv ==
  ASSUME Init
  PROVE  IInv
<1> DEFINE L == Len(Code)
<1>1. Code \in Seq(Insn) /\ L \in Nat /\ section.label \in [Labels -> 1..(L + 1)]
  BY SectionsAssumption DEF Init, IsSection, Code
<1>2. /\ section \in Sections
      /\ op = [n \in 1..L |-> Code[n].op]
      /\ contents = Halves(Code) /\ relocs = RelocsOf(Code)
      /\ value = [l \in Labels |-> 2 * Begin(Code, section.label[l])]
      /\ irel = 1 /\ again = FALSE /\ pc = "walk"
  BY DEF Init, Code
<1>3. /\ relocs \in Seq(Rec)
      /\ \A k \in 1..Len(relocs) : relocs[k].insn \in 1..L
                                   /\ relocs[k].offset = 2 * Begin(Code, relocs[k].insn)
  BY <1>1, <1>2, RelocsFacts
<1>4. \A n \in 1..(L + 1) : Begin(Code, n) \in Nat /\ Cut(contents, n, Begin(Code, n))
  <2>1. ASSUME NEW n \in 1..(L + 1)
        PROVE  Begin(Code, n) \in Nat /\ Cut(Halves(Code), n, Begin(Code, n))
    <3>1. n \in Nat \ {0}
      BY <1>1
    <3>2. QED
      BY <1>1, <3>1, BeginNext, HalvesCut
  <2>2. QED
    BY <1>2, <2>1
<1>5. contents \in Halfwords(L)
  BY <1>1, <1>2, HalvesType
<1> HIDE DEF L
<1>6. Shape
  <2>1. \A n \in 1..L : Code[n].op \in Op16 \cup Op32
    <3>1. \A n \in 1..L : Code[n] \in Insn
      BY <1>1 DEF L
    <3>2. QED
      BY <3>1 DEF Insn
  <2>2. op \in [1..L -> Op16 \cup Op32]
    BY <1>2, <2>1
  <2>3. \A l \in Labels : section.label[l] \in 1..(L + 1)
    BY <1>1
  <2>4. value \in [Labels -> Nat]
    BY <1>2, <1>4, <2>3
  <2>5. irel \in 1..(Len(relocs) + 1)
    BY <1>2, <1>3
  <2>6. QED
    BY <1>2, <1>3, <1>5, <2>2, <2>4, <2>5 DEF Shape, L
<1>7. Decodes
  BY <1>1, <1>2, HalvesOrdered, HalvesWhole DEF Decodes, L
<1>8. Named
  BY <1>2 DEF Named
<1>9. Placed
  <2>1. \A n \in 1..(L + 1) : Begin(Code, n) \in 0..Len(contents)
    BY <1>4 DEF Cut
  <2>2. \A k \in 1..Len(relocs) : relocs[k].insn \in 1..(L + 1)
    BY <1>1, <1>3 DEF L
  <2>3. \A l \in Labels : /\ section.label[l] \in 1..(L + 1)
                          /\ value[l] = 2 * Begin(Code, section.label[l])
    BY <1>1, <1>2
  <2>4. QED
    BY <1>3, <1>4, <2>1, <2>2, <2>3 DEF Placed
<1>10. Opcodes
  BY <1>2 DEF Opcodes, L
<1>11. OnlyDropped
  <2>1. \A n \in 1..L : \E k \in 1..Len(contents) : contents[k][1] = n
    BY <1>1, <1>2, HalvesWhole DEF L
  <2>2. DOMAIN contents = 1..Len(contents)
    BY <1>5 DEF Halfwords
  <2>3. QED
    BY <2>1, <2>2 DEF OnlyDropped, Present, L
<1>12. QED
  BY <1>6, <1>7, <1>8, <1>9, <1>10, <1>11 DEF IInv

\* What is neither judged nor deleted stays.
LEMMA SameInv ==
  ASSUME IInv, UNCHANGED <<section, op, contents, relocs, value>>,
         irel' \in 1..(Len(relocs) + 1), pc' \in {"walk", "done"}, again' \in BOOLEAN
  PROVE  IInv'
BY DEF IInv, Shape, Decodes, Named, Placed, Opcodes, OnlyDropped, Present, Code

\* The invariant holds in every state.
LEMMA Invariance == Spec => []IInv
<1>1. Init => IInv
  BY InitInv
<1>2. IInv /\ [Next]_vars => IInv'
  <2>1. SUFFICES ASSUME IInv, [Next]_vars
                 PROVE  IInv'
    OBVIOUS
  <2>2. Len(relocs) \in Nat /\ irel \in 1..(Len(relocs) + 1) /\ pc \in {"walk", "done"}
        /\ again \in BOOLEAN
    BY <2>1 DEF IInv, Shape
  <2>3. ASSUME Relax
        PROVE  IInv'
    <3>1. irel \in 1..Len(relocs)
      BY <2>2, <2>3 DEF Relax
    <3>2. CASE DropLui
      BY <2>1, <3>1, <3>2, DropLuiDeletes, DeletionInv
    <3>3. CASE CompactBranch
      BY <2>1, <3>1, <3>3, CompactBranchDeletes, DeletionInv
    <3>4. CASE ShortenBranch
      BY <2>1, <3>1, <3>4, ShortenBranchDeletes, DeletionInv
    <3>5. CASE ShortenSlot
      BY <2>1, <3>1, <3>5, ShortenSlotDeletes, DeletionInv
    <3>6. CASE Keep
      <4>1. irel' \in 1..(Len(relocs) + 1) /\ pc' \in {"walk", "done"} /\ again' \in BOOLEAN
        BY <2>2, <3>1, <3>6 DEF Keep
      <4>2. UNCHANGED <<section, op, contents, relocs, value>>
        BY <3>6 DEF Keep
      <4>3. QED
        BY <2>1, <4>1, <4>2, SameInv
    <3>7. QED
      BY <2>3, <3>2, <3>3, <3>4, <3>5, <3>6 DEF Relax
  <2>4. CASE EndPass
    <3>1. irel' \in {irel, 1} /\ pc' \in {pc, "done"} /\ again' = FALSE
      BY <2>4 DEF EndPass
    <3>2. UNCHANGED <<section, op, contents, relocs, value>>
      BY <2>4 DEF EndPass
    <3>3. irel' \in 1..(Len(relocs) + 1)
      BY <2>2, <3>1
    <3>4. QED
      BY <2>1, <2>2, <3>1, <3>2, <3>3, SameInv
  <2>5. CASE UNCHANGED vars
    BY <2>1, <2>2, <2>5, SameInv DEF vars
  <2>6. QED
    BY <2>1, <2>3, <2>4, <2>5 DEF Next
<1>3. QED
  BY <1>1, <1>2, PTL DEF Spec

\* The invariant says that the section decodes,
LEMMA InvTypeOK ==
  ASSUME IInv
  PROVE  TypeOK
<1>1. Len(Code) \in Nat /\ contents \in Halfwords(Len(Code))
      /\ DOMAIN contents = 1..Len(contents) /\ Len(contents) \in Nat
  BY CodeType, HalfwordFacts DEF IInv, Shape
<1>2. \A k \in DOMAIN relocs : relocs[k].type \in Types /\ relocs[k].sym \in Syms
  <2>1. \A k \in DOMAIN relocs : relocs[k] \in Rec
    BY DEF IInv, Shape
  <2>2. QED
    BY <2>1 DEF Rec
<1>3. ASSUME NEW k \in 1..Len(contents)
      PROVE  LET n == contents[k][1] h == contents[k][2]
                 nextIs2 == k < Len(contents) /\ contents[k + 1] = <<n, 2>>
             IN IF h = 1
                THEN /\ nextIs2 <=> Size(op[n]) = 4
                     /\ k > 1 => contents[k - 1][1] < n
                ELSE k > 1 /\ contents[k - 1] = <<n, 1>>
  <2>1. contents[k][2] \in {1, 2}
    BY <1>1, HalfwordFacts
  <2>2. CASE contents[k][2] = 1
    <3>1. (k < Len(contents) /\ contents[k + 1] = <<contents[k][1], 2>>)
            <=> Size(op[contents[k][1]]) = 4
      BY <2>2 DEF IInv, Decodes, Whole
    <3>2. k > 1 => contents[k - 1][1] < contents[k][1]
      <4>1. SUFFICES ASSUME k > 1 PROVE contents[k - 1][1] < contents[k][1]
        OBVIOUS
      <4>2. PICK j \in 1..Len(contents) : j = k - 1 /\ j < k
        BY <1>1, <4>1
      <4>3. \/ contents[j][1] < contents[k][1]
            \/ contents[k][2] = 2
        BY <4>2 DEF IInv, Decodes, Ordered
      <4>4. QED
        BY <2>2, <4>2, <4>3
    <3>3. QED
      BY <2>2, <3>1, <3>2
  <2>3. CASE contents[k][2] = 2
    <3>1. k > 1 /\ contents[k - 1] = <<contents[k][1], 1>>
      BY <2>3 DEF IInv, Decodes, Whole
    <3>2. QED
      BY <2>3, <3>1
  <2>4. QED
    BY <2>1, <2>2, <2>3
<1>4. /\ pc \in {"walk", "done"} /\ again \in BOOLEAN
      /\ irel \in 1..(Len(relocs) + 1)
      /\ op \in [1..Len(section.code) -> Op16 \cup Op32]
  BY DEF IInv, Shape, Code
<1>5. QED
  BY <1>1, <1>2, <1>3, <1>4 DEF TypeOK

\* and that offsets are those of the instructions.
LEMMA InvLabelsFollow ==
  ASSUME IInv
  PROVE  LabelsFollow
<1>1. /\ Len(Code) \in Nat /\ contents \in Halfwords(Len(Code))
      /\ section.label \in [Labels -> 1..(Len(Code) + 1)]
  BY CodeType DEF IInv, Shape
<1>2. ASSUME NEW k \in 1..Len(relocs)
      PROVE  relocs[k].offset = OffsetIn(contents, relocs[k].insn)
  <2>1. PICK p : relocs[k].offset = 2 * p /\ Cut(contents, relocs[k].insn, p)
    BY RelocAt
  <2>2. PICK i \in Nat : i = relocs[k].insn
    <3>1. relocs[k] \in Rec
      BY DEF IInv, Shape
    <3>2. QED
      BY <3>1 DEF Rec
  <2>3. OffsetIn(contents, i) = 2 * p
    BY <1>1, <2>1, <2>2, CutOffset
  <2>4. QED
    BY <2>1, <2>2, <2>3
<1>3. ASSUME NEW l \in Labels
      PROVE  value[l] = OffsetIn(contents, section.label[l])
  <2>1. PICK p : value[l] = 2 * p /\ Cut(contents, section.label[l], p)
    BY DEF IInv, Placed
  <2>2. PICK i \in Nat : i = section.label[l]
    BY <1>1
  <2>3. OffsetIn(contents, i) = 2 * p
    BY <1>1, <2>1, <2>2, CutOffset
  <2>4. QED
    BY <2>1, <2>2, <2>3
<1>4. DOMAIN relocs = 1..Len(relocs)
  BY DEF IInv, Shape
<1>5. QED
  BY <1>2, <1>3, <1>4 DEF LabelsFollow

\* After every deletion the section still decodes: what is left are whole
\* instructions of the size of their opcodes, in their old order.
THEOREM TypeCorrect == Spec => []TypeOK
<1>1. IInv => TypeOK
  BY InvTypeOK
<1>2. QED
  BY <1>1, Invariance, PTL

\* After every deletion every relocation is at its instruction and every label
\* where the instruction that it marked is, or the next one left.
THEOREM RelocationsFollow == Spec => []LabelsFollow
<1>1. IInv => LabelsFollow
  BY InvLabelsFollow
<1>2. QED
  BY <1>1, Invariance, PTL

-----------------------------------------------------------------------------
(***************************************************************************)
(* What else holds, for sections as they are assembled: what a branch or   *)
(* an address was shortened for stays true.                                *)
(***************************************************************************)
\* What the type of a relocation may be replaced by.
Retyped ==
  {<<"HI16", "NONE">>, <<"LO16", "HI0_LO16">>, <<"LO16", "PC23">>,
   <<"PC16", "PC10">>, <<"PC16", "PC7">>}

\* The type that the relocation of an instruction was assembled with.
Origin(k) == Code[relocs[k].insn].type

\* A relocation has the type that it was assembled with, or that of a form of it.
Retypes ==
  \A k \in 1..Len(relocs) :
    relocs[k].type = Origin(k) \/ <<Origin(k), relocs[k].type>> \in Retyped

\* A LUI goes together with the type of its relocation.
HiPresent ==
  \A k \in 1..Len(relocs) : relocs[k].type = "HI16" => Present(relocs[k].insn)

\* What the distance of a relocation that was shortened is.
AddressFits(r) ==
  /\ r.type = "HI0_LO16" => FitsSigned(SymVal(r.sym), Reach["HI0_LO16"])
  /\ r.type = "PC23" =>
       /\ op[r.insn] = "addiupc" /\ SymVal(r.sym) % 4 = 0
       /\ FitsSigned(SymVal(r.sym) - ((Start + r.offset) \div 4) * 4, Reach["PC23"])

\* What the distance of a branch that was shortened is.
BranchFits(r) ==
  r.type \in {"PC10", "PC7"} => FitsSigned(PcRel(r) - 2, Reach[r.type])

\* A LO16 that kept its type has its LUI.
HiKept ==
  \A k \in 1..Len(relocs) :
    relocs[k].type = "LO16" /\ HiOf(k) # 0 => Present(relocs[HiOf(k)].insn)

\* Every form that was chosen is right.
Fits == \A k \in 1..Len(relocs) : AddressFits(relocs[k]) /\ BranchFits(relocs[k])

\* What is shown of the forms that relaxation chose.
FormsHold == Retypes /\ HiPresent /\ Fits

\* A relaxation: what it deletes, and the types that it replaces.
Relaxed(a, n, rels) ==
  /\ Deletion(a, n, rels)
  /\ \A k \in 1..Len(relocs) : \/ rels[k].type = relocs[k].type
                               \/ <<relocs[k].type, rels[k].type>> \in Retyped
  /\ contents[a + 1][2] = 1 =>
       \/ op[contents[a + 1][1]] = "nop"
       \/ contents[a + 1][1] = relocs[irel].insn /\ rels[irel].type = "NONE"

\* The instruction of a relocation and what it was assembled with.
LEMMA OriginFacts ==
  ASSUME IInv, NEW k \in 1..Len(relocs)
  PROVE  /\ relocs[k] \in Rec /\ relocs[k].insn \in 1..Len(Code)
         /\ Code[relocs[k].insn] \in Insn
         /\ relocs[k].sym = Code[relocs[k].insn].sym
         /\ \A j \in 1..Len(relocs) : relocs[j].insn = relocs[k].insn => j = k
<1>1. Code \in Seq(Insn) /\ Len(relocs) = Len(RelocsOf(Code))
  BY CodeType DEF IInv, Shape
<1>2. relocs[k] \in Rec
  BY DEF IInv, Shape
<1>3. \A j \in 1..Len(relocs) : /\ relocs[j].insn = RelocsOf(Code)[j].insn
                                /\ relocs[j].sym = RelocsOf(Code)[j].sym
  BY DEF IInv, Named
<1>4. \A j \in 1..Len(relocs) :
        /\ RelocsOf(Code)[j].insn \in 1..Len(Code)
        /\ RelocsOf(Code)[j].sym = Code[RelocsOf(Code)[j].insn].sym
        /\ RelocsOf(Code)[j].insn = RelocsOf(Code)[k].insn => j = k
  BY <1>1, RelocsFacts
<1>5. \A i \in 1..Len(Code) : Code[i] \in Insn
  BY <1>1
<1>6. QED
  BY <1>2, <1>3, <1>4, <1>5

\* What is at the offset of a relocation is its instruction, if it is left.
LEMMA RelocInsn ==
  ASSUME IInv, NEW k \in 1..Len(relocs), NEW a \in Nat, relocs[k].offset = 2 * a,
         a + 1 \in 1..Len(contents), Present(relocs[k].insn)
  PROVE  contents[a + 1][1] = relocs[k].insn
<1>1. /\ Len(contents) \in Nat /\ DOMAIN contents = 1..Len(contents)
      /\ \A j \in 1..Len(contents) : contents[j][1] \in Nat
  <2>1. Len(Code) \in Nat /\ contents \in Halfwords(Len(Code))
    BY CodeType DEF IInv, Shape
  <2>2. /\ Len(contents) \in Nat /\ DOMAIN contents = 1..Len(contents)
        /\ \A j \in 1..Len(contents) : contents[j][1] \in 1..Len(Code)
    BY <2>1, HalfwordFacts
  <2>3. QED
    BY <2>1, <2>2
<1>2. PICK i : i = relocs[k].insn
  OBVIOUS
<1>3. i \in Nat
  BY <1>2, OriginFacts DEF Rec
<1>4. PICK b \in Nat : relocs[k].offset = 2 * b /\ Cut(contents, i, b)
  BY <1>2, RelocAt
<1>5. a = b
  BY <1>4
<1>6. PICK j \in 1..Len(contents) : contents[j][1] = i
  BY <1>1, <1>2 DEF Present
<1>7. j > a /\ i <= contents[a + 1][1]
  BY <1>1, <1>3, <1>4, <1>5, <1>6 DEF Cut
<1>8. CASE j = a + 1
  BY <1>2, <1>6, <1>8
<1>9. CASE j # a + 1
  <2>1. a + 1 < j
    BY <1>1, <1>6, <1>7, <1>9
  <2>2. contents[a + 1][1] <= contents[j][1]
    BY <1>1, <1>6, <2>1 DEF IInv, Decodes, Ordered
  <2>3. QED
    BY <1>1, <1>2, <1>3, <1>6, <1>7, <2>2
<1>10. QED
  BY <1>8, <1>9

\* No type is replaced twice.
LEMMA RetypesStays ==
  ASSUME IInv, FormsHold, NEW a, NEW n, NEW rels, Relaxed(a, n, rels)
  PROVE  Retypes'
<1>1. Deletion(a, n, rels)
  BY DEF Relaxed
<1>2. /\ Len(relocs') = Len(relocs) /\ section' = section
      /\ \A k \in 1..Len(relocs) : relocs'[k].insn = relocs[k].insn
  BY <1>1, DeletedState
<1>3. ASSUME NEW k \in 1..Len(relocs)
      PROVE  relocs'[k].type = Origin(k)' \/ <<Origin(k)', relocs'[k].type>> \in Retyped
  <2>1. relocs'[k].insn = relocs[k].insn /\ relocs'[k].type = rels[k].type
    BY <1>1, <1>2, DeletedTypes
  <2>2. Origin(k)' = Origin(k)
    BY <1>2, <2>1 DEF Origin, Code
  <2>3. relocs[k].type = Origin(k) \/ <<Origin(k), relocs[k].type>> \in Retyped
    BY DEF FormsHold, Retypes
  <2>4. rels[k].type = relocs[k].type \/ <<relocs[k].type, rels[k].type>> \in Retyped
    BY DEF Relaxed
  <2>5. <<Origin(k), relocs[k].type>> \in Retyped =>
          <<relocs[k].type, rels[k].type>> \notin Retyped
    BY DEF Retyped
  <2>6. QED
    BY <2>1, <2>2, <2>3, <2>4, <2>5
<1>4. QED
  BY <1>2, <1>3 DEF Retypes

\* The instruction of a HI16 is a LUI, whatever has been relaxed.
LEMMA HiIsLui ==
  ASSUME IInv, Assembled(section), NEW k \in 1..Len(relocs), Origin(k) = "HI16"
  PROVE  op[relocs[k].insn] = "lui"
<1>1. PICK i \in 1..Len(Code) : i = relocs[k].insn
  BY OriginFacts
<1>2. Code[i].op = "lui"
  BY <1>1 DEF Origin, Assembled, Code
<1>3. op[i] = Code[i].op \/ <<Code[i].op, op[i]>> \in Shorter
  BY DEF IInv, Opcodes
<1>4. QED
  BY <1>1, <1>2, <1>3 DEF Shorter

\* No instruction with a HI16 is deleted but the one whose type becomes NONE.
LEMMA HiDropped ==
  ASSUME IInv, Assembled(section), irel \in 1..Len(relocs),
         NEW a, NEW n, NEW rels, Relaxed(a, n, rels),
         NEW k \in 1..Len(relocs), Origin(k) = "HI16", Present(relocs[k].insn)
  PROVE  Present(relocs[k].insn)' \/ (k = irel /\ rels[k].type = "NONE")
<1>1. Deletion(a, n, rels)
  BY DEF Relaxed
<1>2. PICK x : x = relocs[k].insn
  OBVIOUS
<1>3. Present(x) => Present(x)' \/ (contents[a + 1][2] = 1 /\ x = contents[a + 1][1])
  BY <1>1, DeletedPresent
<1>4. op[x] = "lui"
  BY <1>2, HiIsLui
<1>5. x = relocs[irel].insn => k = irel
  BY <1>2, OriginFacts
<1>6. relocs'[k].insn = x
  BY <1>1, <1>2, DeletedState
<1>7. ASSUME contents[a + 1][2] = 1, x = contents[a + 1][1]
      PROVE  k = irel /\ rels[k].type = "NONE"
  BY <1>4, <1>5, <1>7 DEF Relaxed
<1>8. Present(relocs[k].insn)' <=> Present(x)'
  BY <1>6 DEF Present
<1>9. QED
  BY <1>2, <1>3, <1>7, <1>8

\* A relaxation that deletes a LUI replaces the type of its relocation.
LEMMA HiPresentStays ==
  ASSUME IInv, FormsHold, Assembled(section), irel \in 1..Len(relocs),
         NEW a, NEW n, NEW rels, Relaxed(a, n, rels)
  PROVE  HiPresent'
<1>1. Deletion(a, n, rels)
  BY DEF Relaxed
<1>2. /\ Len(relocs') = Len(relocs)
      /\ \A k \in 1..Len(relocs) : relocs'[k].insn = relocs[k].insn
  BY <1>1, DeletedState
<1>3. ASSUME NEW k \in 1..Len(relocs), relocs'[k].type = "HI16"
      PROVE  Present(relocs[k].insn)'
  <2>1. relocs'[k].type = rels[k].type
    BY <1>1, DeletedTypes
  <2>2. relocs[k].type = "HI16"
    BY <1>3, <2>1 DEF Relaxed, Retyped
  <2>3. Origin(k) = "HI16" /\ Present(relocs[k].insn)
    BY <2>2 DEF FormsHold, Retypes, Retyped, HiPresent
  <2>4. QED
    BY <1>3, <2>1, <2>3, HiDropped
<1>4. QED
  BY <1>2, <1>3 DEF HiPresent

\* Two places that a deletion moves: nearer to each other, or at worst just past.
LEMMA DistanceStays ==
  ASSUME NEW v \in Nat, NEW o \in Nat, NEW a \in Nat, NEW n \in {1, 2},
         v > a => v >= a + n, o > a => o >= a + n,
         NEW reach \in Nat \ {0, 1}, FitsSigned(2 * v - 2 * o - 2, reach)
  PROVE  FitsSigned(Shifted(2 * v, 2 * a, 2 * n) - Shifted(2 * o, 2 * a, 2 * n) - 2, reach)
<1>1. -reach <= 2 * v - 2 * o - 2 /\ 2 * v - 2 * o - 2 <= reach - 1 /\ reach >= 2
  BY DEF FitsSigned
<1>2. Shifted(2 * v, 2 * a, 2 * n) = (IF v > a THEN 2 * v - 2 * n ELSE 2 * v)
      /\ Shifted(2 * o, 2 * a, 2 * n) = (IF o > a THEN 2 * o - 2 * n ELSE 2 * o)
  BY DEF Shifted
<1>3. n \in Nat
  OBVIOUS
<1>4. CASE v > a
  <2>1. CASE o > a
    BY <1>1, <1>2, <1>3, <1>4, <2>1 DEF FitsSigned
  <2>2. CASE ~(o > a)
    BY <1>1, <1>2, <1>3, <1>4, <2>2 DEF FitsSigned
  <2>3. QED
    BY <2>1, <2>2
<1>5. CASE ~(v > a)
  <2>1. CASE o > a
    BY <1>1, <1>2, <1>3, <1>5, <2>1 DEF FitsSigned
  <2>2. CASE ~(o > a)
    BY <1>1, <1>2, <1>3, <1>5, <2>2 DEF FitsSigned
  <2>3. QED
    BY <2>1, <2>2
<1>6. QED
  BY <1>4, <1>5

\* A deletion never moves a symbol or an instruction up.
LEMMA MovesDown ==
  ASSUME IInv, NEW a, NEW n, NEW rels, Deletion(a, n, rels)
  PROVE  /\ \A s \in Syms :
              /\ SymVal(s) \in Nat /\ SymVal(s)' \in Nat /\ SymVal(s)' <= SymVal(s)
              /\ s \notin Labels =>
                   SymVal(s) = Address[s] /\ SymVal(s)' = Address[s] /\ Address[s] \in Nat
         /\ \A k \in 1..Len(relocs) : /\ relocs[k].offset \in Nat /\ relocs'[k].offset \in Nat
                                      /\ relocs'[k].offset <= relocs[k].offset
<1>1. a \in Nat /\ n \in {1, 2} /\ Start \in Nat /\ Address \in [Data -> Nat]
  BY AddressAssumption DEF Deletion
<1>2. \A x \in Nat : /\ Shifted(x, 2 * a, 2 * n) <= x
                     /\ Shifted(x, 2 * a, 2 * n) \in Int
  BY <1>1 DEF Shifted
<1>3. IInv => value \in [Labels -> Nat] /\ relocs \in Seq(Rec)
  BY DEF IInv, Shape
<1>4. ASSUME NEW l \in Labels
      PROVE  value[l] \in Nat /\ value'[l] \in Nat /\ value'[l] <= value[l]
  <2>1. value'[l] = Shifted(value[l], 2 * a, 2 * n) /\ value[l] \in Nat
    BY <1>3, DeletedState
  <2>2. \E q \in Nat : Shifted(value[l], 2 * a, 2 * n) = 2 * q
    <3>1. /\ Len(Code) \in Nat /\ contents \in Halfwords(Len(Code))
          /\ section.label \in [Labels -> 1..(Len(Code) + 1)]
      BY CodeType DEF IInv, Shape
    <3>2. PICK p : p \in Nat /\ value[l] = 2 * p /\ Cut(contents, section.label[l], p)
      BY DEF IInv, Placed
    <3>3. PICK i \in Nat : i = section.label[l]
      BY <3>1
    <3>4. \E q \in Nat : Shifted(2 * p, 2 * a, 2 * n) = 2 * q /\ Cut(contents', i, q)
      BY <3>2, <3>3, DeletedPlaces
    <3>5. QED
      BY <3>2, <3>4
  <2>3. QED
    BY <1>2, <2>1, <2>2
<1>5. ASSUME NEW k \in 1..Len(relocs)
      PROVE  /\ relocs[k].offset \in Nat /\ relocs'[k].offset \in Nat
             /\ relocs'[k].offset <= relocs[k].offset
  <2>1. relocs'[k].offset = Shifted(relocs[k].offset, 2 * a, 2 * n)
    BY DeletedState
  <2>2. relocs[k] \in Rec
    BY OriginFacts
  <2>3. PICK p \in Nat : relocs[k].offset = 2 * p /\ Cut(contents, relocs[k].insn, p)
    BY RelocAt
  <2>4. PICK i \in Nat : i = relocs[k].insn
    BY <2>2 DEF Rec
  <2>5. \E q \in Nat : Shifted(2 * p, 2 * a, 2 * n) = 2 * q /\ Cut(contents', i, q)
    BY <2>3, <2>4, DeletedPlaces
  <2>6. QED
    BY <1>2, <2>1, <2>3, <2>5
<1>6. \A s \in Syms : s \in Labels \/ (s \in Data /\ s \notin Labels)
  BY DEF Syms
<1>7. QED
  BY <1>1, <1>4, <1>5, <1>6 DEF SymVal

\* What is before the section comes nearer.
LEMMA BehindStays ==
  ASSUME NEW A \in Nat, A <= Start, NEW z \in Nat, NEW y \in Nat, y <= z,
         NEW reach \in Nat \ {0, 1}, FitsSigned(A - Start - z - 2, reach)
  PROVE  FitsSigned(A - Start - y - 2, reach)
<1>1. Start \in Nat
  BY AddressAssumption
<1>2. -reach <= A - Start - z - 2 /\ A - Start - y - 2 <= -2 /\ reach >= 2
  BY <1>1 DEF FitsSigned
<1>3. QED
  BY <1>1, <1>2 DEF FitsSigned

\* A branch within reach stays within reach.
LEMMA ReachStays ==
  ASSUME IInv, NEW a, NEW n, NEW rels, Deletion(a, n, rels), NEW k \in 1..Len(relocs),
         relocs[k].sym \in Labels \/ Address[relocs[k].sym] <= Start,
         NEW t \in {"PC10", "PC7"}, FitsSigned(PcRel(relocs[k]) - 2, Reach[t])
  PROVE  FitsSigned(PcRel(relocs[k])' - 2, Reach[t])
<1>1. PICK reach \in Nat \ {0, 1} : reach = Reach[t]
  BY ReachAssumption
<1>2. PICK s \in Syms : s = relocs[k].sym
  BY OriginFacts DEF Rec
<1>3. /\ relocs'[k].sym = s /\ relocs'[k].offset = Shifted(relocs[k].offset, 2 * a, 2 * n)
      /\ \A l \in Labels : value'[l] = Shifted(value[l], 2 * a, 2 * n)
  BY <1>2, DeletedState
<1>4. Start \in Nat /\ a \in Nat /\ n \in {1, 2}
  BY AddressAssumption DEF Deletion
<1>5. PICK o \in Nat : relocs[k].offset = 2 * o /\ Cut(contents, relocs[k].insn, o)
  BY RelocAt
<1>6. o > a => o >= a + n
  <2>1. PICK i \in Nat : i = relocs[k].insn
    BY OriginFacts DEF Rec
  <2>2. QED
    BY <1>5, <2>1, DeletedPlaces
<1>7. CASE s \in Labels
  <2>1. PICK v \in Nat : value[s] = 2 * v /\ (v > a => v >= a + n)
    <3>1. /\ Len(Code) \in Nat /\ contents \in Halfwords(Len(Code))
          /\ section.label \in [Labels -> 1..(Len(Code) + 1)]
      BY CodeType DEF IInv, Shape
    <3>2. PICK p : p \in Nat /\ value[s] = 2 * p /\ Cut(contents, section.label[s], p)
      <4>1. \A l \in Labels : \E p : p \in Nat /\ value[l] = 2 * p
                                   /\ Cut(contents, section.label[l], p)
        BY DEF IInv, Placed
      <4>2. QED
        BY <1>7, <4>1
    <3>3. PICK i \in Nat : i = section.label[s]
      BY <1>7, <3>1
    <3>4. p > a => p >= a + n
      BY <3>2, <3>3, DeletedPlaces
    <3>5. QED
      BY <3>2, <3>4
  <2>2. PcRel(relocs[k]) - 2 = 2 * v - 2 * o - 2
    BY <1>2, <1>4, <1>5, <1>7, <2>1 DEF PcRel, SymVal
  <2>3. FitsSigned(Shifted(2 * v, 2 * a, 2 * n) - Shifted(2 * o, 2 * a, 2 * n) - 2, reach)
    <3>1. FitsSigned(2 * v - 2 * o - 2, reach)
      BY <1>1, <2>2
    <3>2. QED
      BY <1>4, <1>6, <2>1, <3>1, DistanceStays
  <2>4. PcRel(relocs[k])' - 2 = Shifted(2 * v, 2 * a, 2 * n) - Shifted(2 * o, 2 * a, 2 * n) - 2
    <3>1. PICK X, Y : X = Shifted(2 * v, 2 * a, 2 * n) /\ Y = Shifted(2 * o, 2 * a, 2 * n)
      OBVIOUS
    <3>2. X \in Int /\ Y \in Int
      BY <1>4, <3>1 DEF Shifted
    <3>3. SymVal(relocs[k].sym)' = Start + X
      BY <1>3, <1>7, <2>1, <3>1 DEF SymVal
    <3>4. relocs'[k].offset = Y
      BY <1>3, <1>5, <3>1
    <3>5. PcRel(relocs[k])' = (Start + X) - Start - Y
      BY <3>3, <3>4 DEF PcRel
    <3>6. (Start + X) - Start - Y - 2 = X - Y - 2
      BY <1>4, <3>2
    <3>7. QED
      BY <3>1, <3>5, <3>6
  <2>5. QED
    BY <1>1, <2>3, <2>4
<1>8. CASE s \notin Labels
  <2>1. /\ SymVal(s) = Address[s] /\ SymVal(s)' = Address[s] /\ Address[s] \in Nat
        /\ relocs[k].offset \in Nat /\ relocs'[k].offset \in Nat
        /\ relocs'[k].offset <= relocs[k].offset
    BY <1>8, MovesDown
  <2>2. Address[s] <= Start
    BY <1>2, <1>8
  <2>3. PcRel(relocs[k]) = Address[s] - Start - relocs[k].offset
        /\ PcRel(relocs[k])' = Address[s] - Start - relocs'[k].offset
    BY <1>2, <1>3, <2>1 DEF PcRel
  <2>4. PICK A, y, z \in Nat : A = Address[s] /\ y = relocs'[k].offset /\ z = relocs[k].offset
    BY <2>1
  <2>5. FitsSigned(A - Start - z - 2, reach)
    BY <1>1, <2>3, <2>4
  <2>6. FitsSigned(A - Start - y - 2, reach)
    BY <2>1, <2>2, <2>4, <2>5, BehindStays
  <2>7. QED
    BY <1>1, <2>3, <2>4, <2>6
<1>9. QED
  BY <1>7, <1>8

\* An address within reach stays within reach.
LEMMA NearStays ==
  ASSUME IInv, NEW a, NEW n, NEW rels, Deletion(a, n, rels), NEW s \in Syms,
         NEW reach \in Nat, FitsSigned(SymVal(s), reach)
  PROVE  FitsSigned(SymVal(s)', reach)
<1>1. SymVal(s) \in Nat /\ SymVal(s)' \in Nat /\ SymVal(s)' <= SymVal(s)
  BY MovesDown
<1>2. QED
  BY <1>1 DEF FitsSigned

\* What ADDIUPC at an offset counts from.
PcBase(x) == ((Start + x) \div 4) * 4

\* What lies before the code stays within reach of ADDIUPC.
LEMMA PcBaseFacts ==
  ASSUME NEW A \in Nat, A % 4 = 0, A <= Start, NEW x \in Nat, NEW y \in Nat, y <= x,
         NEW reach \in Nat, FitsSigned(A - PcBase(x), reach), reach # 0
  PROVE  FitsSigned(A - PcBase(y), reach)
<1>1. Start \in Nat
  BY AddressAssumption
<1>2. PICK q \in Nat : A = 4 * q
  BY Z3
<1>3. PICK u \in Nat, v \in Nat : u = (Start + x) \div 4 /\ v = (Start + y) \div 4
  BY <1>1
<1>4. q <= v /\ v <= u
  BY <1>1, <1>2, <1>3
<1>5. QED
  BY <1>2, <1>3, <1>4 DEF PcBase, FitsSigned

\* The distance that is judged is the distance once the LUI is gone.
LEMMA LoDistanceFacts ==
  ASSUME NEW A \in Nat, A % 4 = 0, NEW x \in Nat, NEW y \in Nat, x = y + 4
  PROVE  ((A - Start - x + 3) \div 4) * 4 + 4 = A - PcBase(y)
<1>1. Start \in Nat
  BY AddressAssumption
<1>2. PICK q \in Nat : A = 4 * q
  BY Z3
<1>3. PICK u \in Nat : u = (Start + y) \div 4
  BY <1>1
<1>4. (A - Start - x + 3) \div 4 = q - u - 1
  BY <1>1, <1>2, <1>3
<1>5. QED
  BY <1>2, <1>3, <1>4 DEF PcBase

\* What a relocation that was shortened is against.
LEMMA AddiuBefore ==
  ASSUME IInv, Assembled(section), NothingBehind(section), NEW k \in 1..Len(relocs),
         Origin(k) = "LO16", op[relocs[k].insn] \in {"addiu", "addiupc"}
  PROVE  relocs[k].sym \notin Labels /\ Address[relocs[k].sym] <= Start
<1>1. PICK i \in 1..Len(Code) : i = relocs[k].insn
  BY OriginFacts
<1>2. Code[i].type = "LO16" /\ relocs[k].sym = Code[i].sym
  BY <1>1, OriginFacts DEF Origin
<1>3. op[i] = Code[i].op \/ <<Code[i].op, op[i]>> \in Shorter
  BY DEF IInv, Opcodes
<1>4. Code[i].op \in {"addiu", "load"}
  BY <1>2 DEF Assembled, Code
<1>5. Code[i].op = "addiu"
  BY <1>1, <1>3, <1>4 DEF Shorter
<1>6. QED
  BY <1>2, <1>5 DEF NothingBehind, Code

\* What a branch is to.
LEMMA BranchBefore ==
  ASSUME IInv, NothingBehind(section), NEW k \in 1..Len(relocs), Origin(k) = "PC16"
  PROVE  relocs[k].sym \in Labels \/ Address[relocs[k].sym] <= Start
<1>1. PICK i \in 1..Len(Code) : i = relocs[k].insn
  BY OriginFacts
<1>2. Code[i].type = "PC16" /\ relocs[k].sym = Code[i].sym
  BY <1>1, OriginFacts DEF Origin
<1>3. QED
  BY <1>2 DEF NothingBehind, Code

\* The instruction of a LO16 is never deleted.
LEMMA LoPresent ==
  ASSUME IInv, Assembled(section), NEW k \in 1..Len(relocs), Origin(k) = "LO16"
  PROVE  Present(relocs[k].insn)
<1>1. PICK i \in 1..Len(Code) : i = relocs[k].insn
  BY OriginFacts
<1>2. Code[i].op \in {"addiu", "load"}
  BY <1>1 DEF Assembled, Origin, Code
<1>3. op[i] = Code[i].op \/ <<Code[i].op, op[i]>> \in Shorter
  BY DEF IInv, Opcodes
<1>4. op[i] \notin {"lui", "nop"}
  BY <1>2, <1>3 DEF Shorter
<1>5. QED
  BY <1>1, <1>4 DEF IInv, OnlyDropped

\* What the types say of the relocations that they were.
LEMMA TypeOrigin ==
  ASSUME IInv, Retypes, Assembled(section), NEW k \in 1..Len(relocs)
  PROVE  /\ relocs[k].type \in {"LO16", "HI0_LO16", "PC23"} => Origin(k) = "LO16"
         /\ relocs[k].type = "HI16" => Origin(k) = "HI16"
         /\ relocs[k].type \in {"PC16", "PC10", "PC7"} => Origin(k) = "PC16"
<1>1. Origin(k) \in {"HI16", "LO16", "PC16", "26", "NONE"}
  BY OriginFacts DEF Origin, Assembled, Code
<1>2. relocs[k].type = Origin(k) \/ <<Origin(k), relocs[k].type>> \in Retyped
  BY DEF Retypes
<1>3. QED
  BY <1>1, <1>2 DEF Retyped

\* What a relocation was shortened for stays true when others are.
LEMMA FitsStay ==
  ASSUME IInv, FormsHold, Assembled(section), NothingBehind(section),
         NEW a, NEW n, NEW rels, Relaxed(a, n, rels),
         NEW k \in 1..Len(relocs), rels[k].type = relocs[k].type
  PROVE  AddressFits(relocs[k])' /\ BranchFits(relocs[k])'
<1>1. Deletion(a, n, rels) /\ Retypes
  BY DEF Relaxed, FormsHold
<1>2. relocs'[k].type = relocs[k].type /\ relocs'[k].insn = relocs[k].insn
      /\ relocs'[k].sym = relocs[k].sym
  <2>1. relocs'[k].type = relocs[k].type
    BY <1>1, DeletedTypes
  <2>2. relocs'[k].insn = relocs[k].insn /\ relocs'[k].sym = relocs[k].sym
    BY <1>1, DeletedState
  <2>3. QED
    BY <2>1, <2>2
<1>3. AddressFits(relocs[k]) /\ BranchFits(relocs[k])
  BY DEF FormsHold, Fits
<1>4. PICK s \in Syms : s = relocs[k].sym
  BY OriginFacts DEF Rec
<1>5. SymVal(relocs[k].sym)' = SymVal(s)'
  BY <1>2, <1>4 DEF SymVal
<1>6. ASSUME relocs[k].type = "HI0_LO16"
      PROVE  FitsSigned(SymVal(relocs[k].sym)', Reach["HI0_LO16"])
  <2>1. PICK reach \in Nat : reach = Reach["HI0_LO16"]
    BY ReachAssumption
  <2>2. FitsSigned(SymVal(s), reach)
    BY <1>3, <1>4, <1>6, <2>1 DEF AddressFits
  <2>3. FitsSigned(SymVal(s)', reach)
    BY <1>1, <2>2, NearStays
  <2>4. QED
    BY <1>5, <2>1, <2>3
<1>7. ASSUME relocs[k].type = "PC23"
      PROVE  /\ op'[relocs[k].insn] = "addiupc" /\ SymVal(relocs[k].sym)' % 4 = 0
             /\ FitsSigned(SymVal(relocs[k].sym)' - PcBase(relocs'[k].offset), Reach["PC23"])
  <2>1. /\ op[relocs[k].insn] = "addiupc" /\ SymVal(s) % 4 = 0
        /\ FitsSigned(SymVal(s) - PcBase(relocs[k].offset), Reach["PC23"])
    BY <1>3, <1>4, <1>7 DEF AddressFits, PcBase
  <2>2. Origin(k) = "LO16"
    BY <1>1, <1>7, TypeOrigin
  <2>3. s \notin Labels /\ Address[s] <= Start
    BY <1>4, <2>1, <2>2, AddiuBefore
  <2>4. PICK A, x, y \in Nat : /\ A = SymVal(s) /\ A = SymVal(s)' /\ A = Address[s]
                               /\ x = relocs[k].offset /\ y = relocs'[k].offset /\ y <= x
    BY <1>1, <2>3, MovesDown
  <2>5. PICK reach \in Nat : reach = Reach["PC23"] /\ reach # 0
    BY ReachAssumption
  <2>6. FitsSigned(A - PcBase(y), reach)
    <3>1. A % 4 = 0 /\ A <= Start /\ FitsSigned(A - PcBase(x), reach)
      BY <2>1, <2>3, <2>4, <2>5
    <3>2. QED
      BY <2>4, <2>5, <3>1, PcBaseFacts
  <2>7. op'[relocs[k].insn] = "addiupc"
    <3>1. PICK i \in 1..Len(Code) : i = relocs[k].insn
      BY OriginFacts
    <3>2. op'[i] = op[i] \/ <<op[i], op'[i]>> \in Shorter
      BY <1>1 DEF Deletion
    <3>3. QED
      BY <2>1, <3>1, <3>2 DEF Shorter
  <2>8. QED
    BY <1>5, <2>1, <2>4, <2>5, <2>6, <2>7
<1>8. ASSUME relocs[k].type \in {"PC10", "PC7"}
      PROVE  FitsSigned(PcRel(relocs[k])' - 2, Reach[relocs[k].type])
  <2>1. PICK t \in {"PC10", "PC7"} : t = relocs[k].type
    BY <1>8
  <2>2. FitsSigned(PcRel(relocs[k]) - 2, Reach[t])
    BY <1>3, <2>1 DEF BranchFits
  <2>3. relocs[k].sym \in Labels \/ Address[relocs[k].sym] <= Start
    BY <1>1, <1>8, TypeOrigin, BranchBefore
  <2>4. QED
    BY <1>1, <2>1, <2>2, <2>3, ReachStays
<1>9. AddressFits(relocs[k])'
  BY <1>2, <1>6, <1>7 DEF AddressFits, PcBase
<1>10. BranchFits(relocs[k])'
  BY <1>2, <1>8 DEF BranchFits
<1>11. QED
  BY <1>9, <1>10

\* A relaxation is right when the forms that it chooses hold after it.
LEMMA FormsStay ==
  ASSUME IInv, FormsHold, Assembled(section), NothingBehind(section), irel \in 1..Len(relocs),
         NEW a, NEW n, NEW rels, Relaxed(a, n, rels),
         \A k \in 1..Len(relocs) : rels[k].type # relocs[k].type =>
                                     AddressFits(relocs[k])' /\ BranchFits(relocs[k])'
  PROVE  FormsHold'
<1>1. Deletion(a, n, rels)
  BY DEF Relaxed
<1>2. Len(relocs') = Len(relocs)
  BY <1>1, DeletedState
<1>3. Fits'
  <2>1. \A k \in 1..Len(relocs) : AddressFits(relocs[k])' /\ BranchFits(relocs[k])'
    BY FitsStay
  <2>2. QED
    BY <1>2, <2>1 DEF Fits
<1>4. QED
  BY <1>3, RetypesStays, HiPresentStays DEF FormsHold

\* Dropping a LUI, and what the LO16 then stands on.
LEMMA DropLuiRelaxes ==
  ASSUME IInv, FormsHold, Assembled(section), irel \in 1..Len(relocs), DropLui
  PROVE  \E a \in Nat : \E rels :
           /\ Relaxed(a, 2, rels)
           /\ relocs[irel].offset = 2 * a /\ contents[a + 1][2] = 1
           /\ contents[a + 1][1] = relocs[irel].insn
           /\ \A k \in 1..Len(relocs) : rels[k].type = IF k = irel THEN "NONE"
                                                       ELSE IF k = irel + 1 THEN LoForm(irel)
                                                       ELSE relocs[k].type
<1>1. PICK a, rels :
        /\ Deletion(a, 2, rels)
        /\ relocs[irel].offset = 2 * a /\ contents[a + 1][2] = 1
        /\ op[contents[a + 1][1]] = "lui"
        /\ \A k \in 1..Len(relocs) : rels[k].type = IF k = irel THEN "NONE"
                                                    ELSE IF k = irel + 1 THEN LoForm(irel)
                                                    ELSE relocs[k].type
  BY DropLuiDeletes
<1>2. /\ relocs[irel].type = "HI16" /\ LoForm(irel) \in {"HI0_LO16", "PC23"}
      /\ relocs[irel + 1].type = "LO16"
  BY DEF DropLui, CanDropLui, IsPair, IsLo, LoForm
<1>3. a \in Nat /\ a + 1 \in 1..Len(contents)
  BY <1>1, DeletedHalves DEF Deletion
<1>4. contents[a + 1][1] = relocs[irel].insn
  <2>1. Present(relocs[irel].insn)
    BY <1>2 DEF FormsHold, HiPresent
  <2>2. PICK k \in 1..Len(relocs) : k = irel
    OBVIOUS
  <2>3. QED
    BY <1>1, <1>3, <2>1, <2>2, RelocInsn
<1>5. \A k \in 1..Len(relocs) : \/ rels[k].type = relocs[k].type
                                \/ <<relocs[k].type, rels[k].type>> \in Retyped
  BY <1>1, <1>2 DEF Retyped
<1>6. rels[irel].type = "NONE"
  BY <1>1
<1>7. Relaxed(a, 2, rels)
  BY <1>1, <1>4, <1>5, <1>6 DEF Relaxed
<1>8. QED
  BY <1>1, <1>3, <1>4, <1>7

\* DropLui chooses a form that reaches the address once the LUI is gone.
LEMMA DropLuiForms ==
  ASSUME IInv, FormsHold, Assembled(section), NothingBehind(section),
         irel \in 1..Len(relocs), DropLui
  PROVE  FormsHold'
<1>1. PICK a, rels :
        /\ a \in Nat /\ Relaxed(a, 2, rels)
        /\ relocs[irel].offset = 2 * a
        /\ \A k \in 1..Len(relocs) : rels[k].type = IF k = irel THEN "NONE"
                                                    ELSE IF k = irel + 1 THEN LoForm(irel)
                                                    ELSE relocs[k].type
  BY DropLuiRelaxes
<1>2. Deletion(a, 2, rels) /\ Retypes
  BY <1>1 DEF Relaxed, FormsHold
<1>3. PICK h, k \in 1..Len(relocs) : h = irel /\ k = irel + 1
  <2>1. irel < Len(relocs) /\ Len(relocs) \in Nat
    BY DEF DropLui, CanDropLui, IsPair, IInv, Shape
  <2>2. QED
    BY <2>1
<1>4. /\ relocs[k].type = "LO16" /\ relocs[k].sym = relocs[h].sym
      /\ LoForm(h) \in {"HI0_LO16", "PC23"} /\ Adjacent(relocs[h], relocs[k])
  BY <1>3 DEF DropLui, CanDropLui, IsPair, IsLo, LoForm
<1>5. relocs'[h].type = "NONE" /\ relocs'[k].type = LoForm(h)
      /\ relocs'[k].insn = relocs[k].insn /\ relocs'[k].sym = relocs[k].sym
  <2>1. rels[h].type = "NONE" /\ rels[k].type = LoForm(h)
    BY <1>1, <1>3
  <2>2. relocs'[h].type = "NONE" /\ relocs'[k].type = LoForm(h)
    BY <1>2, <2>1, DeletedTypes
  <2>3. relocs'[k].insn = relocs[k].insn /\ relocs'[k].sym = relocs[k].sym
    BY <1>2, DeletedState
  <2>4. QED
    BY <2>2, <2>3
<1>6. PICK s \in Syms : s = relocs[k].sym /\ s = relocs[h].sym
  BY <1>4, OriginFacts DEF Rec
<1>7. Origin(k) = "LO16"
  BY <1>2, <1>4, TypeOrigin
<1>8. SymVal(relocs[k].sym)' = SymVal(s)'
  BY <1>5, <1>6 DEF SymVal
<1>9. ASSUME LoForm(h) = "HI0_LO16"
      PROVE  FitsSigned(SymVal(relocs[k].sym)', Reach["HI0_LO16"])
  <2>1. PICK reach \in Nat : reach = Reach["HI0_LO16"]
    BY ReachAssumption
  <2>2. FitsSigned(SymVal(s), reach)
    BY <1>6, <1>9, <2>1 DEF LoForm
  <2>3. FitsSigned(SymVal(s)', reach)
    BY <1>2, <2>2, NearStays
  <2>4. QED
    BY <1>8, <2>1, <2>3
<1>10. ASSUME LoForm(h) = "PC23"
       PROVE  /\ op'[relocs[k].insn] = "addiupc" /\ SymVal(relocs[k].sym)' % 4 = 0
              /\ FitsSigned(SymVal(relocs[k].sym)' - PcBase(relocs'[k].offset), Reach["PC23"])
  <2>1. /\ SymVal(s) % 4 = 0 /\ FitsSigned(LoDistance(h), Reach["PC23"])
        /\ OpAt(relocs[k].offset) = "addiu"
    BY <1>3, <1>6, <1>10 DEF LoForm
  <2>2. PICK b \in Nat : relocs[k].offset = 2 * b /\ Cut(contents, relocs[k].insn, b)
    BY RelocAt
  <2>3. InsnAt(relocs[k].offset) = relocs[k].insn /\ op[relocs[k].insn] = "addiu"
    <3>1. /\ b + 1 \in 1..Len(contents) /\ InsnAt(relocs[k].offset) = contents[b + 1][1]
          /\ op[contents[b + 1][1]] = "addiu"
      <4>1. Shape /\ b \in Int /\ OpAt(relocs[k].offset) # "none"
        BY <2>1 DEF IInv
      <4>2. QED
        BY <2>1, <2>2, <4>1, OpAtFacts
    <3>2. contents[b + 1][1] = relocs[k].insn
      BY <1>7, <2>2, <3>1, LoPresent, RelocInsn
    <3>3. QED
      BY <3>1, <3>2
  <2>4. op'[relocs[k].insn] = "addiupc"
    <3>1. op' = [op EXCEPT ![InsnAt(relocs[k].offset)] = "addiupc"]
      BY <1>3, <1>10 DEF DropLui
    <3>2. op \in [1..Len(Code) -> Op16 \cup Op32] /\ relocs[k].insn \in 1..Len(Code)
      BY OriginFacts, StateTypes
    <3>3. QED
      BY <2>3, <3>1, <3>2
  <2>5. s \notin Labels /\ Address[s] <= Start
    BY <1>6, <1>7, <2>3, AddiuBefore
  <2>6. PICK A \in Nat : A = SymVal(s) /\ A = SymVal(s)'
    BY <1>2, <2>5, MovesDown
  <2>7. relocs[k].offset > relocs[h].offset
    <3>1. relocs[h].offset \in Nat /\ relocs[k].offset \in Nat
      BY <1>2, MovesDown
    <3>2. QED
      BY <1>4, <3>1 DEF Adjacent
  <2>8. PICK x, y \in Nat : x = relocs[k].offset /\ y = relocs'[k].offset /\ x = y + 4
    <3>1. relocs'[k].offset = Shifted(relocs[k].offset, 2 * a, 2 * 2)
      BY <1>2, DeletedState
    <3>2. relocs'[k].offset = relocs[k].offset - 4
      BY <1>1, <1>3, <2>7, <3>1 DEF Shifted
    <3>3. relocs[k].offset \in Nat /\ relocs'[k].offset \in Nat
      BY <1>2, MovesDown
    <3>4. QED
      BY <3>2, <3>3
  <2>9. LoDistance(h) = A - PcBase(y)
    <3>1. PICK z \in Nat : z = relocs[h].offset
      BY <1>2, MovesDown
    <3>2. PcRel(relocs[h]) = A - Start - z
      BY <1>6, <2>6, <3>1 DEF PcRel
    <3>3. LoDistance(h) = (((A - Start - z) - (x - z) + 3) \div 4) * 4 + 4
      BY <1>3, <2>8, <3>1, <3>2 DEF LoDistance
    <3>4. (A - Start - z) - (x - z) + 3 = A - Start - x + 3
      BY AddressAssumption
    <3>5. A % 4 = 0
      BY <2>1, <2>6
    <3>6. ((A - Start - x + 3) \div 4) * 4 + 4 = A - PcBase(y)
      BY <2>8, <3>5, LoDistanceFacts
    <3>7. QED
      BY <3>3, <3>4, <3>6
  <2>10. QED
    BY <1>8, <2>1, <2>4, <2>6, <2>8, <2>9
<1>11. AddressFits(relocs[k])' /\ BranchFits(relocs[k])'
  BY <1>4, <1>5, <1>9, <1>10 DEF AddressFits, BranchFits, PcBase
<1>12. AddressFits(relocs[h])' /\ BranchFits(relocs[h])'
  BY <1>5 DEF AddressFits, BranchFits
<1>13. \A j \in 1..Len(relocs) : rels[j].type # relocs[j].type => j = h \/ j = k
  BY <1>1, <1>3
<1>14. QED
  BY <1>1, <1>11, <1>12, <1>13, FormsStay

\* The other relaxations, of which one changes a type.
LEMMA CompactBranchForms ==
  ASSUME IInv, FormsHold, Assembled(section), NothingBehind(section),
         irel \in 1..Len(relocs), CompactBranch
  PROVE  FormsHold'
<1>1. PICK a \in Nat : /\ Deletion(a + 2, 1, relocs)
                       /\ op[contents[a + 3][1]] = "nop"
  BY CompactBranchDeletes
<1>2. PICK b, rels : b = a + 2 /\ rels = relocs
  OBVIOUS
<1>3. b + 1 = a + 3
  BY <1>2
<1>4. Relaxed(b, 1, rels)
  BY <1>1, <1>2, <1>3 DEF Relaxed
<1>5. QED
  BY <1>2, <1>4, FormsStay

\* ShortenSlot changes no type.
LEMMA ShortenSlotForms ==
  ASSUME IInv, FormsHold, Assembled(section), NothingBehind(section),
         irel \in 1..Len(relocs), ShortenSlot
  PROVE  FormsHold'
<1>1. PICK a \in Nat : /\ Deletion(a + 3, 1, relocs)
                       /\ contents[a + 4] = <<contents[a + 3][1], 2>>
  BY ShortenSlotDeletes
<1>2. PICK b, rels : b = a + 3 /\ rels = relocs
  OBVIOUS
<1>3. b + 1 = a + 4
  BY <1>2
<1>4. Relaxed(b, 1, rels)
  BY <1>1, <1>2, <1>3 DEF Relaxed
<1>5. QED
  BY <1>2, <1>4, FormsStay

\* ShortenBranch, and the type that it chooses.
LEMMA ShortenBranchRelaxes ==
  ASSUME IInv, irel \in 1..Len(relocs), ShortenBranch
  PROVE  \E b, rels : \E t \in {"PC10", "PC7"} :
           /\ Relaxed(b, 1, rels)
           /\ relocs[irel].type = "PC16" /\ ReachesShort(relocs[irel], t)
           /\ rels[irel].type # "NONE"
           /\ \A j \in 1..Len(relocs) : rels[j].type = IF j = irel THEN t
                                                       ELSE relocs[j].type
<1> DEFINE shortened(a, rels, form) ==
             /\ Deletion(a + 1, 1, rels)
             /\ relocs[irel].type = "PC16" /\ ReachesShort(relocs[irel], form[1])
             /\ \A k \in 1..Len(relocs) : rels[k].type = IF k = irel THEN form[1]
                                                         ELSE relocs[k].type
             /\ contents[a + 2] = <<contents[a + 1][1], 2>>
<1>1. \E a \in Nat : \E rels : \E form \in {<<"PC10", "b16">>, <<"PC7", "beqz16">>} :
        shortened(a, rels, form)
  BY ShortenBranchDeletes
<1>2. PICK a \in Nat : \E rels : \E form \in {<<"PC10", "b16">>, <<"PC7", "beqz16">>} :
        shortened(a, rels, form)
  BY <1>1
<1>3. PICK rels : \E form \in {<<"PC10", "b16">>, <<"PC7", "beqz16">>} :
        shortened(a, rels, form)
  BY <1>2
<1>4. PICK form \in {<<"PC10", "b16">>, <<"PC7", "beqz16">>} : shortened(a, rels, form)
  BY <1>3
<1>5. PICK b : b = a + 1 /\ b + 1 = a + 2
  OBVIOUS
<1>6. PICK k \in 1..Len(relocs) : k = irel
  OBVIOUS
<1>7. PICK t \in {"PC10", "PC7"} : t = form[1]
  OBVIOUS
<1>8. /\ Deletion(b, 1, rels) /\ contents[b + 1][2] = 2
      /\ relocs[k].type = "PC16" /\ ReachesShort(relocs[k], t)
      /\ \A j \in 1..Len(relocs) : rels[j].type = IF j = k THEN t ELSE relocs[j].type
  BY <1>4, <1>5, <1>6, <1>7
<1> HIDE DEF shortened
<1>9. Relaxed(b, 1, rels)
  BY <1>8 DEF Relaxed, Retyped
<1>10. QED
  BY <1>6, <1>8, <1>9

\* The short form reaches, even though a label behind it comes nearer.
LEMMA ShortenBranchForms ==
  ASSUME IInv, FormsHold, Assembled(section), NothingBehind(section),
         irel \in 1..Len(relocs), ShortenBranch
  PROVE  FormsHold'
<1>1. PICK b, rels : \E t \in {"PC10", "PC7"} :
        /\ Relaxed(b, 1, rels)
        /\ relocs[irel].type = "PC16" /\ ReachesShort(relocs[irel], t)
        /\ \A j \in 1..Len(relocs) : rels[j].type = IF j = irel THEN t ELSE relocs[j].type
  BY ShortenBranchRelaxes
<1>2. PICK t \in {"PC10", "PC7"} :
        /\ Relaxed(b, 1, rels)
        /\ relocs[irel].type = "PC16" /\ ReachesShort(relocs[irel], t)
        /\ \A j \in 1..Len(relocs) : rels[j].type = IF j = irel THEN t ELSE relocs[j].type
  BY <1>1
<1>3. PICK k \in 1..Len(relocs) : k = irel
  OBVIOUS
<1>4. Deletion(b, 1, rels)
  BY <1>2 DEF Relaxed
<1>5. FitsSigned(PcRel(relocs[k])' - 2, Reach[t])
  <2>1. FitsSigned(PcRel(relocs[k]) - 2, Reach[t])
    BY <1>2, <1>3 DEF ReachesShort
  <2>2. relocs[k].sym \in Labels \/ Address[relocs[k].sym] <= Start
    BY <1>2, <1>3, TypeOrigin, BranchBefore DEF FormsHold
  <2>3. QED
    BY <1>4, <2>1, <2>2, ReachStays
<1>6. relocs'[k].type = t
  BY <1>2, <1>3, <1>4, DeletedTypes
<1>7. AddressFits(relocs[k])' /\ BranchFits(relocs[k])'
  BY <1>5, <1>6 DEF AddressFits, BranchFits
<1>8. \A j \in 1..Len(relocs) : rels[j].type # relocs[j].type => j = k
  BY <1>2, <1>3
<1>9. QED
  BY <1>2, <1>7, <1>8, FormsStay

\* As assembled, every instruction is there.
LEMMA InitPresent ==
  ASSUME Init
  PROVE  /\ \A n \in 1..Len(Code) : Present(n) /\ op[n] = Code[n].op
         /\ \A k \in 1..Len(relocs) : relocs[k].type = Origin(k)
<1>1. Code \in Seq(Insn) /\ contents = Halves(Code) /\ relocs = RelocsOf(Code)
      /\ op = [n \in 1..Len(Code) |-> Code[n].op]
  BY SectionsAssumption DEF Init, IsSection, Code
<1>2. \A n \in 1..Len(Code) : \E k \in 1..Len(contents) : contents[k][1] = n
  BY <1>1, HalvesWhole
<1>3. DOMAIN contents = 1..Len(contents)
  BY <1>1, HalvesType DEF Halfwords
<1>4. \A k \in 1..Len(relocs) : relocs[k].type = Code[relocs[k].insn].type
  BY <1>1, RelocsFacts
<1>5. QED
  BY <1>1, <1>2, <1>3, <1>4 DEF Present, Origin

\* As assembled, nothing has been shortened.
LEMMA InitForms ==
  ASSUME Init, Assembled(section)
  PROVE  FormsHold
<1>1. IInv
  BY InitInv
<1>2. /\ \A n \in 1..Len(Code) : Present(n)
      /\ \A k \in 1..Len(relocs) : relocs[k].type = Origin(k)
  BY InitPresent
<1>3. \A k \in 1..Len(relocs) : relocs[k].insn \in 1..Len(Code)
                                /\ Origin(k) \in {"HI16", "LO16", "PC16", "26", "NONE"}
  BY <1>1, OriginFacts DEF Origin, Assembled, Code
<1>4. Retypes /\ HiPresent
  BY <1>2, <1>3 DEF Retypes, HiPresent
<1>5. Fits
  BY <1>2, <1>3 DEF Fits, AddressFits, BranchFits
<1>6. QED
  BY <1>4, <1>5 DEF FormsHold

\* What is neither judged nor deleted stays.
LEMMA SameForms ==
  ASSUME FormsHold, UNCHANGED <<section, op, contents, relocs, value>>
  PROVE  FormsHold'
BY DEF FormsHold, Retypes, HiPresent, Fits, Origin, Code, Present, AddressFits, BranchFits,
       SymVal, PcRel

\* Every step keeps the forms right.
LEMMA StepForms ==
  ASSUME IInv, FormsHold, Assembled(section), NothingBehind(section), [Next]_vars
  PROVE  FormsHold'
<1>1. Len(relocs) \in Nat /\ irel \in 1..(Len(relocs) + 1)
  BY DEF IInv, Shape
<1>2. ASSUME Relax
      PROVE  FormsHold'
  <2>1. irel \in 1..Len(relocs)
    BY <1>1, <1>2 DEF Relax
  <2>2. CASE DropLui
    BY <2>1, <2>2, DropLuiForms
  <2>3. CASE CompactBranch
    BY <2>1, <2>3, CompactBranchForms
  <2>4. CASE ShortenBranch
    BY <2>1, <2>4, ShortenBranchForms
  <2>5. CASE ShortenSlot
    BY <2>1, <2>5, ShortenSlotForms
  <2>6. CASE Keep
    BY <2>6, SameForms DEF Keep
  <2>7. QED
    BY <1>2, <2>2, <2>3, <2>4, <2>5, <2>6 DEF Relax
<1>3. CASE EndPass
  BY <1>3, SameForms DEF EndPass
<1>4. CASE UNCHANGED vars
  BY <1>4, SameForms DEF vars
<1>5. QED
  BY <1>2, <1>3, <1>4 DEF Next

\* A branch that was shortened reaches its label from wherever both have moved
\* since: no overflow is reported when the section is relocated.
THEOREM ShortBranchesReach ==
  ASSUME \A s \in Sections : Assembled(s) /\ NothingBehind(s)
  PROVE  Spec => []BranchesReach
<1>1. Init => IInv /\ FormsHold
  BY InitInv, InitForms DEF Init
<1>2. IInv => Assembled(section) /\ NothingBehind(section)
  BY DEF IInv, Shape
<1>3. IInv /\ FormsHold /\ [Next]_vars => FormsHold'
  BY <1>2, StepForms
<1>4. IInv /\ FormsHold => BranchesReach
  BY DEF IInv, Shape, FormsHold, Fits, BranchFits, BranchesReach
<1>5. QED
  BY <1>1, <1>3, <1>4, Invariance, PTL DEF Spec

-----------------------------------------------------------------------------
(***************************************************************************)
(* Delay slots.                                                            *)
(***************************************************************************)
\* Opcodes of jumps that have a delay slot.
Slots == Slot16 \cup Slot32

\* The instruction before one that begins at a halfword, if it is left.
LEMMA PrevHalf ==
  ASSUME IInv, NEW m \in 1..Len(Code), Present(m),
         NEW j \in 1..Len(contents), contents[j][1] = m + 1, contents[j][2] = 1
  PROVE  /\ j - 1 \in 1..Len(contents) /\ contents[j - 1][1] = m
         /\ Size(op[m]) # 4 => contents[j - 1][2] = 1
         /\ Size(op[m]) = 4 => /\ j - 2 \in 1..Len(contents)
                               /\ contents[j - 2][1] = m /\ contents[j - 2][2] = 1
<1>1. /\ Len(contents) \in Nat /\ DOMAIN contents = 1..Len(contents) /\ m \in Nat
      /\ \A k \in 1..Len(contents) : /\ contents[k][1] \in Nat /\ contents[k][2] \in {1, 2}
                                     /\ contents[k] = <<contents[k][1], contents[k][2]>>
  <2>1. Len(Code) \in Nat /\ contents \in Halfwords(Len(Code))
    BY CodeType DEF IInv, Shape
  <2>2. /\ Len(contents) \in Nat /\ DOMAIN contents = 1..Len(contents)
        /\ \A k \in 1..Len(contents) : /\ contents[k] = <<contents[k][1], contents[k][2]>>
                                       /\ contents[k][1] \in 1..Len(Code)
                                       /\ contents[k][2] \in {1, 2}
    BY <2>1, HalfwordFacts
  <2>3. QED
    BY <2>1, <2>2
<1>2. Ordered(contents) /\ Whole(contents, op)
  BY DEF IInv, Decodes
<1>3. PICK k \in 1..Len(contents) : contents[k][1] = m
  BY <1>1 DEF Present
<1>4. k < j
  <2>1. k # j
    BY <1>1, <1>3
  <2>2. ~(j < k)
    BY <1>1, <1>2, <1>3 DEF Ordered
  <2>3. QED
    BY <1>1, <2>1, <2>2
<1>5. PICK i \in 1..Len(contents) : i = j - 1 /\ i < j /\ k <= i /\ j = i + 1
  BY <1>1, <1>3, <1>4
<1>6. contents[i][1] = m
  <2>1. contents[i][1] < m + 1
    BY <1>2, <1>5 DEF Ordered
  <2>2. k = i \/ contents[k][1] <= contents[i][1]
    BY <1>1, <1>2, <1>3, <1>5 DEF Ordered
  <2>3. QED
    BY <1>1, <1>3, <1>5, <2>1, <2>2
<1>7. ASSUME contents[i][2] = 1
      PROVE  Size(op[m]) # 4
  <2>1. contents[i + 1] # <<contents[i][1], 2>>
    BY <1>1, <1>5
  <2>2. QED
    BY <1>2, <1>6, <1>7, <2>1 DEF Whole
<1>8. ASSUME contents[i][2] = 2
      PROVE  /\ i - 1 \in 1..Len(contents) /\ contents[i - 1][1] = m /\ contents[i - 1][2] = 1
             /\ Size(op[m]) = 4
  <2>1. i > 1 /\ contents[i - 1] = <<contents[i][1], 1>>
    BY <1>2, <1>8 DEF Whole
  <2>2. PICK h \in 1..Len(contents) : h = i - 1 /\ i = h + 1 /\ h < Len(contents)
    BY <1>1, <2>1
  <2>3. contents[h][1] = m /\ contents[h][2] = 1 /\ contents[h + 1] = <<contents[h][1], 2>>
    BY <1>1, <1>6, <1>8, <2>1, <2>2
  <2>4. Size(op[m]) = 4
    BY <1>2, <2>2, <2>3 DEF Whole
  <2>5. QED
    BY <2>2, <2>3, <2>4
<1>9. j - 2 = i - 1
  BY <1>5
<1>10. QED
  BY <1>1, <1>5, <1>6, <1>7, <1>8, <1>9

\* The opcode at the beginning of an instruction.
LEMMA OpAtHalf ==
  ASSUME Shape, NEW j \in 1..Len(contents), contents[j][2] = 1, NEW x, x = 2 * j - 2
  PROVE  OpAt(x) = op[contents[j][1]]
<1>1. Len(contents) \in Nat
  BY CodeType, HalfwordFacts DEF Shape
<1>2. (2 * j - 2) \div 2 + 1 = j /\ 2 * j - 2 \in 0..(2 * Len(contents) - 2)
  BY <1>1
<1>3. QED
  BY <1>2 DEF OpAt, InsnAt, SectionSize

\* An instruction with a delay slot is never deleted, nor does one become such.
LEMMA SlotOps ==
  ASSUME IInv, NEW a, NEW n, NEW rels, Deletion(a, n, rels),
         NEW m \in 1..Len(Code), op'[m] \in Slots
  PROVE  /\ op[m] \in Slots /\ Present(m)
         /\ op'[m] = "jal" => op[m] = "jal"
         /\ op'[m] = "jals" => op[m] \in {"jal", "jals"}
<1>1. op'[m] = op[m] \/ <<op[m], op'[m]>> \in Shorter
  BY DEF Deletion
<1>2. op[m] \in Slots
  BY <1>1 DEF Shorter, Slots, Slot16, Slot32
<1>3. op[m] \notin {"lui", "nop"}
  BY <1>2 DEF Slots, Slot16, Slot32
<1>4. QED
  BY <1>1, <1>2, <1>3 DEF Shorter, IInv, OnlyDropped

\* A deletion keeps delay slots if it deletes no instruction in one, and none changes
\* its size there but together with the jump.
LEMMA SlotsStay ==
  ASSUME IInv, DelaySlotsKept, NEW a, NEW n, NEW rels, Deletion(a, n, rels),
         \A m \in 1..(Len(Code) - 1) : op'[m] \in Slots =>
           /\ contents[a + 1][2] = 1 => contents[a + 1][1] # m + 1
           /\ op'[m] = "jal" => Size(op'[m + 1]) = Size(op[m + 1])
           /\ op'[m] = "jals" /\ op[m] = "jal" => Size(op'[m + 1]) = 2
  PROVE  DelaySlotsKept'
<1>1. Len(Code) \in Nat /\ section' = section
  BY CodeType, DeletedState DEF IInv, Shape
<1>2. SUFFICES ASSUME NEW m \in 1..(Len(Code) - 1), op'[m] \in Slots
               PROVE  /\ Present(m + 1)'
                      /\ op'[m] = "jal" => Size(op'[m + 1]) = 4
                      /\ op'[m] = "jals" => Size(op'[m + 1]) = 2
  BY <1>1 DEF DelaySlotsKept, Code, Slots
<1>3. PICK i \in 1..Len(Code) : i = m + 1
  BY <1>1
<1>4. /\ op[m] \in Slots
      /\ op'[m] = "jal" => op[m] = "jal"
      /\ op'[m] = "jals" => op[m] \in {"jal", "jals"}
  <2>1. m \in 1..Len(Code)
    BY <1>1
  <2>2. QED
    BY <1>2, <2>1, SlotOps
<1>5. /\ Present(i)
      /\ op[m] = "jal" => Size(op[i]) = 4
      /\ op[m] = "jals" => Size(op[i]) = 2
  BY <1>3, <1>4 DEF DelaySlotsKept, Code, Slots
<1>6. /\ contents[a + 1][2] = 1 => contents[a + 1][1] # i
      /\ op'[m] = "jal" => Size(op'[i]) = Size(op[i])
      /\ op'[m] = "jals" /\ op[m] = "jal" => Size(op'[i]) = 2
  BY <1>2, <1>3
<1>7. Present(i)'
  BY <1>5, <1>6, DeletedPresent
<1>8. Size(op[i]) = 2 => Size(op'[i]) = 2
  <2>1. op'[i] = op[i] \/ <<op[i], op'[i]>> \in Shorter
    BY DEF Deletion
  <2>2. QED
    BY <2>1 DEF Shorter, Size, Op16
<1>9. QED
  BY <1>3, <1>4, <1>5, <1>6, <1>7, <1>8

\* Opcodes change size only where a second half is taken out.
LEMMA SameSizes ==
  ASSUME NEW a, NEW n, NEW rels, Deletion(a, n, rels), NEW x \in 1..Len(Code)
  PROVE  \/ Size(op'[x]) = Size(op[x])
         \/ contents[a + 1][2] = 2 /\ x = contents[a + 1][1]
BY DEF Deletion, Removable

\* DropLui looks at what is before the LUI.
LEMMA DropLuiSlots ==
  ASSUME IInv, DelaySlotsKept, irel \in 1..Len(relocs), DropLui
  PROVE  DelaySlotsKept'
<1>1. PICK a, rels : /\ Deletion(a, 2, rels) /\ relocs[irel].offset = 2 * a
                     /\ contents[a + 1][2] = 1
  BY DropLuiDeletes
<1>2. a \in Nat /\ a + 1 \in 1..Len(contents) /\ Len(Code) \in Nat /\ Len(contents) \in Nat
  BY <1>1, CodeType, DeletedHalves DEF Deletion, IInv, Shape
<1>3. OpAt(2 * a - 2) \notin Slot16 /\ OpAt(2 * a - 4) \notin Slot32
  BY <1>1 DEF DropLui, CanDropLui, InDelaySlot
<1>4. ASSUME NEW m \in 1..(Len(Code) - 1), op'[m] \in Slots
      PROVE  /\ contents[a + 1][1] # m + 1
             /\ Size(op'[m + 1]) = Size(op[m + 1])
             /\ ~(op'[m] = "jals" /\ op[m] = "jal")
  <2>1. m \in 1..Len(Code) /\ m + 1 \in 1..Len(Code)
    BY <1>2
  <2>2. op[m] \in Slots /\ Present(m)
    BY <1>1, <1>4, <2>1, SlotOps
  <2>3. contents[a + 1][1] # m + 1
    <3>1. SUFFICES ASSUME contents[a + 1][1] = m + 1
                   PROVE  FALSE
      OBVIOUS
    <3>2. PICK j \in 1..Len(contents) : j = a + 1 /\ 2 * a - 2 = 2 * (j - 1) - 2
                                        /\ 2 * a - 4 = 2 * (j - 2) - 2
      BY <1>2
    <3>3. /\ j - 1 \in 1..Len(contents) /\ contents[j - 1][1] = m
          /\ Size(op[m]) # 4 => contents[j - 1][2] = 1
          /\ Size(op[m]) = 4 => /\ j - 2 \in 1..Len(contents)
                                /\ contents[j - 2][1] = m /\ contents[j - 2][2] = 1
      BY <1>1, <2>1, <2>2, <3>1, <3>2, PrevHalf
    <3>4. CASE Size(op[m]) = 4
      <4>1. PICK i \in 1..Len(contents) : i = j - 2
        BY <3>3, <3>4
      <4>2. OpAt(2 * a - 4) = op[m]
        BY <3>2, <3>3, <3>4, <4>1, OpAtHalf DEF IInv
      <4>3. op[m] \in Slot32
        BY <2>2, <3>4 DEF Slots, Slot16, Size, Op16
      <4>4. QED
        BY <1>3, <4>2, <4>3
    <3>5. CASE Size(op[m]) # 4
      <4>1. PICK i \in 1..Len(contents) : i = j - 1
        BY <3>3
      <4>2. OpAt(2 * a - 2) = op[m]
        BY <3>2, <3>3, <3>5, <4>1, OpAtHalf DEF IInv
      <4>3. op[m] \in Slot16
        BY <2>2, <3>5 DEF Slots, Slot32, Size, Op16
      <4>4. QED
        BY <1>3, <4>2, <4>3
    <3>6. QED
      BY <3>4, <3>5
  <2>4. Size(op'[m + 1]) = Size(op[m + 1])
    <3>1. PICK i \in 1..Len(Code) : i = m + 1
      BY <2>1
    <3>2. QED
      BY <1>1, <3>1, SameSizes
  <2>5. op'[m] = op[m] \/ op'[m] = "addiupc"
    BY <2>1, StateTypes DEF DropLui
  <2>6. QED
    BY <2>3, <2>4, <2>5
<1>5. QED
  BY <1>1, <1>4, SlotsStay

\* CompactBranch takes the delay slot from the branch that it belongs to.
LEMMA CompactBranchSlots ==
  ASSUME IInv, DelaySlotsKept, irel \in 1..Len(relocs), CompactBranch
  PROVE  DelaySlotsKept'
<1>1. PICK a \in Nat :
        /\ Deletion(a + 2, 1, relocs)
        /\ a + 3 \in 1..Len(contents)
        /\ contents[a + 1][1] \in 1..Len(Code)
        /\ contents[a + 2] = <<contents[a + 1][1], 2>>
        /\ contents[a + 3][2] = 1
        /\ op' = [op EXCEPT ![contents[a + 1][1]] = "bzc"]
  BY CompactBranchDeletes
<1>2. PICK b : b = a + 2 /\ b + 1 = a + 3
  OBVIOUS
<1>3. Len(Code) \in Nat /\ op \in [1..Len(Code) -> Op16 \cup Op32]
  BY CodeType, StateTypes DEF IInv, Shape
<1>4. Deletion(b, 1, relocs) /\ contents[b + 1][2] = 1 /\ b + 1 \in 1..Len(contents)
  BY <1>1, <1>2
<1>5. ASSUME NEW m \in 1..(Len(Code) - 1), op'[m] \in Slots
      PROVE  /\ contents[b + 1][1] # m + 1
             /\ Size(op'[m + 1]) = Size(op[m + 1])
             /\ ~(op'[m] = "jals" /\ op[m] = "jal")
  <2>1. m \in 1..Len(Code) /\ m + 1 \in 1..Len(Code)
    BY <1>3
  <2>2. Present(m)
    BY <1>4, <1>5, <2>1, SlotOps
  <2>3. contents[b + 1][1] # m + 1
    <3>1. SUFFICES ASSUME contents[b + 1][1] = m + 1
                   PROVE  FALSE
      OBVIOUS
    <3>2. PICK j \in 1..Len(contents) : j = b + 1 /\ j - 1 = a + 2
      BY <1>2, <1>4
    <3>3. contents[j - 1][1] = m
      BY <1>4, <2>1, <2>2, <3>1, <3>2, PrevHalf
    <3>4. m = contents[a + 1][1]
      BY <1>1, <3>2, <3>3
    <3>5. op'[m] = "bzc"
      BY <1>1, <1>3, <3>4
    <3>6. QED
      BY <1>5, <3>5 DEF Slots, Slot16, Slot32
  <2>4. Size(op'[m + 1]) = Size(op[m + 1])
    <3>1. PICK i \in 1..Len(Code) : i = m + 1
      BY <2>1
    <3>2. QED
      BY <1>4, <3>1, SameSizes
  <2>5. op'[m] = op[m] \/ op'[m] = "bzc"
    BY <1>1, <1>3, <2>1
  <2>6. QED
    BY <2>3, <2>4, <2>5
<1>6. QED
  BY <1>4, <1>5, SlotsStay

\* ShortenBranch finds no branch in the delay slot of a JAL.
LEMMA ShortenBranchSlots ==
  ASSUME IInv, DelaySlotsKept, Assembled(section), irel \in 1..Len(relocs), ShortenBranch
  PROVE  DelaySlotsKept'
<1> DEFINE shortened(a, rels, form) ==
             /\ Deletion(a + 1, 1, rels)
             /\ contents[a + 1][1] \in 1..Len(Code)
             /\ contents[a + 2] = <<contents[a + 1][1], 2>>
             /\ op[contents[a + 1][1]] \in {"beqz", "b"}
             /\ op' = [op EXCEPT ![contents[a + 1][1]] = form[2]]
<1>1. \E a \in Nat : \E rels : \E form \in {<<"PC10", "b16">>, <<"PC7", "beqz16">>} :
        shortened(a, rels, form)
  BY ShortenBranchDeletes
<1>2. PICK a \in Nat : \E rels : \E form \in {<<"PC10", "b16">>, <<"PC7", "beqz16">>} :
        shortened(a, rels, form)
  BY <1>1
<1>3. PICK rels : \E form \in {<<"PC10", "b16">>, <<"PC7", "beqz16">>} :
        shortened(a, rels, form)
  BY <1>2
<1>4. PICK form \in {<<"PC10", "b16">>, <<"PC7", "beqz16">>} : shortened(a, rels, form)
  BY <1>3
<1>5. PICK b, x : b = a + 1 /\ b + 1 = a + 2 /\ x = contents[a + 1][1]
  OBVIOUS
<1>6. /\ Deletion(b, 1, rels) /\ contents[b + 1][2] = 2 /\ contents[b + 1][1] = x
      /\ x \in 1..Len(Code) /\ op[x] \in {"beqz", "b"} /\ op' = [op EXCEPT ![x] = form[2]]
  BY <1>4, <1>5
<1>7. form[2] \in {"b16", "beqz16"}
  OBVIOUS
<1> HIDE DEF shortened
<1>8. Len(Code) \in Nat /\ op \in [1..Len(Code) -> Op16 \cup Op32]
  BY CodeType, StateTypes DEF IInv, Shape
<1>9. ASSUME NEW m \in 1..(Len(Code) - 1), op'[m] \in Slots
      PROVE  /\ op'[m] = "jal" => Size(op'[m + 1]) = Size(op[m + 1])
             /\ ~(op'[m] = "jals" /\ op[m] = "jal")
  <2>1. PICK i \in 1..Len(Code) : i = m + 1
    BY <1>8
  <2>2. m \in 1..Len(Code)
    BY <1>8
  <2>3. ASSUME op'[m] = "jal"
        PROVE  Size(op'[i]) = Size(op[i])
    <3>1. op[m] = "jal"
      BY <1>6, <1>9, <2>2, <2>3, SlotOps
    <3>2. op[m] = Code[m].op \/ <<Code[m].op, op[m]>> \in Shorter
      BY <2>2 DEF IInv, Opcodes
    <3>3. Code[m].op = "jal"
      BY <3>1, <3>2 DEF Shorter
    <3>4. Code[m + 1].op \in Op32 \ {"b", "beqz"}
      <4>1. m < Len(Code)
        BY <1>8
      <4>2. QED
        BY <2>2, <3>3, <4>1 DEF Assembled, Code
    <3>5. op[i] = Code[i].op \/ <<Code[i].op, op[i]>> \in Shorter
      BY <2>1 DEF IInv, Opcodes
    <3>6. op[i] \notin {"b", "beqz"}
      BY <2>1, <3>4, <3>5 DEF Shorter
    <3>7. i # x
      BY <1>6, <3>6
    <3>8. QED
      BY <1>6, <3>7, SameSizes
  <2>4. op'[m] = op[m] \/ op'[m] \in {"b16", "beqz16"}
    BY <1>6, <1>7, <1>8, <2>2
  <2>5. QED
    BY <2>1, <2>3, <2>4
<1>10. QED
  BY <1>6, <1>9, SlotsStay

\* The instruction in the delay slot is the next one.
LEMMA NextInsn ==
  ASSUME IInv, NEW j \in 1..Len(contents), j + 1 \in 1..Len(contents),
         NEW m \in 1..Len(Code), contents[j] = <<m, 2>>, contents[j + 1][2] = 1, Present(m + 1)
  PROVE  contents[j + 1][1] = m + 1
<1>1. /\ Len(contents) \in Nat /\ DOMAIN contents = 1..Len(contents) /\ m \in Nat
      /\ \A k \in 1..Len(contents) : contents[k][1] \in Nat
  <2>1. Len(Code) \in Nat /\ contents \in Halfwords(Len(Code))
    BY CodeType DEF IInv, Shape
  <2>2. /\ Len(contents) \in Nat /\ DOMAIN contents = 1..Len(contents)
        /\ \A k \in 1..Len(contents) : contents[k][1] \in 1..Len(Code)
    BY <2>1, HalfwordFacts
  <2>3. QED
    BY <2>1, <2>2
<1>2. Ordered(contents)
  BY DEF IInv, Decodes
<1>3. PICK i \in 1..Len(contents) : i = j + 1 /\ j < i
  BY <1>1
<1>4. m < contents[i][1]
  <2>1. contents[j][1] = m
    OBVIOUS
  <2>2. contents[i][2] # 2
    BY <1>3
  <2>3. contents[j][1] < contents[i][1]
    BY <1>2, <1>3, <2>2 DEF Ordered
  <2>4. QED
    BY <2>1, <2>3
<1>5. PICK k \in 1..Len(contents) : contents[k][1] = m + 1
  BY <1>1 DEF Present
<1>6. ~(k < i)
  <2>1. SUFFICES ASSUME k < i PROVE FALSE
    OBVIOUS
  <2>2. k = j \/ k < j
    BY <1>1, <1>3, <2>1
  <2>3. k = j \/ contents[k][1] <= contents[j][1]
    BY <1>1, <1>2, <2>2 DEF Ordered
  <2>4. contents[j][1] = m
    OBVIOUS
  <2>5. QED
    BY <1>1, <1>5, <2>3, <2>4
<1>7. k = i \/ contents[i][1] <= contents[k][1]
  BY <1>1, <1>2, <1>6 DEF Ordered
<1>8. QED
  BY <1>1, <1>3, <1>4, <1>5, <1>7

\* ShortenSlot narrows the delay slot of the jump that it changes.
LEMMA ShortenSlotSlots ==
  ASSUME IInv, DelaySlotsKept, irel \in 1..Len(relocs), ShortenSlot
  PROVE  DelaySlotsKept'
<1>1. PICK a \in Nat :
        /\ Deletion(a + 3, 1, relocs)
        /\ a + 4 \in 1..Len(contents)
        /\ contents[a + 1][1] \in 1..Len(Code) /\ contents[a + 1][2] = 1
        /\ contents[a + 2] = <<contents[a + 1][1], 2>>
        /\ contents[a + 3][1] \in 1..Len(Code) /\ contents[a + 3][2] = 1
        /\ contents[a + 4] = <<contents[a + 3][1], 2>>
        /\ op[contents[a + 1][1]] = "jal"
        /\ op[contents[a + 3][1]] \in {"nop32", "move32"}
        /\ op'[contents[a + 1][1]] = "jals"
        /\ op'[contents[a + 3][1]] \in {"nop", "move16"}
        /\ \A x \in 1..Len(Code) : \/ op'[x] = op[x]
                                   \/ x = contents[a + 1][1] \/ x = contents[a + 3][1]
  BY ShortenSlotDeletes
<1>2. PICK b, c, x, y : /\ b = a + 3 /\ b + 1 = a + 4 /\ c = a + 2 /\ c + 1 = a + 3
                        /\ x = contents[a + 1][1] /\ y = contents[a + 3][1]
  OBVIOUS
<1>3. /\ Deletion(b, 1, relocs) /\ contents[b + 1][2] = 2 /\ contents[b + 1][1] = y
      /\ contents[c] = <<x, 2>> /\ contents[c + 1][1] = y /\ contents[c + 1][2] = 1
      /\ x \in 1..Len(Code) /\ y \in 1..Len(Code)
      /\ op[x] = "jal" /\ op[y] \in {"nop32", "move32"}
      /\ op'[x] = "jals" /\ op'[y] \in {"nop", "move16"}
      /\ \A z \in 1..Len(Code) : op'[z] = op[z] \/ z = x \/ z = y
  <2>1. /\ Deletion(b, 1, relocs) /\ contents[a + 4] = <<y, 2>>
        /\ contents[a + 2] = <<x, 2>> /\ contents[a + 3][1] = y /\ contents[a + 3][2] = 1
    BY <1>1, <1>2
  <2>2. /\ x \in 1..Len(Code) /\ y \in 1..Len(Code)
        /\ op[x] = "jal" /\ op[y] \in {"nop32", "move32"}
        /\ op'[x] = "jals" /\ op'[y] \in {"nop", "move16"}
    BY <1>1, <1>2
  <2>3. \A z \in 1..Len(Code) : op'[z] = op[z] \/ z = x \/ z = y
    BY <1>1, <1>2
  <2>4. contents[b + 1] = <<y, 2>> /\ contents[c] = <<x, 2>>
        /\ contents[c + 1][1] = y /\ contents[c + 1][2] = 1
    BY <1>2, <2>1
  <2>5. QED
    BY <2>1, <2>2, <2>3, <2>4
<1>4. Len(Code) \in Nat /\ Len(contents) \in Nat
      /\ c \in 1..Len(contents) /\ c + 1 \in 1..Len(contents)
  BY <1>1, <1>2, CodeType, HalfwordFacts DEF IInv, Shape
<1>5. ASSUME NEW m \in 1..(Len(Code) - 1), op'[m] \in Slots
      PROVE  /\ op'[m] = "jal" => Size(op'[m + 1]) = Size(op[m + 1])
             /\ op'[m] = "jals" /\ op[m] = "jal" => Size(op'[m + 1]) = 2
  <2>1. PICK i \in 1..Len(Code) : i = m + 1
    BY <1>4
  <2>2. m \in 1..Len(Code)
    BY <1>4
  <2>3. Present(m)
    BY <1>3, <1>5, <2>2, SlotOps
  <2>4. ASSUME op'[m] = "jal"
        PROVE  Size(op'[i]) = Size(op[i])
    <3>1. i # y
      <4>1. SUFFICES ASSUME i = y PROVE FALSE
        OBVIOUS
      <4>2. PICK j \in 1..Len(contents) : j = c + 1 /\ j - 1 = c
        BY <1>4
      <4>3. contents[j - 1][1] = m
        BY <1>3, <2>1, <2>2, <2>3, <4>1, <4>2, PrevHalf
      <4>4. QED
        BY <1>3, <2>4, <4>2, <4>3
    <3>2. QED
      BY <1>3, <3>1, SameSizes
  <2>5. ASSUME op'[m] = "jals", op[m] = "jal"
        PROVE  Size(op'[i]) = 2
    <3>1. m = x
      BY <1>3, <2>2, <2>5
    <3>2. Present(m + 1)
      BY <2>5 DEF DelaySlotsKept, Code, Slot32
    <3>3. contents[c + 1][1] = m + 1
      BY <1>3, <1>4, <3>1, <3>2, NextInsn
    <3>4. QED
      BY <1>3, <2>1, <3>3 DEF Size, Op16
  <2>6. QED
    BY <2>1, <2>4, <2>5
<1>6. QED
  BY <1>3, <1>5, SlotsStay

-----------------------------------------------------------------------------
(***************************************************************************)
(* High halves.                                                            *)
(***************************************************************************)
\* The HI16s before a LO16 against its symbol.
HisOf(k) == {j \in 1..(k - 1) : Origin(j) = "HI16" /\ relocs[j].sym = relocs[k].sym}

\* HiOf is the last of them, if there are any.
LEMMA HiOfFacts ==
  ASSUME IInv, NEW k \in 1..Len(relocs)
  PROVE  /\ HiOf(k) # 0 => HiOf(k) \in HisOf(k) /\ \A j \in HisOf(k) : j <= HiOf(k)
         /\ HisOf(k) # {} => HiOf(k) # 0
<1>1. HiOf(k) = IF HisOf(k) = {} THEN 0 ELSE Max(HisOf(k))
  BY DEF HiOf, HisOf, Origin, Code
<1>2. ASSUME HisOf(k) # {}
      PROVE  Max(HisOf(k)) \in HisOf(k) /\ \A j \in HisOf(k) : j <= Max(HisOf(k))
  <2>1. k - 1 \in Int
    BY StateTypes
  <2>2. IsFiniteSet(1..(k - 1)) /\ 1..(k - 1) \subseteq Int
    BY <2>1, FiniteInterval, 1 \in Int
  <2>3. HisOf(k) \in SUBSET (1..(k - 1))
    BY DEF HisOf
  <2>4. PICK m \in HisOf(k) : \A j \in HisOf(k) : j <= m
    BY <1>2, <2>2, <2>3, Extremes
  <2>5. \A j \in HisOf(k) : j \in Int /\ m >= j
    BY <2>2, <2>3, <2>4
  <2>6. Max(HisOf(k)) \in HisOf(k) /\ \A j \in HisOf(k) : Max(HisOf(k)) >= j
    BY <2>5 DEF Max
  <2>7. QED
    BY <2>5, <2>6
<1>3. \A j \in HisOf(k) : j # 0
  BY DEF HisOf
<1>4. QED
  BY <1>1, <1>2, <1>3

\* Deleting moves no relocation to another instruction.
LEMMA HiOfStays ==
  ASSUME IInv, NEW a, NEW n, NEW rels, Deletion(a, n, rels), NEW k \in 1..Len(relocs)
  PROVE  HiOf(k)' = HiOf(k)
<1>1. \A j \in 1..Len(relocs) : /\ relocs'[j].insn = relocs[j].insn
                                /\ relocs'[j].sym = relocs[j].sym
  BY DeletedState
<1>2. section' = section /\ Len(relocs) \in Nat
  BY StateTypes, DeletedState
<1>3. \A j \in 1..(k - 1) : j \in 1..Len(relocs)
  BY <1>2
<1>4. {j \in 1..(k - 1) : /\ section'.code[relocs'[j].insn].type = "HI16"
                          /\ relocs'[j].sym = relocs'[k].sym}
        = {j \in 1..(k - 1) : /\ section.code[relocs[j].insn].type = "HI16"
                              /\ relocs[j].sym = relocs[k].sym}
  BY <1>1, <1>2, <1>3
<1>5. QED
  BY <1>4 DEF HiOf

\* Between two LO16s against one symbol there is another HI16.
LEMMA HiBetween ==
  ASSUME IInv, OwnHi(section), NEW j \in 1..Len(relocs), NEW k \in 1..Len(relocs), j < k,
         Origin(j) = "LO16", Origin(k) = "LO16", relocs[j].sym = relocs[k].sym
  PROVE  \E h \in HisOf(k) : j < h
<1> DEFINE rs == RelocsOf(Code)
<1>1. Code \in Seq(Insn) /\ Len(relocs) = Len(rs) /\ Len(relocs) \in Nat
  BY CodeType, StateTypes DEF IInv, Shape
<1>2. \A i \in 1..Len(relocs) : rs[i].insn = relocs[i].insn /\ rs[i].sym = relocs[i].sym
  BY DEF IInv, Named
<1>3. \A i \in 1..Len(relocs) : rs[i].type = Code[rs[i].insn].type
  BY <1>1, RelocsFacts
<1>4. \A i \in 1..Len(relocs) : rs[i].type = Origin(i)
  BY <1>2, <1>3 DEF Origin
<1>5. DOMAIN rs = 1..Len(relocs)
  BY <1>1, RelocsFacts
<1>6. \A x, y \in DOMAIN rs :
        (/\ x < y /\ rs[x].type = "LO16" /\ rs[x].sym = rs[y].sym
         /\ rs[y].type = "LO16" /\ rs[y].sym = rs[y].sym)
          => \E h \in (x + 1)..(y - 1) : rs[h].type = "HI16" /\ rs[h].sym = rs[y].sym
  BY DEF OwnHi, Code
<1> HIDE DEF rs
<1>7. \E h \in (j + 1)..(k - 1) : rs[h].type = "HI16" /\ rs[h].sym = rs[k].sym
  BY <1>2, <1>4, <1>5, <1>6
<1>8. \A h \in (j + 1)..(k - 1) : h \in 1..Len(relocs) /\ h \in 1..(k - 1) /\ j < h
  BY <1>1
<1>9. QED
  BY <1>2, <1>4, <1>7, <1>8 DEF HisOf

\* No LO16 but the one that is changed loses its LUI.
LEMMA HiKeptStays ==
  ASSUME IInv, FormsHold, HiKept, Assembled(section), OwnHi(section), irel \in 1..Len(relocs),
         NEW a, NEW n, NEW rels, Relaxed(a, n, rels),
         rels[irel].type = "NONE" =>
           /\ irel + 1 \in 1..Len(relocs) /\ relocs[irel + 1].type = "LO16"
           /\ relocs[irel + 1].sym = relocs[irel].sym
           /\ rels[irel + 1].type # "LO16"
  PROVE  HiKept'
<1>1. Deletion(a, n, rels) /\ Retypes /\ Len(relocs) \in Nat
  BY StateTypes DEF Relaxed, FormsHold
<1>2. Len(relocs') = Len(relocs)
  BY <1>1, DeletedState
<1>3. SUFFICES ASSUME NEW k \in 1..Len(relocs), relocs'[k].type = "LO16", HiOf(k)' # 0
               PROVE  Present(relocs[HiOf(k)].insn)'
  BY <1>2 DEF HiKept
<1>4. PICK h : h = HiOf(k)
  OBVIOUS
<1>5. HiOf(k)' = h /\ h # 0
  BY <1>1, <1>3, <1>4, HiOfStays
<1>6. h \in HisOf(k) /\ \A j \in HisOf(k) : j <= h
  BY <1>4, <1>5, HiOfFacts
<1>7. h \in 1..Len(relocs) /\ h < k /\ Origin(h) = "HI16" /\ relocs[h].sym = relocs[k].sym
  BY <1>1, <1>6 DEF HisOf
<1>8. relocs[k].type = "LO16" /\ rels[k].type = "LO16"
  <2>1. rels[k].type = "LO16"
    BY <1>1, <1>3, DeletedTypes
  <2>2. QED
    BY <2>1 DEF Relaxed, Retyped
<1>9. Present(relocs[h].insn)
  BY <1>4, <1>5, <1>8 DEF HiKept
<1>10. ~(h = irel /\ rels[h].type = "NONE")
  <2>1. SUFFICES ASSUME h = irel, rels[h].type = "NONE" PROVE FALSE
    OBVIOUS
  <2>2. PICK j \in 1..Len(relocs) : j = h + 1 /\ relocs[j].type = "LO16"
                                    /\ relocs[j].sym = relocs[h].sym /\ rels[j].type # "LO16"
    BY <2>1
  <2>3. j < k /\ relocs[j].sym = relocs[k].sym
    BY <1>1, <1>7, <1>8, <2>2
  <2>4. Origin(j) = "LO16" /\ Origin(k) = "LO16"
    BY <1>1, <1>8, <2>2, TypeOrigin
  <2>5. PICK i \in HisOf(k) : j < i
    BY <2>3, <2>4, HiBetween
  <2>6. i <= h /\ i \in Nat
    BY <1>6, <2>5 DEF HisOf
  <2>7. QED
    BY <1>7, <2>2, <2>5, <2>6
<1>11. Present(relocs[h].insn)'
  BY <1>7, <1>9, <1>10, HiDropped
<1>12. QED
  BY <1>5, <1>11 DEF Present

\* As assembled, every delay slot and every LUI is there.
LEMMA InitSlots ==
  ASSUME Init, Assembled(section)
  PROVE  DelaySlotsKept /\ HiKept
<1>1. IInv /\ Len(Code) \in Nat
  BY InitInv, CodeType DEF IInv
<1>2. \A n \in 1..Len(Code) : Present(n) /\ op[n] = Code[n].op
  BY InitPresent
<1>3. DelaySlotsKept
  <2>1. SUFFICES ASSUME NEW m \in 1..(Len(Code) - 1)
                 PROVE  /\ Present(m + 1)
                        /\ op[m] = "jal" => Size(op[m + 1]) = 4
                        /\ op[m] = "jals" => Size(op[m + 1]) = 2
    BY DEF DelaySlotsKept, Code
  <2>2. m \in 1..Len(Code) /\ m + 1 \in 1..Len(Code) /\ m < Len(Code)
    BY <1>1
  <2>3. /\ Code[m].op = "jal" => Code[m + 1].op \in Op32 \ {"b", "beqz"}
        /\ Code[m].op = "jals" => Code[m + 1].op \in Op16
    BY <2>2 DEF Assembled, Code
  <2>4. \A o \in Op32 : Size(o) = 4
    BY DEF Op32, Op16, Size
  <2>5. \A o \in Op16 : Size(o) = 2
    BY DEF Size
  <2>6. QED
    BY <1>2, <2>2, <2>3, <2>4, <2>5
<1>4. HiKept
  <2>1. SUFFICES ASSUME NEW k \in 1..Len(relocs), HiOf(k) # 0
                 PROVE  Present(relocs[HiOf(k)].insn)
    BY DEF HiKept
  <2>2. HiOf(k) \in 1..Len(relocs)
    <3>1. HiOf(k) \in HisOf(k) /\ Len(relocs) \in Nat
      BY <1>1, <2>1, HiOfFacts, StateTypes
    <3>2. QED
      BY <3>1 DEF HisOf
  <2>3. PICK h \in 1..Len(relocs) : h = HiOf(k)
    BY <2>2
  <2>4. relocs[h].insn \in 1..Len(Code)
    BY <1>1, OriginFacts
  <2>5. QED
    BY <1>2, <2>3, <2>4
<1>5. QED
  BY <1>3, <1>4

\* What is neither judged nor deleted stays.
LEMMA SameSlots ==
  ASSUME DelaySlotsKept, HiKept, UNCHANGED <<section, op, contents, relocs, value>>
  PROVE  DelaySlotsKept' /\ HiKept'
<1>1. \A k : HiOf(k)' = HiOf(k)
  BY DEF HiOf
<1>2. \A n : Present(n)' <=> Present(n)
  BY DEF Present
<1>3. DelaySlotsKept'
  BY <1>2 DEF DelaySlotsKept
<1>4. HiKept'
  <2>1. SUFFICES ASSUME NEW k \in 1..Len(relocs), relocs[k].type = "LO16", HiOf(k) # 0
                 PROVE  Present(relocs[HiOf(k)].insn)
    BY <1>1, <1>2 DEF HiKept
  <2>2. QED
    BY <2>1 DEF HiKept
<1>5. QED
  BY <1>3, <1>4

\* Every step keeps delay slots and LUIs.
LEMMA StepSlots ==
  ASSUME IInv, FormsHold, DelaySlotsKept, HiKept, Assembled(section), OwnHi(section), [Next]_vars
  PROVE  DelaySlotsKept' /\ HiKept'
<1>1. Len(relocs) \in Nat /\ irel \in 1..(Len(relocs) + 1)
  BY DEF IInv, Shape
<1>2. ASSUME Relax
      PROVE  DelaySlotsKept' /\ HiKept'
  <2>1. irel \in 1..Len(relocs)
    BY <1>1, <1>2 DEF Relax
  <2>2. ASSUME DropLui
        PROVE  DelaySlotsKept' /\ HiKept'
    <3>1. DelaySlotsKept'
      BY <2>1, <2>2, DropLuiSlots
    <3>2. PICK a, rels :
            /\ Relaxed(a, 2, rels)
            /\ \A k \in 1..Len(relocs) : rels[k].type = IF k = irel THEN "NONE"
                                                        ELSE IF k = irel + 1 THEN LoForm(irel)
                                                        ELSE relocs[k].type
      BY <2>1, <2>2, DropLuiRelaxes
    <3>3. /\ irel + 1 \in 1..Len(relocs) /\ relocs[irel + 1].type = "LO16"
          /\ relocs[irel + 1].sym = relocs[irel].sym /\ LoForm(irel) # "LO16"
      BY <1>1, <2>1, <2>2 DEF DropLui, CanDropLui, IsPair, IsLo, LoForm
    <3>4. rels[irel + 1].type # "LO16"
      BY <1>1, <2>1, <3>2, <3>3
    <3>5. QED
      BY <2>1, <3>1, <3>2, <3>3, <3>4, HiKeptStays
  <2>3. ASSUME CompactBranch
        PROVE  DelaySlotsKept' /\ HiKept'
    <3>1. DelaySlotsKept'
      BY <2>1, <2>3, CompactBranchSlots
    <3>2. PICK a \in Nat : /\ Deletion(a + 2, 1, relocs) /\ relocs[irel].type = "PC16"
                           /\ op[contents[a + 3][1]] = "nop"
      BY <2>1, <2>3, CompactBranchDeletes
    <3>3. PICK b, rels : b = a + 2 /\ b + 1 = a + 3 /\ rels = relocs
      OBVIOUS
    <3>4. Relaxed(b, 1, rels) /\ rels[irel].type # "NONE"
      BY <3>2, <3>3 DEF Relaxed
    <3>5. QED
      BY <2>1, <3>1, <3>4, HiKeptStays
  <2>4. ASSUME ShortenBranch
        PROVE  DelaySlotsKept' /\ HiKept'
    <3>1. DelaySlotsKept'
      BY <2>1, <2>4, ShortenBranchSlots
    <3>2. PICK b, rels : Relaxed(b, 1, rels) /\ rels[irel].type # "NONE"
      BY <2>1, <2>4, ShortenBranchRelaxes
    <3>3. QED
      BY <2>1, <3>1, <3>2, HiKeptStays
  <2>5. ASSUME ShortenSlot
        PROVE  DelaySlotsKept' /\ HiKept'
    <3>1. DelaySlotsKept'
      BY <2>1, <2>5, ShortenSlotSlots
    <3>2. PICK a \in Nat : /\ Deletion(a + 3, 1, relocs) /\ relocs[irel].type = "26"
                           /\ contents[a + 4] = <<contents[a + 3][1], 2>>
      BY <2>1, <2>5, ShortenSlotDeletes
    <3>3. PICK b, rels : b = a + 3 /\ b + 1 = a + 4 /\ rels = relocs
      OBVIOUS
    <3>4. Relaxed(b, 1, rels) /\ rels[irel].type # "NONE"
      BY <3>2, <3>3 DEF Relaxed
    <3>5. QED
      BY <2>1, <3>1, <3>4, HiKeptStays
  <2>6. CASE Keep
    BY <2>6, SameSlots DEF Keep
  <2>7. QED
    BY <1>2, <2>2, <2>3, <2>4, <2>5, <2>6 DEF Relax
<1>3. CASE EndPass
  BY <1>3, SameSlots DEF EndPass
<1>4. CASE UNCHANGED vars
  BY <1>4, SameSlots DEF vars
<1>5. QED
  BY <1>2, <1>3, <1>4 DEF Next

\* What the invariants say of the code.
LEMMA InvMeaningKept ==
  ASSUME IInv, FormsHold, DelaySlotsKept, HiKept
  PROVE  MeaningKept
<1>1. DOMAIN relocs = 1..Len(relocs)
  BY StateTypes
<1>2. \A k \in 1..Len(relocs) : AddressFits(relocs[k])
  BY DEF FormsHold, Fits
<1>3. AddressesKept
  BY <1>1, <1>2 DEF AddressesKept, AddressFits, HiKept
<1>4. QED
  BY <1>3 DEF MeaningKept

\* The code still does what it did.  Jumps keep the instruction in their delay slot,
\* in the width that they ask for; a LO16 has its LUI, or reaches its address alone.
THEOREM RelaxationKeepsMeaning ==
  ASSUME \A s \in Sections : Assembled(s) /\ NothingBehind(s) /\ OwnHi(s)
  PROVE  Spec => []MeaningKept
<1>1. Init => /\ IInv /\ FormsHold
              /\ DelaySlotsKept /\ HiKept
  BY InitInv, InitForms, InitSlots DEF Init
<1>2. IInv => Assembled(section) /\ NothingBehind(section) /\ OwnHi(section)
  BY DEF IInv, Shape
<1>3. IInv /\ FormsHold /\ [Next]_vars => FormsHold'
  BY <1>2, StepForms
<1>4. IInv /\ FormsHold /\ (DelaySlotsKept /\ HiKept) /\ [Next]_vars => (DelaySlotsKept /\ HiKept)'
  BY <1>2, StepSlots
<1>5. IInv /\ FormsHold /\ DelaySlotsKept /\ HiKept => MeaningKept
  BY InvMeaningKept
<1>6. QED
  BY <1>1, <1>3, <1>4, <1>5, Invariance, PTL DEF Spec

=============================================================================
