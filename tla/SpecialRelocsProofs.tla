------------------------ MODULE SpecialRelocsProofs ------------------------
(***************************************************************************)
(* Proofs about SpecialRelocs, for every link and all widths of fields.    *)
(* First arithmetic: what remains of a pair and of a branch when their     *)
(* fields are cut to their widths.  Then the order of things: which site   *)
(* waits on mips_hi16_list, for which low part, and what each site holds   *)
(* once it has been relocated.                                             *)
(***************************************************************************)
EXTENDS SpecialRelocs, SumTheorems

(***************************************************************************)
(* Division with remainder.                                                *)
(***************************************************************************)
LEMMA DivMod ==
  ASSUME NEW x \in Int, NEW n \in Nat \ {0}
  PROVE  /\ x \div n \in Int /\ x % n \in 0..(n - 1)
         /\ x = n * (x \div n) + (x % n)
OBVIOUS

\* A multiple of n that is less than n in size is none.
LEMMA SmallMultiple ==
  ASSUME NEW d \in Int, NEW n \in Nat \ {0}, -n < n * d, n * d < n
  PROVE  d = 0
<1>1. CASE d >= 1
  <2>1. n * d >= n * 1
    BY <1>1
  <2>2. QED
    BY <2>1
<1>2. CASE d <= -1
  <2>1. n * d <= n * (-1)
    BY <1>2
  <2>2. QED
    BY <2>1
<1>3. QED
  BY <1>1, <1>2

\* Quotient and remainder are determined by what they make.
LEMMA ModUnique ==
  ASSUME NEW x \in Int, NEW n \in Nat \ {0}, NEW k \in Int, NEW r \in 0..(n - 1),
         x = n * k + r
  PROVE  x \div n = k /\ x % n = r
<1> DEFINE q == x \div n
           m == x % n
<1>1. q \in Int /\ m \in 0..(n - 1) /\ x = n * q + m
  BY DivMod
<1> HIDE DEF q, m
<1>2. n * (q - k) = r - m
  <2>1. n * (q - k) = n * q - n * k
    BY <1>1
  <2>2. QED
    BY <1>1, <2>1
<1>3. q - k = 0
  BY <1>1, <1>2, SmallMultiple
<1>4. q = k /\ m = r
  BY <1>1, <1>3
<1>5. QED
  BY <1>4 DEF q, m

\* Multiples of n do not count.
LEMMA ModShift ==
  ASSUME NEW x \in Int, NEW n \in Nat \ {0}, NEW k \in Int
  PROVE  (x + n * k) % n = x % n
<1> DEFINE q == x \div n
           m == x % n
<1>1. q \in Int /\ m \in 0..(n - 1) /\ x = n * q + m
  BY DivMod
<1> HIDE DEF q, m
<1>2. x + n * k = n * (q + k) + m
  BY <1>1
<1>3. x + n * k \in Int /\ q + k \in Int
  BY <1>1
<1>4. (x + n * k) % n = m
  BY <1>1, <1>2, <1>3, ModUnique
<1>5. QED
  BY <1>4 DEF m

-----------------------------------------------------------------------------
(***************************************************************************)
(* The halves of an address.  L and H are the spans of the low and of the  *)
(* high field, v the address of the symbol, ah and al the addends.         *)
(***************************************************************************)
\* What the two fields make, and what they should.
Made(v, ah, al, L, H) == ((ah + (v \div L)) % H) * L + ((al + v) % L)

Target(v, ah, al, L, H) == (v + ah * L + al) % (L * H)

LEMMA PairArithmetic ==
  ASSUME NEW L \in Nat \ {0}, NEW H \in Nat \ {0}, NEW v \in Int, NEW ah \in Int,
         NEW al \in Int
  PROVE  Made(v, ah, al, L, H) = (Target(v, ah, al, L, H) - Carry(v, al, L)) % (L * H)
<1> DEFINE q == v \div L
           low == (v % L) + al
           m == low % L
           k == (ah + q) \div H
           f == (ah + q) % H
           N == L * H
           t == v + ah * L + al
           j == t \div N
<1>1. q \in Int /\ v % L \in 0..(L - 1) /\ v = L * q + (v % L)
  BY DivMod
<1>2. low \in Int /\ v + al = low + L * q
  BY <1>1
<1>3. N \in Nat \ {0}
  <2>1. L * H >= L * 1
    OBVIOUS
  <2>2. QED
    BY <2>1
<1>4. t \in Int /\ t = L * (ah + q) + low
  <2>1. L * (ah + q) = L * ah + L * q /\ ah * L = L * ah
    BY <1>1
  <2>2. t \in Int
    OBVIOUS
  <2>3. QED
    BY <1>1, <1>2, <2>1, <2>2
<1> HIDE DEF q, low, N, t
<1>5. (al + v) % L = m
  <2>1. al + v = low + L * q
    BY <1>2
  <2>2. (low + L * q) % L = low % L
    BY <1>1, <1>2, ModShift
  <2>3. QED
    BY <2>1, <2>2
<1>6. m \in 0..(L - 1)
  BY <1>2, DivMod
<1>7. k \in Int /\ f \in 0..(H - 1) /\ ah + q = H * k + f
  BY <1>1, DivMod
<1>8. j \in Int /\ t % N \in 0..(N - 1) /\ t = N * j + (t % N)
  BY <1>3, <1>4, DivMod
<1> HIDE DEF k, f, m, j
<1>9. L * (ah + q) = N * k + L * f
  <2>1. L * (H * k + f) = (L * H) * k + L * f
    BY <1>7
  <2>2. QED
    BY <1>7, <2>1 DEF N
<1>10. (t % N) - (low - m) = N * (k - j) + (L * f + m)
  <2>1. N * (k - j) = N * k - N * j
    BY <1>3, <1>7, <1>8
  <2>2. N * k \in Int /\ N * j \in Int /\ L * f \in Int /\ t % N \in Int /\ m \in Int
    BY <1>3, <1>6, <1>7, <1>8
  <2> DEFINE a == N * k
             b == N * j
             c == L * f
             d == t % N
             e == N * (k - j)
             g == L * (ah + q)
  <2>3. a \in Int /\ b \in Int /\ c \in Int /\ d \in Int
    BY <2>2
  <2>4. e = a - b
    BY <2>1
  <2>5. g = a + c
    BY <1>9
  <2>6. t = b + d
    BY <1>8
  <2>7. t = g + low
    BY <1>4
  <2> HIDE DEF a, b, c, d, e, g
  <2>8. d - (low - m) = e + (c + m)
    BY <1>2, <2>2, <2>3, <2>4, <2>5, <2>6, <2>7
  <2>9. QED
    BY <2>8 DEF c, d, e
<1>11. L * f + m \in 0..(N - 1)
  <2>1. L * f <= L * (H - 1) /\ L * f >= 0 /\ L * f \in Int
    BY <1>7
  <2>2. L * (H - 1) = N - L
    BY DEF N
  <2>3. QED
    BY <1>3, <1>6, <2>1, <2>2
<1>12. ((t % N) - (low - m)) % N = L * f + m
  <2>1. (t % N) - (low - m) \in Int /\ k - j \in Int
    BY <1>2, <1>6, <1>7, <1>8
  <2>2. QED
    BY <1>3, <1>10, <1>11, <2>1, ModUnique
<1>13. f * L = L * f
  BY <1>7
<1>14. QED
  BY <1>5, <1>12, <1>13 DEF Carry, Made, Target, q, low, N, t, k, f, m

-----------------------------------------------------------------------------
(***************************************************************************)
(* Displacements.  Signed takes a number into the range that Fits tests.   *)
(***************************************************************************)
LEMMA SignedIs ==
  ASSUME NEW n \in Int, NEW span \in Nat \ {0}
  PROVE  \E k \in Int : Signed(n, span) = n - span * k /\ Fits(Signed(n, span), span)
<1> DEFINE q == n \div span
           m == n % span
<1>1. q \in Int /\ m \in 0..(span - 1) /\ n = span * q + m
  BY DivMod
<1>2. Signed(n, span) = IF 2 * m < span THEN m ELSE m - span
  BY DEF Signed
<1> HIDE DEF q, m
<1>3. CASE 2 * m < span
  <2>1. Signed(n, span) = n - span * q /\ Fits(Signed(n, span), span)
    BY <1>1, <1>2, <1>3 DEF Fits
  <2>2. QED
    BY <1>1, <2>1
<1>4. CASE ~(2 * m < span)
  <2>1. Signed(n, span) = m - span
    BY <1>2, <1>4
  <2>2. span * (q + 1) = span * q + span
    BY <1>1
  <2>3. Signed(n, span) = n - span * (q + 1)
    BY <1>1, <2>1, <2>2
  <2>4. Fits(Signed(n, span), span)
    BY <1>1, <1>4, <2>1 DEF Fits
  <2> DEFINE k == q + 1
  <2>5. k \in Int /\ Signed(n, span) = n - span * k
    BY <1>1, <2>3
  <2> HIDE DEF k
  <2>6. QED
    BY <2>4, <2>5
<1>5. QED
  BY <1>3, <1>4

LEMMA SignedUnique ==
  ASSUME NEW n \in Int, NEW span \in Nat \ {0}, NEW k \in Int, NEW x \in Int,
         x = n - span * k, Fits(x, span)
  PROVE  Signed(n, span) = x
<1>1. CASE x >= 0
  <2>1. x \in 0..(span - 1) /\ n = span * k + x
    BY <1>1 DEF Fits
  <2>2. n % span = x
    BY <2>1, ModUnique
  <2>3. QED
    BY <2>2 DEF Signed, Fits
<1>2. CASE x < 0
  <2>1. x + span \in 0..(span - 1)
    BY <1>2 DEF Fits
  <2>2. span * (k - 1) = span * k - span /\ k - 1 \in Int
    OBVIOUS
  <2>3. n = span * (k - 1) + (x + span)
    BY <2>2
  <2>4. n % span = x + span
    BY <2>1, <2>2, <2>3, ModUnique
  <2>5. ~(2 * (x + span) < span)
    BY <1>2 DEF Fits
  <2>6. QED
    BY <2>4, <2>5 DEF Signed
<1>3. QED
  BY <1>1, <1>2

(***************************************************************************)
(* A branch at p to v, both multiples of the unit, with addend w in a      *)
(* field of B values, in an address space of A.                            *)
(***************************************************************************)
LEMMA BranchArithmetic ==
  ASSUME NEW A \in Nat \ {0}, NEW B \in Nat \ {0}, NEW U \in Nat \ {0}, A % (U * B) = 0,
         NEW v \in Int, NEW p \in Int, v % U = 0, p % U = 0, NEW w \in Int,
         Fits((Signed(v - p, A) \div U) + Signed(w, B), B)
  PROVE  (p + U * Signed((w + ((v - p) \div U)) % B, B)) % A = (v + U * Signed(w, B)) % A
<1> DEFINE d == (v - p) \div U
           c == A \div (U * B)
           a == Signed(v - p, A) \div U
           b == Signed(w, B)
           f == (w + d) % B
<1>1. d \in Int /\ v - p = U * d
  <2> DEFINE x == v \div U
             y == p \div U
  <2>1. x \in Int /\ v = U * x
    BY DivMod
  <2>2. y \in Int /\ p = U * y
    BY DivMod
  <2> HIDE DEF x, y
  <2>3. v - p = U * (x - y) + 0 /\ x - y \in Int
    BY <2>1, <2>2
  <2>4. d = x - y
    BY <2>3, ModUnique
  <2>5. QED
    BY <2>3, <2>4
<1>2. c \in Int /\ A = U * (B * c)
  <2>1. U * B \in Nat \ {0}
    <3>1. U * B >= U * 1
      OBVIOUS
    <3>2. QED
      BY <3>1
  <2>2. c \in Int /\ A = (U * B) * c
    <3> DEFINE n == U * B
    <3>1. n \in Nat \ {0} /\ A % n = 0 /\ c = A \div n
      BY <2>1
    <3> HIDE DEF n, c
    <3>2. c \in Int /\ A = n * c
      BY <3>1, DivMod
    <3>3. QED
      BY <3>2 DEF n
  <2> HIDE DEF c
  <2>3. (U * B) * c = U * (B * c)
    BY <2>2
  <2>4. QED
    BY <2>2, <2>3
<1>3. PICK j \in Int : Signed(v - p, A) = v - p - A * j
  <2> DEFINE n == v - p
  <2>1. n \in Int
    OBVIOUS
  <2> HIDE DEF n
  <2>2. \E j \in Int : Signed(n, A) = n - A * j
    BY <2>1, SignedIs
  <2>3. QED
    BY <2>2 DEF n
<1>4. PICK i \in Int : b = w - B * i
  BY SignedIs
<1> HIDE DEF d, c
<1>5. a = d - B * (c * j) /\ a \in Int
  <2>1. U * (d - B * (c * j)) = U * d - (U * (B * c)) * j
    BY <1>1, <1>2
  <2>2. Signed(v - p, A) = U * (d - B * (c * j)) + 0
    BY <1>1, <1>2, <1>3, <2>1
  <2>3. d - B * (c * j) \in Int /\ Signed(v - p, A) \in Int
    BY <1>1, <1>2, <1>3
  <2>4. QED
    BY <2>2, <2>3, ModUnique
<1>6. b \in Int /\ Fits(a + b, B)
  BY <1>4
<1> HIDE DEF a, b
<1> DEFINE k == (w + d) \div B
<1>7. k \in Int /\ f \in Int /\ f = w + d - B * k
  <2>1. w + d \in Int
    BY <1>1
  <2>2. k \in Int /\ f \in 0..(B - 1) /\ w + d = B * k + f
    BY <2>1, DivMod
  <2> HIDE DEF k, f
  <2>3. QED
    BY <1>1, <2>2
<1> HIDE DEF k, f
<1>8. a + b = f - B * (c * j + i - k)
  <2>1. B * (c * j + i - k) = B * (c * j) + B * i - B * k
    BY <1>2, <1>7
  <2> DEFINE r == B * (c * j)
             s == B * i
             t == B * k
             u == B * (c * j + i - k)
  <2>2. r \in Int /\ s \in Int /\ t \in Int
    BY <1>2, <1>7
  <2>3. u = r + s - t
    BY <2>1
  <2>4. a = d - r
    BY <1>5
  <2>5. b = w - s
    BY <1>4
  <2>6. f = w + d - t
    BY <1>7
  <2> HIDE DEF r, s, t, u
  <2>7. a + b = f - u
    BY <1>1, <2>2, <2>3, <2>4, <2>5, <2>6
  <2>8. QED
    BY <2>7 DEF u
<1>9. Signed(f, B) = a + b
  <2>1. c * j + i - k \in Int /\ a + b \in Int
    BY <1>2, <1>5, <1>6, <1>7
  <2>2. QED
    BY <1>6, <1>7, <1>8, <2>1, SignedUnique
<1>10. p + U * (a + b) = (v + U * b) + A * (-j)
  <2>1. U * (a + b) = U * a + U * b
    BY <1>5, <1>6
  <2>2. U * a = U * d - A * j
    <3>1. U * (d - B * (c * j)) = U * d - (U * (B * c)) * j
      BY <1>1, <1>2
    <3>2. QED
      BY <1>2, <1>5, <3>1
  <2>3. A * (-j) = -(A * j)
    OBVIOUS
  <2> DEFINE x == U * a
             y == U * b
             z == A * j
             s == U * (a + b)
             t == A * (-j)
  <2>4. x \in Int /\ y \in Int /\ z \in Int /\ s \in Int /\ t \in Int
    BY <1>5, <1>6
  <2>5. s = x + y
    BY <2>1
  <2>6. x = (v - p) - z
    BY <1>1, <2>2
  <2>7. t = -z
    BY <2>3
  <2> HIDE DEF x, y, z, s, t
  <2>8. p + s = (v + y) + t
    BY <2>4, <2>5, <2>6, <2>7
  <2>9. QED
    BY <2>8 DEF s, t, y
<1>11. (v + U * b + A * (-j)) % A = (v + U * b) % A
  <2>1. v + U * b \in Int /\ -j \in Int
    BY <1>6
  <2>2. QED
    BY <2>1, ModShift
<1>12. QED
  BY <1>9, <1>10, <1>11 DEF f, d, b

-----------------------------------------------------------------------------
(***************************************************************************)
(* The howto table.                                                        *)
(***************************************************************************)
LEMMA TypeNames ==
  Types = {"R_MIPS_HI16", "R_MIPS_LO16", "R_MIPS_26", "R_MIPS_PC16", "R_MIPS_GOT16",
           "R_MIPS16_HI16", "R_MIPS16_LO16", "R_MIPS16_GOT16"}
BY DEF Types, elf_mips_howto_table_rel, elf_mips16_howto_table_rel

LEMMA HowtoRows ==
  /\ Howto["R_MIPS_HI16"] = Row(LoSpan, HiSpan, FALSE, FALSE, "generic")
  /\ Howto["R_MIPS_LO16"] = Row(1, LoSpan, FALSE, FALSE, "generic")
  /\ Howto["R_MIPS_26"] = Row(WordSize, CallSpan, FALSE, FALSE, "generic")
  /\ Howto["R_MIPS_PC16"] = Row(WordSize, BranchSpan, TRUE, TRUE, "generic")
  /\ Howto["R_MIPS_GOT16"] = Row(1, HalfSpan, TRUE, FALSE, "got16")
  /\ Howto["R_MIPS16_HI16"] = Row(HalfSpan, HalfSpan, FALSE, FALSE, "hi16")
  /\ Howto["R_MIPS16_LO16"] = Row(1, HalfSpan, FALSE, FALSE, "lo16")
  /\ Howto["R_MIPS16_GOT16"] = Row(1, HalfSpan, FALSE, FALSE, "got16")
BY TypeNames DEF Howto, elf_mips_howto_table_rel, elf_mips16_howto_table_rel, HighRow

LEMMA HighHowtoRows ==
  /\ HighHowto("R_MIPS_GOT16") = Howto["R_MIPS_HI16"]
  /\ HighHowto("R_MIPS16_GOT16") = Howto["R_MIPS16_HI16"]
  /\ \A type \in Types : type \notin {"R_MIPS_GOT16", "R_MIPS16_GOT16"} =>
       HighHowto(type) = Howto[type]
BY DEF HighHowto

\* A divisor of the address space fits into it.
LEMMA DivisorFits ==
  ASSUME NEW A \in Nat \ {0}, NEW U \in Nat \ {0}, NEW B \in Nat \ {0}, A % (U * B) = 0
  PROVE  B <= A
<1>1. U * B >= B
  <2>1. U * B >= 1 * B
    OBVIOUS
  <2>2. QED
    BY <2>1
<1> DEFINE n == U * B
           q == A \div n
<1>2. n \in Nat \ {0} /\ n >= B /\ A % n = 0
  BY <1>1
<1> HIDE DEF n
<1>3. q \in Int /\ A = n * q
  BY <1>2, DivMod
<1> HIDE DEF q
<1>4. q >= 1
  <2>1. CASE q <= 0
    <3>1. n * q <= n * 0
      BY <1>2, <1>3, <2>1
    <3>2. QED
      BY <1>2, <1>3, <3>1
  <2>2. QED
    BY <1>3, <2>1
<1>5. n * q >= n * 1
  BY <1>2, <1>3, <1>4
<1>6. QED
  BY <1>2, <1>3, <1>5

\* Every field lies within the address space, the low one of OpenISA within a
\* 16-bit field, and that one within the high one of OpenISA.
LEMMA Spans ==
  /\ AddressSpan \in Nat \ {0}
  /\ {LoSpan, HiSpan, HalfSpan, CallSpan, BranchSpan} \subseteq 1..AddressSpan
  /\ HalfSpan <= HiSpan
  /\ AddressSpan = HalfSpan * HalfSpan
  /\ AddressSpan % (WordSize * BranchSpan) = 0
<1>1. {LoSpan, HiSpan, HalfSpan, CallSpan, BranchSpan} \subseteq Nat \ {0}
      /\ AddressSpan = HalfSpan * HalfSpan /\ LoSpan <= HalfSpan
      /\ AddressSpan % (WordSize * CallSpan) = 0
      /\ AddressSpan % (WordSize * BranchSpan) = 0
  BY SpansAssumption DEF AddressSpan
<1>2. LoSpan * HiSpan >= LoSpan * 1 /\ LoSpan * HiSpan >= 1 * HiSpan
  BY <1>1
<1>3. AddressSpan \in Nat \ {0} /\ LoSpan <= AddressSpan /\ HiSpan <= AddressSpan
  BY <1>1, <1>2 DEF AddressSpan
<1>4. HalfSpan * HalfSpan >= HalfSpan * 1
  BY <1>1
<1>5. HalfSpan <= AddressSpan
  BY <1>1, <1>4
<1>6. WordSize \in Nat \ {0}
  BY DEF WordSize
<1>7. CallSpan <= AddressSpan /\ BranchSpan <= AddressSpan
  <2>1. CallSpan \in Nat \ {0} /\ BranchSpan \in Nat \ {0}
    BY <1>1
  <2>2. QED
    BY <1>1, <1>3, <1>6, <2>1, DivisorFits
<1>8. HalfSpan <= HiSpan
  <2>1. CASE HiSpan < HalfSpan
    <3>1. LoSpan * HiSpan <= HalfSpan * HiSpan
      BY <1>1
    <3>2. HalfSpan * HiSpan <= HalfSpan * (HalfSpan - 1)
      BY <1>1, <2>1
    <3>3. HalfSpan * (HalfSpan - 1) = HalfSpan * HalfSpan - HalfSpan
      BY <1>1
    <3> DEFINE a == LoSpan * HiSpan
               b == HalfSpan * HiSpan
               c == HalfSpan * HalfSpan
    <3>4. a \in Int /\ b \in Int /\ c \in Int /\ a = c /\ a <= b /\ b <= c - HalfSpan
      BY <1>1, <3>1, <3>2, <3>3 DEF AddressSpan
    <3> HIDE DEF a, b, c
    <3>5. QED
      BY <1>1, <3>4
  <2>2. QED
    BY <1>1, <2>1
<1>9. QED
  BY <1>1, <1>3, <1>5, <1>7, <1>8

\* Both howtos of a type have a unit and a span.
LEMMA HowtoSpans ==
  ASSUME NEW type \in Types
  PROVE  /\ Howto[type].span \in 1..AddressSpan /\ Howto[type].unit \in Nat \ {0}
         /\ HighHowto(type).span \in 1..AddressSpan /\ HighHowto(type).unit \in Nat \ {0}
         /\ Howto[type].span <= HighHowto(type).span
<1>1. /\ LoSpan \in 1..AddressSpan /\ HiSpan \in 1..AddressSpan
      /\ HalfSpan \in 1..AddressSpan /\ CallSpan \in 1..AddressSpan
      /\ BranchSpan \in 1..AddressSpan /\ AddressSpan \in Nat
  BY Spans
<1>2. /\ Howto[type].span \in 1..AddressSpan /\ Howto[type].unit \in Nat \ {0}
  BY <1>1, TypeNames, HowtoRows DEF Row, WordSize
<1>3. CASE type = "R_MIPS_GOT16"
  BY <1>1, <1>2, <1>3, HowtoRows, HighHowtoRows, Spans DEF Row
<1>4. CASE type = "R_MIPS16_GOT16"
  BY <1>1, <1>2, <1>4, HowtoRows, HighHowtoRows DEF Row
<1>5. CASE type \notin {"R_MIPS_GOT16", "R_MIPS16_GOT16"}
  BY <1>1, <1>2, <1>5, HighHowtoRows
<1>6. QED
  BY <1>3, <1>4, <1>5

-----------------------------------------------------------------------------
(***************************************************************************)
(* Sites.                                                                  *)
(***************************************************************************)
\* The symbol that a site refers to.
SymAt(s) == RelocAt(s).sym

\* The howto that a site is installed with.
InstallHowto(s) ==
  IF Treatment(s) = "hi16" THEN HighHowto(RelocAt(s).type) ELSE Howto[RelocAt(s).type]

LEMMA SiteFacts ==
  ASSUME link \in Links, NEW s \in Sites(link)
  PROVE  /\ s = <<s[1], s[2]>> /\ s[1] \in Nat /\ s[2] \in Nat
         /\ s[1] \in DOMAIN link.sections /\ s[2] \in 1..Len(link.sections[s[1]])
         /\ RelocAt(s).type \in Types /\ SymAt(s) \in DOMAIN link.value
         /\ AddendField(s) \in 0..(AddressSpan - 1)
         /\ AddendField(s) < Howto[RelocAt(s).type].span
         /\ Address(s) \in Int /\ Address(s) % WordSize = 0
         /\ Howto[RelocAt(s).type].pc_relative => link.value[SymAt(s)] % WordSize = 0
<1>1. PICK a \in DOMAIN link.sections : \E i \in DOMAIN link.sections[a] : s = <<a, i>>
  BY DEF Sites
<1>2. PICK i \in DOMAIN link.sections[a] : s = <<a, i>>
  BY <1>1
<1>3. /\ link.sections \in Seq(Seq(Reloc(link)))
      /\ link.base[a] \in Nat /\ link.base[a] % WordSize = 0
      /\ LET r == link.sections[a][i] IN
         /\ r.field < Howto[r.type].span
         /\ Howto[r.type].pc_relative => link.value[r.sym] % WordSize = 0
  BY LinksAssumption
<1>4. link.sections[a] \in Seq(Reloc(link)) /\ a \in Nat
  BY <1>3
<1>5. link.sections[a][i] \in Reloc(link) /\ i \in 1..Len(link.sections[a])
  BY <1>4
<1>6. s[1] = a /\ s[2] = i /\ RelocAt(s) = link.sections[a][i]
  BY <1>2 DEF RelocAt
<1>7. /\ RelocAt(s).type \in Types /\ SymAt(s) \in DOMAIN link.value
      /\ AddendField(s) \in 0..(AddressSpan - 1)
  BY <1>5, <1>6 DEF Reloc, SymAt, AddendField
<1>8. /\ AddendField(s) < Howto[RelocAt(s).type].span
      /\ Howto[RelocAt(s).type].pc_relative => link.value[SymAt(s)] % WordSize = 0
  BY <1>3, <1>6 DEF SymAt, AddendField
<1>9. Address(s) \in Int /\ Address(s) % WordSize = 0
  <2>1. Address(s) = link.base[a] + WordSize * (i - 1)
    BY <1>6 DEF Address
  <2>2. WordSize \in Nat \ {0} /\ i - 1 \in Int
    BY <1>5 DEF WordSize
  <2>3. (link.base[a] + WordSize * (i - 1)) % WordSize = link.base[a] % WordSize
    <3> DEFINE b == link.base[a]
               k == i - 1
    <3>1. b \in Int /\ k \in Int
      BY <1>3, <2>2
    <3> HIDE DEF b, k
    <3>2. (b + WordSize * k) % WordSize = b % WordSize
      BY <2>2, <3>1, ModShift
    <3>3. QED
      BY <3>2 DEF b, k
  <2>4. QED
    BY <1>3, <2>1, <2>2, <2>3
<1>10. QED
  BY <1>2, <1>4, <1>5, <1>6, <1>7, <1>8, <1>9

\* What a site holds once it has been relocated with sym.
Install(s, sym) ==
  RelocateContents(InstallHowto(s), AddendField(s), Adjustment(s, InstallHowto(s), sym))

\* The order in which sites are visited.
Before(s, l) == s[1] < l[1] \/ (s[1] = l[1] /\ s[2] < l[2])

\* The sites that drain the list, and the first of them after s.
Low(l) == l \in Sites(link) /\ Treatment(l) = "lo16"

FirstLow(s, l) ==
  /\ Low(l) /\ Before(s, l)
  /\ \A k \in Sites(link) : Low(k) /\ Before(s, k) => ~Before(k, l)

\* A step that keeps the link keeps what follows from it.
LEMMA SameLink ==
  ASSUME link' = link
  PROVE  /\ Sites(link)' = Sites(link)
         /\ \A s : /\ Treatment(s)' = Treatment(s) /\ SymAt(s)' = SymAt(s)
                   /\ AddendField(s)' = AddendField(s)
                   /\ InstallHowto(s)' = InstallHowto(s)
         /\ \A s : \A sym : Install(s, sym)' = Install(s, sym)
         /\ \A s : \A howto : \A sym : Adjustment(s, howto, sym)' = Adjustment(s, howto, sym)
         /\ \A l : Low(l)' = Low(l)
         /\ \A s : \A l : FirstLow(s, l)' = FirstLow(s, l)
<1>1. \A s : RelocAt(s)' = RelocAt(s) /\ Address(s)' = Address(s)
  BY DEF RelocAt, Address
<1>2. \A s : /\ Treatment(s)' = Treatment(s) /\ SymAt(s)' = SymAt(s)
             /\ AddendField(s)' = AddendField(s)
  BY <1>1 DEF Treatment, SymAt, AddendField
<1>3. \A s : InstallHowto(s)' = InstallHowto(s)
  BY <1>1, <1>2 DEF InstallHowto
<1>4. \A s : \A howto : \A sym : Adjustment(s, howto, sym)' = Adjustment(s, howto, sym)
  BY <1>1 DEF Adjustment
<1>5. \A s : \A sym : Install(s, sym)' = Install(s, sym)
  BY <1>2, <1>3, <1>4 DEF Install
<1>6. \A l : Low(l)' = Low(l)
  BY <1>2 DEF Low
<1>7. \A s : \A l : FirstLow(s, l)' = FirstLow(s, l)
  BY <1>6 DEF FirstLow
<1>8. QED
  BY <1>2, <1>3, <1>4, <1>5, <1>6, <1>7

-----------------------------------------------------------------------------
(***************************************************************************)
(* The invariant: what has become of each site.                            *)
(***************************************************************************)
Shape ==
  /\ link \in Links
  /\ section \in DOMAIN link.sections
  /\ next \in 1 .. Len(link.sections[section]) + 1
  /\ field \in [Sites(link) -> Int]
  /\ DOMAIN installed = Sites(link)
  /\ mips_hi16_list \subseteq Sites(link)
  /\ reported \subseteq Sites(link)

\* The overflow check of a field that is installed at once.
Reported(s) ==
  Past(s) /\ Treatment(s) = "generic"
    /\ Overflows(InstallHowto(s), AddendField(s), Adjustment(s, InstallHowto(s), SymAt(s)))
  => s \in reported

\* Nothing was done with s; or it was installed at once; or it waits, and no
\* low part has come since; or the first low part after it has installed it.
Waits(s) ==
  /\ s \in mips_hi16_list => Past(s) /\ Treatment(s) = "hi16" /\ installed[s] = <<>>
  /\ s \in mips_hi16_list => \A l \in Sites(link) : Low(l) /\ Before(s, l) => ~Past(l)

WasInstalled(s) ==
  /\ ~Past(s) => installed[s] = <<>>
  /\ Past(s) /\ Treatment(s) # "hi16" => installed[s] = <<SymAt(s)>>
  /\ Past(s) /\ Treatment(s) = "hi16" /\ s \notin mips_hi16_list =>
       \E l \in Sites(link) : FirstLow(s, l) /\ Past(l) /\ installed[s] = <<SymAt(l)>>

Holds(s) ==
  field[s] = IF installed[s] = <<>> THEN AddendField(s) ELSE Install(s, installed[s][1])

SiteOK(s) == Waits(s) /\ WasInstalled(s) /\ Holds(s) /\ Reported(s)

Inv == Shape /\ \A s \in Sites(link) : SiteOK(s)

\* A field keeps its width.
LEMMA RelocateContentsType ==
  ASSUME NEW howto, howto.span \in Nat \ {0}, howto.unit \in Nat \ {0},
         NEW word \in 0..(howto.span - 1), NEW val \in Int
  PROVE  /\ RelocateContents(howto, word, val) = (word + (val \div howto.unit)) % howto.span
         /\ RelocateContents(howto, word, val) \in 0..(howto.span - 1)
<1> DEFINE n == howto.span
           d == val \div howto.unit
<1>1. d \in Int
  <2> DEFINE u == howto.unit
  <2>1. u \in Nat \ {0}
    OBVIOUS
  <2> HIDE DEF u
  <2>2. val \div u \in Int
    BY <2>1, DivMod
  <2>3. QED
    BY <2>2 DEF u
<1>2. n \in Nat \ {0} /\ word \in 0..(n - 1)
  OBVIOUS
<1>3. RelocateContents(howto, word, val) = (word - (word % n)) + (((word % n) + d) % n)
  BY DEF RelocateContents
<1> HIDE DEF n, d
<1>4. word % n = word
  BY <1>2
<1>5. (word + d) % n \in 0..(n - 1)
  <2>1. word + d \in Int
    BY <1>1, <1>2
  <2>2. QED
    BY <1>2, <2>1, DivMod
<1>6. RelocateContents(howto, word, val) = (word + d) % n
  BY <1>2, <1>3, <1>4, <1>5
<1>7. QED
  BY <1>5, <1>6 DEF n, d

LEMMA AdjustmentType ==
  ASSUME link \in Links, NEW s \in Sites(link), NEW howto, NEW sym \in DOMAIN link.value
  PROVE  Adjustment(s, howto, sym) \in Int
<1>1. link.value[sym] \in Int
  BY LinksAssumption, Spans
<1>2. QED
  BY <1>1, SiteFacts DEF Adjustment

\* What a site holds fits its howto.
LEMMA InstallFits ==
  ASSUME link \in Links, NEW s \in Sites(link), NEW sym \in DOMAIN link.value
  PROVE  /\ InstallHowto(s).span \in 1..AddressSpan /\ InstallHowto(s).unit \in Nat \ {0}
         /\ InstallHowto(s).span <= HighHowto(RelocAt(s).type).span
         /\ AddendField(s) \in 0..(InstallHowto(s).span - 1)
         /\ Install(s, sym) \in 0..(InstallHowto(s).span - 1)
         /\ Install(s, sym) = (AddendField(s) + (Adjustment(s, InstallHowto(s), sym)
                                 \div InstallHowto(s).unit)) % InstallHowto(s).span
<1> DEFINE type == RelocAt(s).type
           howto == InstallHowto(s)
<1>1. type \in Types /\ AddendField(s) \in Nat /\ AddendField(s) < Howto[type].span
  BY SiteFacts
<1>2. /\ Howto[type].span \in 1..AddressSpan /\ Howto[type].unit \in Nat \ {0}
      /\ HighHowto(type).span \in 1..AddressSpan /\ HighHowto(type).unit \in Nat \ {0}
      /\ Howto[type].span <= HighHowto(type).span
  BY <1>1, HowtoSpans
<1>3. howto = HighHowto(type) \/ howto = Howto[type]
  BY DEF InstallHowto
<1> HIDE DEF howto, type
<1>4. AddressSpan \in Nat
  BY Spans
<1>5. /\ howto.span \in 1..AddressSpan /\ howto.unit \in Nat \ {0}
      /\ howto.span <= HighHowto(type).span
      /\ AddendField(s) \in 0..(howto.span - 1)
  BY <1>1, <1>2, <1>3, <1>4
<1>6. Adjustment(s, howto, sym) \in Int
  BY AdjustmentType
<1>7. howto.span \in Nat \ {0}
  BY <1>4, <1>5
<1>8. /\ RelocateContents(howto, AddendField(s), Adjustment(s, howto, sym))
           = (AddendField(s) + (Adjustment(s, howto, sym) \div howto.unit)) % howto.span
      /\ RelocateContents(howto, AddendField(s), Adjustment(s, howto, sym))
           \in 0..(howto.span - 1)
  BY <1>5, <1>6, <1>7, RelocateContentsType
<1>9. QED
  BY <1>5, <1>8 DEF Install, howto, type

-----------------------------------------------------------------------------
(***************************************************************************)
(* Steps.                                                                  *)
(***************************************************************************)
LEMMA InitInv == Init => Inv
<1> SUFFICES ASSUME Init PROVE Inv
  OBVIOUS
<1>1. /\ link \in Links /\ section = 1 /\ next = 1 /\ mips_hi16_list = {} /\ reported = {}
      /\ field = [s \in Sites(link) |-> RelocAt(s).field]
      /\ installed = [s \in Sites(link) |-> <<>>]
  BY DEF Init
<1>2. link.sections \in Seq(Seq(Reloc(link))) /\ link.sections # <<>>
  BY <1>1, LinksAssumption
<1>3. section \in DOMAIN link.sections /\ next \in 1 .. Len(link.sections[section]) + 1
  BY <1>1, <1>2
<1>4. ASSUME NEW s \in Sites(link)
      PROVE  field[s] = AddendField(s) /\ field[s] \in Int /\ ~Past(s) /\ installed[s] = <<>>
  <2>1. /\ s[1] \in Nat /\ s[2] \in Nat /\ s[1] \in DOMAIN link.sections
        /\ s[2] \in 1..Len(link.sections[s[1]])
        /\ AddendField(s) \in 0..(AddressSpan - 1)
    BY <1>1, SiteFacts
  <2>2. s[1] >= 1 /\ s[2] >= 1
    BY <1>2, <2>1
  <2>3. field[s] = AddendField(s)
    BY <1>1 DEF AddendField
  <2>4. AddendField(s) \in Int
    BY <2>1, Spans
  <2>5. ~Past(s)
    BY <1>1, <2>1, <2>2 DEF Past
  <2>6. QED
    BY <1>1, <2>3, <2>4, <2>5
<1>5. Shape
  BY <1>1, <1>3, <1>4 DEF Shape
<1>6. ASSUME NEW s \in Sites(link)
      PROVE  SiteOK(s)
  BY <1>1, <1>4 DEF SiteOK, Waits, WasInstalled, Holds, Reported
<1>7. QED
  BY <1>5, <1>6 DEF Inv

\* The place moves on by one site.
LEMMA Advance ==
  ASSUME Shape, HasReloc, link' = link, section' = section, next' = next + 1
  PROVE  /\ Here \in Sites(link) /\ ~Past(Here)
         /\ \A s \in Sites(link) : Past(s)' <=> Past(s) \/ s = Here
         /\ \A s : Past(s) <=> Before(s, Here)
         /\ section' \in DOMAIN link'.sections
         /\ next' \in 1 .. Len(link'.sections[section']) + 1
<1>1. link \in Links /\ section \in DOMAIN link.sections
      /\ next \in 1 .. Len(link.sections[section]) + 1
  BY DEF Shape
<1>2. link.sections \in Seq(Seq(Reloc(link)))
  BY <1>1, LinksAssumption
<1>3. link.sections[section] \in Seq(Reloc(link)) /\ section \in Nat
  BY <1>1, <1>2
<1>4. next \in 1..Len(link.sections[section]) /\ next \in Nat
  BY <1>1, <1>3 DEF HasReloc
<1>5. Here \in Sites(link) /\ Here[1] = section /\ Here[2] = next
  BY <1>1, <1>3, <1>4 DEF Here, Sites
<1>6. ~Past(Here) /\ \A s : Past(s) <=> Before(s, Here)
  BY <1>3, <1>4, <1>5 DEF Past, Before
<1>7. ASSUME NEW s \in Sites(link)
      PROVE  Past(s)' <=> Past(s) \/ s = Here
  <2>1. s = <<s[1], s[2]>> /\ s[1] \in Nat /\ s[2] \in Nat
    BY <1>1, SiteFacts
  <2>2. s = Here <=> s[1] = section /\ s[2] = next
    BY <2>1 DEF Here
  <2>3. Past(s)' <=> s[1] < section \/ (s[1] = section /\ s[2] < next + 1)
    BY DEF Past
  <2>4. Past(s) <=> s[1] < section \/ (s[1] = section /\ s[2] < next)
    BY DEF Past
  <2>5. QED
    BY <1>3, <1>4, <2>1, <2>2, <2>3, <2>4
<1>8. next' \in 1 .. Len(link'.sections[section']) + 1
  BY <1>3, <1>4
<1>9. QED
  BY <1>1, <1>5, <1>6, <1>7, <1>8

\* The visited site is new.
LEMMA HereIsNew ==
  ASSUME Inv, Here \in Sites(link), ~Past(Here)
  PROVE  /\ Here \notin mips_hi16_list /\ installed[Here] = <<>>
         /\ field[Here] = AddendField(Here)
BY DEF Inv, SiteOK, Waits, WasInstalled, Holds

\* A site that the step passes by.
LEMMA PassedBy ==
  ASSUME Inv, NEW s \in Sites(link), link' = link,
         Past(s)' <=> Past(s),
         field'[s] = field[s], installed'[s] = installed[s],
         s \in mips_hi16_list' <=> s \in mips_hi16_list, reported \subseteq reported',
         \A l \in Sites(link) : Past(l) => Past(l)',
         s \in mips_hi16_list => \A l \in Sites(link) : Low(l) /\ Past(l)' => Past(l)
  PROVE  SiteOK(s)'
<1>1. Waits(s) /\ WasInstalled(s) /\ Holds(s) /\ Reported(s)
  BY DEF Inv, SiteOK
<1>2. Waits(s)'
  BY <1>1, SameLink DEF Waits
<1>3. WasInstalled(s)'
  BY <1>1, SameLink DEF WasInstalled
<1>4. Holds(s)'
  BY <1>1, SameLink DEF Holds
<1>5. Reported(s)'
  BY <1>1, SameLink DEF Reported
<1>6. QED
  BY <1>2, <1>3, <1>4, <1>5 DEF SiteOK

LEMMA ApplyGenericStep ==
  ASSUME Inv, ApplyGeneric
  PROVE  Inv'
<1> DEFINE sym == SymAt(Here)
<1>1. /\ HasReloc /\ Treatment(Here) = "generic"
      /\ field' = [field EXCEPT ![Here] = Generic(Here, Howto[RelocAt(Here).type], sym)]
      /\ installed' = [installed EXCEPT ![Here] = Append(@, sym)]
      /\ reported' = IF GenericOverflows(Here, Howto[RelocAt(Here).type], sym)
                     THEN reported \union {Here} ELSE reported
      /\ next' = next + 1
      /\ link' = link /\ section' = section /\ mips_hi16_list' = mips_hi16_list
  BY DEF ApplyGeneric, SymAt
<1>2. Shape
  BY DEF Inv
<1>3. /\ Here \in Sites(link) /\ ~Past(Here)
      /\ \A s \in Sites(link) : Past(s)' <=> Past(s) \/ s = Here
      /\ section' \in DOMAIN link'.sections
      /\ next' \in 1 .. Len(link'.sections[section']) + 1
  BY <1>1, <1>2, Advance
<1>4. /\ Here \notin mips_hi16_list /\ installed[Here] = <<>>
      /\ field[Here] = AddendField(Here)
  BY <1>3, HereIsNew
<1>5. InstallHowto(Here) = Howto[RelocAt(Here).type]
  BY <1>1 DEF InstallHowto
<1>6. field'[Here] = Install(Here, sym) /\ installed'[Here] = <<sym>>
  BY <1>1, <1>2, <1>3, <1>4, <1>5 DEF Generic, Install, Shape
<1>7. Install(Here, sym) \in Int
  <2>1. link \in Links /\ sym \in DOMAIN link.value
    BY <1>2, <1>3, SiteFacts DEF Shape
  <2>2. QED
    BY <1>3, <2>1, InstallFits, Spans
<1>8. Shape'
  <2>1. field' \in [Sites(link) -> Int]
    BY <1>1, <1>2, <1>3, <1>6, <1>7 DEF Shape
  <2>2. DOMAIN installed' = Sites(link) /\ reported' \subseteq Sites(link)
    BY <1>1, <1>2, <1>3 DEF Shape
  <2>3. QED
    BY <1>1, <1>2, <1>3, <2>1, <2>2, SameLink DEF Shape
<1>9. ASSUME NEW s \in Sites(link), s = Here
      PROVE  SiteOK(s)'
  <2>1. Past(s)'
    BY <1>3, <1>9
  <2>2. Treatment(s)' = "generic" /\ s \notin mips_hi16_list'
    BY <1>1, <1>4, <1>9, SameLink
  <2>3. Waits(s)'
    BY <2>2 DEF Waits
  <2>4. installed'[s] = <<SymAt(s)>> /\ field'[s] = Install(s, SymAt(s))
    BY <1>6, <1>9
  <2>5. WasInstalled(s)'
    BY <1>1, <2>1, <2>2, <2>4, SameLink DEF WasInstalled
  <2>6. Holds(s)'
    <3>1. installed'[s] # <<>> /\ installed'[s][1] = SymAt(s)
      BY <2>4
    <3>2. Install(s, SymAt(s))' = Install(s, SymAt(s)) /\ SymAt(s)' = SymAt(s)
      BY <1>1, SameLink
    <3>3. QED
      BY <2>4, <3>1, <3>2 DEF Holds
  <2>7. GenericOverflows(Here, Howto[RelocAt(Here).type], sym)
          <=> Overflows(InstallHowto(s), AddendField(s),
                        Adjustment(s, InstallHowto(s), SymAt(s)))
    BY <1>4, <1>5, <1>9 DEF GenericOverflows
  <2>8. Reported(s)'
    <3> DEFINE over == Overflows(InstallHowto(s), AddendField(s),
                                 Adjustment(s, InstallHowto(s), SymAt(s)))
    <3>1. over => s \in reported'
      BY <1>1, <1>9, <2>7
    <3>2. over' <=> over
      BY <1>1, SameLink DEF Overflows
    <3>3. QED
      BY <3>1, <3>2 DEF Reported
  <2>9. QED
    BY <2>3, <2>5, <2>6, <2>8 DEF SiteOK
<1>10. ASSUME NEW s \in Sites(link), s # Here
       PROVE  SiteOK(s)'
  <2>1. ~Low(Here)
    BY <1>1 DEF Low
  <2>2. field'[s] = field[s] /\ installed'[s] = installed[s]
    BY <1>1, <1>2, <1>10 DEF Shape
  <2>3. QED
    BY <1>1, <1>3, <1>10, <2>1, <2>2, PassedBy
<1>11. QED
  BY <1>1, <1>8, <1>9, <1>10, SameLink DEF Inv

LEMMA SaveHighStep ==
  ASSUME Inv, SaveHigh
  PROVE  Inv'
<1>1. /\ HasReloc /\ Treatment(Here) = "hi16"
      /\ mips_hi16_list' = mips_hi16_list \union {Here}
      /\ next' = next + 1
      /\ link' = link /\ section' = section /\ field' = field
      /\ installed' = installed /\ reported' = reported
  BY DEF SaveHigh
<1>2. Shape
  BY DEF Inv
<1>3. /\ Here \in Sites(link) /\ ~Past(Here)
      /\ \A s \in Sites(link) : Past(s)' <=> Past(s) \/ s = Here
      /\ \A s : Past(s) <=> Before(s, Here)
      /\ section' \in DOMAIN link'.sections
      /\ next' \in 1 .. Len(link'.sections[section']) + 1
  BY <1>1, <1>2, Advance
<1>4. /\ Here \notin mips_hi16_list /\ installed[Here] = <<>>
      /\ field[Here] = AddendField(Here)
  BY <1>3, HereIsNew
<1>5. Shape'
  BY <1>1, <1>2, <1>3, SameLink DEF Shape
<1>6. ~Low(Here)
  BY <1>1 DEF Low
<1>7. ASSUME NEW s \in Sites(link), s = Here
      PROVE  SiteOK(s)'
  <2>1. Past(s)' /\ s \in mips_hi16_list' /\ Treatment(s)' = "hi16"
    BY <1>1, <1>3, <1>7, SameLink
  <2>2. installed'[s] = <<>> /\ field'[s] = AddendField(s)
    BY <1>1, <1>4, <1>7
  <2>3. ASSUME NEW l \in Sites(link), Low(l), Before(s, l)
        PROVE  ~Past(l)'
    <3>1. s[1] \in Nat /\ s[2] \in Nat /\ l[1] \in Nat /\ l[2] \in Nat
      BY <1>2, SiteFacts DEF Shape
    <3>2. ~Before(l, s)
      BY <2>3, <3>1 DEF Before
    <3>3. ~Past(l) /\ l # Here
      BY <1>3, <1>6, <1>7, <2>3, <3>2
    <3>4. QED
      BY <1>3, <3>3
  <2>4. Waits(s)'
    BY <1>1, <2>1, <2>2, <2>3, SameLink DEF Waits
  <2>5. WasInstalled(s)'
    BY <2>1 DEF WasInstalled
  <2>6. Holds(s)'
    BY <1>1, <2>2, SameLink DEF Holds
  <2>7. Reported(s)'
    BY <2>1 DEF Reported
  <2>8. QED
    BY <2>4, <2>5, <2>6, <2>7 DEF SiteOK
<1>8. ASSUME NEW s \in Sites(link), s # Here
      PROVE  SiteOK(s)'
  BY <1>1, <1>3, <1>6, <1>8, PassedBy
<1>9. QED
  BY <1>1, <1>5, <1>7, <1>8, SameLink DEF Inv

LEMMA ApplyLowStep ==
  ASSUME Inv, ApplyLow
  PROVE  Inv'
<1> DEFINE sym == SymAt(Here)
           touched == mips_hi16_list \union {Here}
           howto(s) == IF s = Here THEN Howto[RelocAt(Here).type]
                       ELSE HighHowto(RelocAt(s).type)
<1>1. /\ HasReloc /\ Treatment(Here) = "lo16"
      /\ field' = [s \in DOMAIN field |->
                     IF s \in touched THEN Generic(s, howto(s), sym) ELSE field[s]]
      /\ installed' = [s \in DOMAIN installed |->
                     IF s \in touched THEN Append(installed[s], sym) ELSE installed[s]]
      /\ mips_hi16_list' = {}
      /\ next' = next + 1
      /\ link' = link /\ section' = section /\ reported' = reported
  BY DEF ApplyLow, ListAfterLow, SymAt
<1>2. Shape
  BY DEF Inv
<1>3. /\ Here \in Sites(link) /\ ~Past(Here)
      /\ \A s \in Sites(link) : Past(s)' <=> Past(s) \/ s = Here
      /\ \A s : Past(s) <=> Before(s, Here)
      /\ section' \in DOMAIN link'.sections
      /\ next' \in 1 .. Len(link'.sections[section']) + 1
  BY <1>1, <1>2, Advance
<1>4. /\ Here \notin mips_hi16_list /\ installed[Here] = <<>>
      /\ field[Here] = AddendField(Here)
  BY <1>3, HereIsNew
<1>5. Low(Here)
  BY <1>1, <1>3 DEF Low
<1>6. \A s \in touched : s \in Sites(link)
  BY <1>2, <1>3 DEF Shape
<1>7. link \in Links /\ sym \in DOMAIN link.value
  BY <1>2, <1>3, SiteFacts DEF Shape
<1>8. ASSUME NEW s \in touched
      PROVE  /\ howto(s) = InstallHowto(s) /\ installed[s] = <<>>
             /\ field[s] = AddendField(s)
  <2>1. CASE s = Here
    BY <1>1, <1>4, <2>1 DEF InstallHowto
  <2>2. CASE s # Here
    <3>1. s \in mips_hi16_list /\ s \in Sites(link)
      BY <1>6, <2>2
    <3>2. Treatment(s) = "hi16" /\ installed[s] = <<>> /\ Holds(s)
      BY <3>1 DEF Inv, SiteOK, Waits
    <3>3. QED
      BY <2>2, <3>2 DEF InstallHowto, Holds
  <2>3. QED
    BY <2>1, <2>2
<1>9. ASSUME NEW s \in touched
      PROVE  field'[s] = Install(s, sym) /\ installed'[s] = <<sym>>
  <2>1. s \in DOMAIN field /\ s \in DOMAIN installed
    BY <1>2, <1>6 DEF Shape
  <2>2. field'[s] = Generic(s, howto(s), sym) /\ installed'[s] = Append(installed[s], sym)
    BY <1>1, <2>1
  <2>3. Generic(s, howto(s), sym) = Install(s, sym)
    BY <1>8 DEF Generic, Install
  <2>4. Append(<<>>, sym) = <<sym>>
    OBVIOUS
  <2>5. installed[s] = <<>>
    BY <1>8
  <2> HIDE DEF howto, sym
  <2>6. QED
    BY <2>2, <2>3, <2>4, <2>5
<1>10. ASSUME NEW s \in Sites(link), s \notin touched
       PROVE  field'[s] = field[s] /\ installed'[s] = installed[s]
  BY <1>1, <1>2, <1>10 DEF Shape
<1> HIDE DEF touched, howto, sym
<1>11. Shape'
  <2>1. \A s \in Sites(link) : field'[s] \in Int
    <3>1. \A s \in touched : Install(s, sym) \in Int
      BY <1>6, <1>7, InstallFits, Spans
    <3>2. QED
      BY <1>2, <1>9, <1>10, <3>1 DEF Shape
  <2>2. DOMAIN field' = Sites(link) /\ DOMAIN installed' = Sites(link)
    BY <1>1, <1>2 DEF Shape
  <2>3. field' \in [Sites(link) -> Int]
    BY <1>1, <2>1, <2>2
  <2>4. mips_hi16_list' = {} /\ reported' \subseteq Sites(link)
    BY <1>1, <1>2 DEF Shape
  <2>5. QED
    BY <1>1, <1>2, <1>3, <2>2, <2>3, <2>4, SameLink DEF Shape
<1>12. ASSUME NEW s \in Sites(link), s \in touched
       PROVE  SiteOK(s)'
  <2>1. Past(s)' /\ s \notin mips_hi16_list'
    <3>1. s = Here \/ s \in mips_hi16_list
      BY <1>12 DEF touched
    <3>2. s \in mips_hi16_list => Past(s)
      BY DEF Inv, SiteOK, Waits
    <3>3. QED
      BY <1>1, <1>3, <3>1, <3>2
  <2>2. Waits(s)'
    BY <2>1 DEF Waits
  <2>3. installed'[s] = <<sym>> /\ field'[s] = Install(s, sym)
    BY <1>9, <1>12
  <2>4. WasInstalled(s)'
    <3>1. CASE Treatment(s) # "hi16"
      <4>1. s = Here
        <5>1. s \in mips_hi16_list => Treatment(s) = "hi16"
          BY DEF Inv, SiteOK, Waits
        <5>2. QED
          BY <1>12, <3>1, <5>1 DEF touched
      <4>2. sym = SymAt(s)
        BY <4>1 DEF sym
      <4>3. Treatment(s)' # "hi16" /\ SymAt(s)' = SymAt(s)
        BY <1>1, <3>1, SameLink
      <4>4. QED
        BY <2>1, <2>3, <4>2, <4>3 DEF WasInstalled
    <3>2. CASE Treatment(s) = "hi16"
      <4>1. s # Here /\ s \in mips_hi16_list
        BY <1>1, <1>12, <3>2 DEF touched
      <4>2. \A k \in Sites(link) : Low(k) /\ Before(s, k) => ~Past(k)
        BY <4>1 DEF Inv, SiteOK, Waits
      <4>3. Past(s)
        BY <4>1 DEF Inv, SiteOK, Waits
      <4>4. FirstLow(s, Here)
        BY <1>3, <1>5, <4>2, <4>3 DEF FirstLow
      <4>5. PICK l \in Sites(link) : l = Here
        BY <1>3
      <4>6. FirstLow(s, l)' /\ Past(l)' /\ installed'[s] = <<SymAt(l)'>>
        BY <1>1, <1>3, <2>3, <4>4, <4>5, SameLink DEF sym
      <4>7. Treatment(s)' = "hi16" /\ Sites(link)' = Sites(link)
        BY <1>1, <3>2, SameLink
      <4>8. QED
        BY <2>1, <4>6, <4>7 DEF WasInstalled
    <3>3. QED
      BY <3>1, <3>2
  <2>5. Holds(s)'
    <3>1. installed'[s] # <<>> /\ installed'[s][1] = sym
      BY <2>3
    <3>2. \A x : Install(s, x)' = Install(s, x)
      BY <1>1, SameLink
    <3>3. QED
      BY <2>3, <3>1, <3>2 DEF Holds
  <2>6. Reported(s)'
    <3>1. Treatment(s)' # "generic"
      <4>1. s \in mips_hi16_list => Treatment(s) = "hi16"
        BY DEF Inv, SiteOK, Waits
      <4>2. Treatment(s) # "generic"
        BY <1>1, <1>12, <4>1 DEF touched
      <4>3. QED
        BY <1>1, <4>2, SameLink
    <3>2. QED
      BY <3>1 DEF Reported
  <2>7. QED
    BY <2>2, <2>4, <2>5, <2>6 DEF SiteOK
<1>13. ASSUME NEW s \in Sites(link), s \notin touched
       PROVE  SiteOK(s)'
  <2>1. s # Here /\ s \notin mips_hi16_list
    BY <1>13 DEF touched
  <2>2. QED
    BY <1>1, <1>3, <1>10, <1>13, <2>1, PassedBy
<1>14. QED
  BY <1>1, <1>11, <1>12, <1>13, SameLink DEF Inv

LEMMA NextSectionStep ==
  ASSUME Inv, NextSection
  PROVE  Inv'
<1>1. /\ ~HasReloc /\ section < Len(link.sections)
      /\ section' = section + 1 /\ next' = 1
      /\ link' = link /\ field' = field /\ mips_hi16_list' = mips_hi16_list
      /\ installed' = installed /\ reported' = reported
  BY DEF NextSection
<1>2. Shape
  BY DEF Inv
<1>3. /\ link \in Links /\ section \in DOMAIN link.sections
      /\ next \in 1 .. Len(link.sections[section]) + 1
  BY <1>2 DEF Shape
<1>4. link.sections \in Seq(Seq(Reloc(link)))
  BY <1>3, LinksAssumption
<1>5. section \in Nat /\ section + 1 \in DOMAIN link.sections
  BY <1>1, <1>3, <1>4
<1>6. next = Len(link.sections[section]) + 1
  <2>1. link.sections[section] \in Seq(Reloc(link))
    BY <1>3, <1>4
  <2>2. QED
    BY <1>1, <1>3, <2>1 DEF HasReloc
<1>7. Shape'
  <2>1. link.sections[section + 1] \in Seq(Reloc(link))
    BY <1>4, <1>5
  <2>2. next' \in 1 .. Len(link'.sections[section']) + 1
    BY <1>1, <2>1
  <2>3. QED
    BY <1>1, <1>2, <1>5, <2>2, SameLink DEF Shape
<1>8. ASSUME NEW s \in Sites(link)
      PROVE  Past(s)' <=> Past(s)
  <2>1. /\ s[1] \in Nat /\ s[2] \in Nat
        /\ s[2] \in 1..Len(link.sections[s[1]])
    BY <1>3, SiteFacts
  <2>2. Past(s)' <=> s[1] < section + 1 \/ (s[1] = section + 1 /\ s[2] < 1)
    BY <1>1 DEF Past
  <2>3. Past(s) <=> s[1] < section \/ (s[1] = section /\ s[2] < next)
    BY DEF Past
  <2>4. s[1] = section => s[2] < next
    BY <1>6, <2>1
  <2>5. ~(s[2] < 1)
    BY <2>1
  <2>6. s[1] < section + 1 <=> s[1] < section \/ s[1] = section
    BY <1>5, <2>1
  <2>7. QED
    BY <2>2, <2>3, <2>4, <2>5, <2>6
<1>9. ASSUME NEW s \in Sites(link)
      PROVE  SiteOK(s)'
  BY <1>1, <1>8, PassedBy
<1>10. QED
  BY <1>1, <1>7, <1>9, SameLink DEF Inv

LEMMA NextInv ==
  ASSUME Inv, [Next]_vars
  PROVE  Inv'
<1>1. CASE Next
  BY <1>1, ApplyGenericStep, SaveHighStep, ApplyLowStep, NextSectionStep DEF Next
<1>2. CASE UNCHANGED vars
  <2>1. /\ link' = link /\ section' = section /\ next' = next /\ field' = field
        /\ mips_hi16_list' = mips_hi16_list /\ installed' = installed
        /\ reported' = reported
    BY <1>2 DEF vars
  <2>2. Shape'
    BY <2>1, SameLink DEF Inv, Shape
  <2>3. ASSUME NEW s \in Sites(link)
        PROVE  Past(s)' <=> Past(s)
    BY <2>1 DEF Past
  <2>4. ASSUME NEW s \in Sites(link)
        PROVE  SiteOK(s)'
    BY <2>1, <2>3, PassedBy
  <2>5. QED
    BY <2>1, <2>2, <2>4, SameLink DEF Inv
<1>3. QED
  BY <1>1, <1>2

\* The invariant holds in every reachable state.
THEOREM Invariance == Spec => []Inv
<1>1. Init => Inv
  BY InitInv
<1>2. Inv /\ [Next]_vars => Inv'
  BY NextInv
<1>3. QED
  BY <1>1, <1>2, PTL DEF Spec

-----------------------------------------------------------------------------
(***************************************************************************)
(* What follows.                                                           *)
(***************************************************************************)
\* Every symbol that a site was relocated with is one of the link.
LEMMA InstalledOnce ==
  ASSUME Inv, NEW s \in Sites(link)
  PROVE  installed[s] = <<>> \/ \E x \in DOMAIN link.value : installed[s] = <<x>>
<1>1. link \in Links
  BY DEF Inv, Shape
<1>2. Waits(s) /\ WasInstalled(s)
  BY DEF Inv, SiteOK
<1>3. \A l \in Sites(link) : SymAt(l) \in DOMAIN link.value
  BY <1>1, SiteFacts
<1>4. QED
  BY <1>2, <1>3 DEF Waits, WasInstalled

\* Fields keep to the width of their howto.
THEOREM TypeCorrect == Spec => []TypeOK
<1>1. Inv => TypeOK
  <2> SUFFICES ASSUME Inv PROVE TypeOK
    OBVIOUS
  <2>1. Shape
    BY DEF Inv
  <2>2. link \in Links
    BY <2>1 DEF Shape
  <2>3. ASSUME NEW s \in Sites(link)
        PROVE  /\ field[s] \in 0 .. AddressSpan - 1
               /\ Done(s) => field[s] < HighHowto(RelocAt(s).type).span
               /\ \A i \in DOMAIN installed[s] : installed[s][i] \in DOMAIN link.value
    <3> DEFINE span == InstallHowto(s).span
               high == HighHowto(RelocAt(s).type).span
    <3>1. field[s] \in 0..(span - 1)
      <4>1. SymAt(s) \in DOMAIN link.value
        BY <2>2, SiteFacts
      <4>2. AddendField(s) \in 0..(span - 1)
        BY <2>2, <4>1, InstallFits
      <4>3. \A x \in DOMAIN link.value : Install(s, x) \in 0..(span - 1)
        BY <2>2, InstallFits
      <4>4. Holds(s)
        BY DEF Inv, SiteOK
      <4> HIDE DEF span
      <4>5. CASE installed[s] = <<>>
        BY <4>2, <4>4, <4>5 DEF Holds
      <4>6. CASE installed[s] # <<>>
        <5>1. PICK x \in DOMAIN link.value : installed[s] = <<x>>
          BY <4>6, InstalledOnce
        <5>2. field[s] = Install(s, x)
          BY <4>4, <4>6, <5>1 DEF Holds
        <5>3. QED
          BY <4>3, <5>2
      <4>7. QED
        BY <4>5, <4>6
    <3>2. span \in 1..AddressSpan /\ span <= high /\ AddressSpan \in Nat
      <4>1. SymAt(s) \in DOMAIN link.value
        BY <2>2, SiteFacts
      <4>2. QED
        BY <2>2, <4>1, InstallFits, Spans
    <3>3. high \in Int
      <4>1. RelocAt(s).type \in Types
        BY <2>2, SiteFacts
      <4>2. QED
        BY <4>1, HowtoSpans
    <3> HIDE DEF span, high
    <3>4. field[s] \in 0 .. AddressSpan - 1 /\ field[s] < high
      BY <3>1, <3>2, <3>3
    <3>5. \A i \in DOMAIN installed[s] : installed[s][i] \in DOMAIN link.value
      <4>1. CASE installed[s] = <<>>
        BY <4>1
      <4>2. CASE installed[s] # <<>>
        <5>1. PICK x \in DOMAIN link.value : installed[s] = <<x>>
          BY <4>2, InstalledOnce
        <5>2. QED
          BY <5>1
      <4>3. QED
        BY <4>1, <4>2
    <3>6. QED
      BY <3>4, <3>5 DEF high
  <2>4. QED
    BY <2>1, <2>3 DEF Shape, TypeOK
<1>2. QED
  BY <1>1, Invariance, PTL

\* A finite set of numbers has a least one.
LEMMA LeastElement ==
  ASSUME NEW S, IsFiniteSet(S), S \subseteq Int, S # {}
  PROVE  Min(S) \in S /\ \A x \in S : Min(S) <= x
<1> DEFINE HasLeast(T) == \E x \in T : \A y \in T : x <= y
           Good == {T \in SUBSET S : T = {} \/ HasLeast(T)}
<1>2. ASSUME NEW T \in SUBSET S, \A U \in SUBSET T : U # T => U \in Good
      PROVE  T \in Good
  <2>1. CASE T = {}
    BY <2>1
  <2>2. CASE T # {}
    <3>1. PICK a \in T : TRUE
      BY <2>2
    <3>2. T \ {a} \in Good
      BY <1>2, <3>1
    <3>3. T \subseteq Int
      OBVIOUS
    <3>4. CASE T \ {a} = {}
      <4>1. \A y \in T : a <= y
        BY <3>1, <3>3, <3>4
      <4>2. QED
        BY <3>1, <4>1
    <3>5. CASE T \ {a} # {}
      <4>1. PICK b \in T \ {a} : \A y \in T \ {a} : b <= y
        BY <3>2, <3>5
      <4>2. CASE a <= b
        <5>1. \A y \in T : a <= y
          BY <3>1, <3>3, <4>1, <4>2
        <5>2. QED
          BY <3>1, <5>1
      <4>3. CASE b <= a
        <5>1. \A y \in T : b <= y
          BY <3>1, <3>3, <4>1, <4>3
        <5>2. QED
          BY <4>1, <5>1
      <4>4. QED
        BY <3>1, <3>3, <4>1, <4>2, <4>3
    <3>6. QED
      BY <3>4, <3>5
  <2>3. QED
    BY <2>1, <2>2
<1> HIDE DEF Good
<1>3. \A T \in SUBSET S : T \in Good
  BY <1>2, SetInduction
<1>4. HasLeast(S)
  <2>1. S \in SUBSET S
    OBVIOUS
  <2>2. S \in Good
    BY <1>3, <2>1
  <2>3. QED
    BY <2>2 DEF Good
<1>5. QED
  BY <1>4 DEF Min

\* The low part that FirstAfter finds in a section is the first one of all.
LEMMA FirstAfterIsFirst ==
  ASSUME link \in Links, NEW h \in Sites(link), NEW l \in Sites(link),
         FirstAfter(h, l, "R_MIPS16_LO16")
  PROVE  FirstLow(h, l)
<1> DEFINE n == Len(link.sections[h[1]])
           after == {i \in h[2] + 1 .. n : RelocAt(<<h[1], i>>).type = "R_MIPS16_LO16"}
<1>1. l[1] = h[1] /\ after # {} /\ l[2] = Min(after)
  BY DEF FirstAfter
<1>2. /\ h = <<h[1], h[2]>> /\ h[1] \in Nat /\ h[2] \in Nat /\ h[1] \in DOMAIN link.sections
      /\ l = <<l[1], l[2]>> /\ l[2] \in Nat
  BY SiteFacts
<1>3. n \in Nat
  <2>1. link.sections \in Seq(Seq(Reloc(link)))
    BY LinksAssumption
  <2>2. QED
    BY <1>2, <2>1
<1>4. l[2] \in after /\ \A i \in after : l[2] <= i
  <2>1. after \subseteq 1..n /\ after \subseteq Int
    BY <1>2, <1>3
  <2> HIDE DEF after, n
  <2>2. IsFiniteSet(after)
    <3>1. IsFiniteSet(1..n)
      BY <1>3, FS_Interval
    <3>2. QED
      BY <2>1, <3>1, FS_Subset
  <2>3. Min(after) \in after /\ \A i \in after : Min(after) <= i
    BY <1>1, <2>1, <2>2, LeastElement
  <2>4. QED
    BY <1>1, <2>3
<1>5. \A s \in Sites(link) : Low(s) <=> RelocAt(s).type = "R_MIPS16_LO16"
  <2>1. \A s \in Sites(link) : RelocAt(s).type \in Types
    BY SiteFacts
  <2>2. QED
    BY <2>1, TypeNames, HowtoRows DEF Low, Treatment, Row
<1>6. RelocAt(l).type = "R_MIPS16_LO16"
  BY <1>1, <1>2, <1>4
<1>7. Before(h, l)
  BY <1>1, <1>2, <1>3, <1>4 DEF Before
<1>8. ASSUME NEW k \in Sites(link), Low(k), Before(h, k)
      PROVE  ~Before(k, l)
  <2>1. /\ k = <<k[1], k[2]>> /\ k[1] \in Nat /\ k[2] \in Nat
        /\ k[2] \in 1..Len(link.sections[k[1]])
    BY SiteFacts
  <2>2. SUFFICES ASSUME Before(k, l) PROVE FALSE
    OBVIOUS
  <2>3. k[1] = h[1] /\ h[2] < k[2] /\ k[2] < l[2]
    BY <1>1, <1>2, <1>8, <2>1, <2>2 DEF Before
  <2>4. k[2] \in after
    BY <1>2, <1>3, <1>5, <1>8, <2>1, <2>3
  <2>5. QED
    BY <1>2, <1>4, <2>1, <2>3, <2>4
<1>9. QED
  BY <1>5, <1>6, <1>7, <1>8 DEF FirstLow

\* There is one first low part.
LEMMA FirstLowUnique ==
  ASSUME link \in Links, NEW s, NEW k \in Sites(link), NEW l \in Sites(link),
         FirstLow(s, k), FirstLow(s, l)
  PROVE  k = l
<1>1. /\ k = <<k[1], k[2]>> /\ k[1] \in Nat /\ k[2] \in Nat
      /\ l = <<l[1], l[2]>> /\ l[1] \in Nat /\ l[2] \in Nat
  BY SiteFacts
<1>2. ~Before(k, l) /\ ~Before(l, k)
  BY DEF FirstLow
<1>3. k[1] = l[1] /\ k[2] = l[2]
  BY <1>1, <1>2 DEF Before
<1>4. QED
  BY <1>1, <1>3

\* A saved high part is installed by the low part that follows it.
LEMMA PairInstalled ==
  ASSUME Inv, NEW s \in Sites(link), NEW l \in Sites(link), Treatment(s) = "hi16",
         Past(l), Pair(s, l, Types, "R_MIPS16_LO16")
  PROVE  installed[s] = <<SymAt(s)>> /\ Past(s) /\ s \notin mips_hi16_list
<1>1. link \in Links /\ Shape
  BY DEF Inv, Shape
<1>2. FirstLow(s, l) /\ SymAt(s) = SymAt(l)
  BY <1>1, FirstAfterIsFirst DEF Pair, SymAt
<1>3. Low(l) /\ Before(s, l)
  BY <1>2 DEF FirstLow
<1>4. s \notin mips_hi16_list
  BY <1>3 DEF Inv, SiteOK, Waits
<1>5. Past(s)
  <2>1. /\ s[1] \in Nat /\ s[2] \in Nat /\ l[1] \in Nat /\ l[2] \in Nat
    BY <1>1, SiteFacts
  <2>2. section \in Nat /\ next \in Nat
    <3>1. link.sections \in Seq(Seq(Reloc(link)))
      BY <1>1, LinksAssumption
    <3>2. QED
      BY <1>1, <3>1 DEF Shape
  <2>3. QED
    BY <1>3, <2>1, <2>2 DEF Past, Before
<1>6. PICK k \in Sites(link) : FirstLow(s, k) /\ installed[s] = <<SymAt(k)>>
  BY <1>4, <1>5 DEF Inv, SiteOK, WasInstalled
<1>7. k = l
  BY <1>1, <1>2, <1>6, FirstLowUnique
<1>8. QED
  BY <1>2, <1>4, <1>5, <1>6, <1>7

\* Each field is adjusted once, with its own symbol, whatever is on the list.
THEOREM EachFieldOnce == Spec => []InstalledOnceForOwnSymbol
<1>1. Inv => InstalledOnceForOwnSymbol
  <2> SUFFICES ASSUME Inv, NEW s \in Sites(link)
               PROVE  \/ /\ Treatment(s) = "hi16"
                         /\ \A l \in Sites(link) :
                               Past(l) /\ Pair(s, l, Types, "R_MIPS16_LO16") =>
                                  installed[s] = <<SymAt(s)>>
                      \/ /\ Treatment(s) # "hi16"
                         /\ Past(s) => installed[s] = <<SymAt(s)>>
    BY DEF InstalledOnceForOwnSymbol, SymAt
  <2>1. CASE Treatment(s) = "hi16"
    BY <2>1, PairInstalled
  <2>2. CASE Treatment(s) # "hi16"
    BY <2>2 DEF Inv, SiteOK, WasInstalled
  <2>3. QED
    BY <2>1, <2>2
<1>2. QED
  BY <1>1, Invariance, PTL

\* What two fields build together that hold the two parts of an address.
LEMMA PairBuilds ==
  ASSUME Inv, NEW h \in Sites(link), NEW l \in Sites(link),
         NEW L \in Nat \ {0}, NEW H \in Nat \ {0}, AddressSpan = L * H, LowSpan(l) = L,
         InstallHowto(h).unit = L, InstallHowto(h).span = H, ~InstallHowto(h).pc_relative,
         InstallHowto(l).unit = 1, InstallHowto(l).span = L, ~InstallHowto(l).pc_relative,
         SymAt(h) = SymAt(l), installed[h] = <<SymAt(h)>>, installed[l] = <<SymAt(l)>>
  PROVE  PairValue(h, l)
           = (PairTarget(h, l) - Carry(link.value[SymAt(l)], AddendField(l), L)) % AddressSpan
<1> DEFINE v == link.value[SymAt(l)]
           ah == AddendField(h)
           al == AddendField(l)
<1>1. link \in Links
  BY DEF Inv, Shape
<1>2. /\ SymAt(h) \in DOMAIN link.value /\ SymAt(l) \in DOMAIN link.value
      /\ ah \in 0..(AddressSpan - 1) /\ al \in 0..(AddressSpan - 1)
  BY <1>1, SiteFacts
<1>3. v \in Int /\ ah \in Int /\ al \in Int
  BY <1>1, <1>2, LinksAssumption, Spans
<1>4. \A s \in {h, l} : Adjustment(s, InstallHowto(s), SymAt(s)) = v
  BY <1>3 DEF Adjustment
<1>5. \A s \in {h, l} : field[s] = Install(s, SymAt(s))
  <2>1. Holds(h) /\ Holds(l)
    BY DEF Inv, SiteOK
  <2>2. \A x : <<x>> # <<>> /\ <<x>>[1] = x
    OBVIOUS
  <2>3. QED
    BY <2>1, <2>2 DEF Holds
<1>6. field[h] = (ah + (v \div L)) % H
  BY <1>1, <1>2, <1>4, <1>5, InstallFits
<1>7. field[l] = (al + v) % L
  <2>1. field[l] = (al + (v \div 1)) % L
    BY <1>1, <1>2, <1>4, <1>5, InstallFits
  <2>2. v \div 1 = v
    BY <1>3
  <2>3. QED
    BY <2>1, <2>2
<1>8. PairTarget(h, l) = Target(v, ah, al, L, H)
  BY DEF PairTarget, SymAt, Target
<1>9. PairValue(h, l) = Made(v, ah, al, L, H)
  BY <1>6, <1>7 DEF PairValue, Made
<1> HIDE DEF v, ah, al
<1>10. Made(v, ah, al, L, H) = (Target(v, ah, al, L, H) - Carry(v, al, L)) % (L * H)
  BY ONLY L \in Nat \ {0}, H \in Nat \ {0}, <1>3, PairArithmetic, Zenon
<1>11. PairValue(h, l) = (PairTarget(h, l) - Carry(v, al, L)) % AddressSpan
  BY <1>8, <1>9, <1>10
<1>12. QED
  BY <1>11 DEF v, al

\* What a pair builds is the symbol plus its addend, up to the carry.
THEOREM PairsKeepTheirSum == Spec => []PairLosesOnlyTheCarry
<1>1. Inv => PairLosesOnlyTheCarry
  <2> SUFFICES ASSUME Inv, NEW h \in Sites(link), NEW l \in Sites(link),
                      OpenIsaPair(h, l) \/ (Mips16Pair(h, l) /\ Treatment(h) = "hi16"),
                      Done(h), Done(l)
               PROVE  PairValue(h, l)
                        = (PairTarget(h, l) - Carry(link.value[RelocAt(l).sym],
                                                    AddendField(l), LowSpan(l)))
                            % AddressSpan
    BY DEF PairLosesOnlyTheCarry
  <2> DEFINE value == link.value[RelocAt(l).sym]
  <2>1. Past(h) /\ Past(l) /\ WasInstalled(h) /\ WasInstalled(l)
    BY DEF Done, Inv, SiteOK
  <2>2. {LoSpan, HiSpan, HalfSpan} \subseteq Nat \ {0} /\ AddressSpan = LoSpan * HiSpan
        /\ AddressSpan = HalfSpan * HalfSpan
    BY SpansAssumption DEF AddressSpan
  <2>3. CASE OpenIsaPair(h, l)
    <3>1. /\ RelocAt(h).type = "R_MIPS_HI16" /\ RelocAt(l).type = "R_MIPS_LO16"
          /\ SymAt(h) = SymAt(l)
      <4>1. RelocAt(h).type = "R_MIPS_HI16" /\ FirstAfter(h, l, "R_MIPS_LO16")
            /\ SymAt(h) = SymAt(l)
        BY <2>3 DEF OpenIsaPair, Pair, SymAt
      <4>2. RelocAt(l).type = "R_MIPS_LO16"
        <5> DEFINE n == Len(link.sections[h[1]])
                   after == {i \in h[2] + 1 .. n : RelocAt(<<h[1], i>>).type = "R_MIPS_LO16"}
        <5>1. link \in Links
          BY DEF Inv, Shape
        <5>2. h[2] \in Nat /\ h[1] \in DOMAIN link.sections /\ l = <<l[1], l[2]>>
          BY <5>1, SiteFacts
        <5>3. n \in Int
          <6>1. link.sections \in Seq(Seq(Reloc(link)))
            BY <5>1, LinksAssumption
          <6>2. QED
            BY <5>2, <6>1
        <5>4. l[1] = h[1] /\ after # {} /\ l[2] = Min(after)
          BY <4>1 DEF FirstAfter
        <5>5. after \subseteq 1..n /\ after \subseteq Int
          BY <5>2, <5>3
        <5> HIDE DEF after, n
        <5>6. l[2] \in after
          <6>1. IsFiniteSet(1..n)
            BY <5>3, FS_Interval
          <6>2. IsFiniteSet(after)
            BY <5>5, <6>1, FS_Subset
          <6>3. QED
            BY <5>4, <5>5, <6>2, LeastElement
        <5>7. QED
          BY <5>2, <5>4, <5>6 DEF after
      <4>3. QED
        BY <4>1, <4>2
    <3>2. Treatment(h) = "generic" /\ Treatment(l) = "generic"
      BY <3>1, HowtoRows DEF Treatment, Row
    <3>3. installed[h] = <<SymAt(h)>> /\ installed[l] = <<SymAt(l)>>
      BY <2>1, <3>2 DEF WasInstalled
    <3>4. /\ InstallHowto(h) = Row(LoSpan, HiSpan, FALSE, FALSE, "generic")
          /\ InstallHowto(l) = Row(1, LoSpan, FALSE, FALSE, "generic")
          /\ LowSpan(l) = LoSpan
      BY <3>1, <3>2, HowtoRows DEF InstallHowto, LowSpan, Row
    <3>5. /\ InstallHowto(h).unit = LoSpan /\ InstallHowto(h).span = HiSpan
          /\ ~InstallHowto(h).pc_relative
          /\ InstallHowto(l).unit = 1 /\ InstallHowto(l).span = LoSpan
          /\ ~InstallHowto(l).pc_relative
      BY <3>4 DEF Row
    <3>6. LoSpan \in Nat \ {0} /\ HiSpan \in Nat \ {0}
      BY <2>2
    <3>7. PairValue(h, l)
            = (PairTarget(h, l) - Carry(value, AddendField(l), LoSpan))
                 % AddressSpan
      BY <2>2, <3>1, <3>3, <3>4, <3>5, <3>6, PairBuilds, Zenon DEF SymAt
    <3>8. QED
      BY <3>4, <3>7
  <2>4. CASE Mips16Pair(h, l) /\ Treatment(h) = "hi16"
    <3>1. /\ RelocAt(h).type \in {"R_MIPS16_HI16", "R_MIPS16_GOT16"}
          /\ FirstAfter(h, l, "R_MIPS16_LO16") /\ SymAt(h) = SymAt(l)
      BY <2>4 DEF Mips16Pair, Pair, SymAt
    <3>2. link \in Links
      BY DEF Inv, Shape
    <3>3. Treatment(l) = "lo16"
      BY <3>1, <3>2, FirstAfterIsFirst DEF FirstLow, Low
    <3>4. RelocAt(l).type = "R_MIPS16_LO16"
      <4>1. RelocAt(l).type \in Types
        BY <3>2, SiteFacts
      <4>2. QED
        BY <3>3, <4>1, TypeNames, HowtoRows DEF Treatment, Row
    <3>5. installed[h] = <<SymAt(h)>> /\ installed[l] = <<SymAt(l)>>
      <4>1. Pair(h, l, Types, "R_MIPS16_LO16")
        BY <3>1, TypeNames DEF Pair, SymAt
      <4>2. installed[h] = <<SymAt(h)>>
        BY <2>1, <2>4, <4>1, PairInstalled
      <4>3. QED
        BY <2>1, <3>3, <4>2 DEF WasInstalled
    <3>6. InstallHowto(h) = Row(HalfSpan, HalfSpan, FALSE, FALSE, "hi16")
      BY <2>4, <3>1, TypeNames, HowtoRows, HighHowtoRows DEF InstallHowto
    <3>7. /\ InstallHowto(l) = Row(1, HalfSpan, FALSE, FALSE, "lo16")
          /\ LowSpan(l) = HalfSpan
      BY <3>3, <3>4, HowtoRows DEF InstallHowto, LowSpan, Row
    <3>8. /\ InstallHowto(h).unit = HalfSpan /\ InstallHowto(h).span = HalfSpan
          /\ ~InstallHowto(h).pc_relative
          /\ InstallHowto(l).unit = 1 /\ InstallHowto(l).span = HalfSpan
          /\ ~InstallHowto(l).pc_relative
      BY <3>6, <3>7 DEF Row
    <3>9. HalfSpan \in Nat \ {0}
      BY <2>2
    <3>10. PairValue(h, l)
             = (PairTarget(h, l) - Carry(value, AddendField(l), HalfSpan))
                  % AddressSpan
      BY <2>2, <3>1, <3>5, <3>7, <3>8, <3>9, PairBuilds, Zenon DEF SymAt
    <3>11. QED
      BY <3>7, <3>10
  <2>5. QED
    BY <2>3, <2>4
<1>2. QED
  BY <1>1, Invariance, PTL

\* A branch that was not reported goes where it should.
THEOREM BranchesReach == Spec => []BranchReaches
<1>1. Inv => BranchReaches
  <2> SUFFICES ASSUME Inv, NEW s \in Sites(link), RelocAt(s).type = "R_MIPS_PC16",
                      Done(s), s \notin reported
               PROVE  (Address(s) + WordSize * Signed(field[s], BranchSpan)) % AddressSpan
                        = (link.value[SymAt(s)]
                             + WordSize * Signed(AddendField(s), BranchSpan)) % AddressSpan
    BY DEF BranchReaches, SymAt
  <2> DEFINE v == link.value[SymAt(s)]
             p == Address(s)
             w == AddendField(s)
             howto == InstallHowto(s)
  <2>1. link \in Links /\ Past(s) /\ WasInstalled(s) /\ Holds(s) /\ Reported(s)
    BY DEF Inv, Shape, SiteOK, Done
  <2>2. Treatment(s) = "generic"
    BY HowtoRows DEF Treatment, Row
  <2>3. /\ Howto[RelocAt(s).type].pc_relative /\ howto.pc_relative /\ howto.signed
        /\ howto.unit = WordSize /\ howto.span = BranchSpan
    BY <2>2, HowtoRows DEF InstallHowto, Row
  <2>4. /\ SymAt(s) \in DOMAIN link.value /\ w \in 0..(AddressSpan - 1)
        /\ p \in Int /\ p % WordSize = 0 /\ v % WordSize = 0
    BY <2>1, <2>3, SiteFacts
  <2>5. v \in Int /\ w \in Int
    BY <2>1, <2>4, LinksAssumption, Spans
  <2>6. Adjustment(s, howto, SymAt(s)) = v - p
    BY <2>3 DEF Adjustment
  <2>7. field[s] = (w + ((v - p) \div WordSize)) % BranchSpan
    <3>1. installed[s] = <<SymAt(s)>>
      BY <2>1, <2>2 DEF WasInstalled
    <3>2. field[s] = Install(s, SymAt(s))
      <4>1. <<SymAt(s)>> # <<>> /\ <<SymAt(s)>>[1] = SymAt(s)
        OBVIOUS
      <4>2. QED
        BY <2>1, <3>1, <4>1 DEF Holds
    <3>3. QED
      BY <2>1, <2>3, <2>4, <2>6, <3>2, InstallFits
  <2>8. Fits((Signed(v - p, AddressSpan) \div WordSize) + Signed(w, BranchSpan), BranchSpan)
    <3>1. ~Overflows(howto, w, v - p)
      BY <2>1, <2>2, <2>6 DEF Reported
    <3>2. QED
      BY <2>3, <3>1 DEF Overflows
  <2>9. /\ AddressSpan \in Nat \ {0} /\ BranchSpan \in Nat \ {0} /\ WordSize \in Nat \ {0}
        /\ AddressSpan % (WordSize * BranchSpan) = 0
    BY Spans DEF WordSize
  <2> HIDE DEF v, p, w, howto
  <2>10. (p + WordSize * Signed((w + ((v - p) \div WordSize)) % BranchSpan, BranchSpan))
             % AddressSpan
           = (v + WordSize * Signed(w, BranchSpan)) % AddressSpan
    BY <2>4, <2>5, <2>8, <2>9, BranchArithmetic
  <2>11. QED
    BY <2>7, <2>10 DEF v, p, w
<1>2. QED
  BY <1>1, Invariance, PTL
=============================================================================
