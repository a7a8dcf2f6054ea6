--------------------------- MODULE GotPagesProofs ---------------------------
(***************************************************************************)
(* Proofs about GotPages, for every page size, all symbols and addends and *)
(* every order of the relocations.  First the addend ranges: the list      *)
(* stays sorted with its ranges more than a page apart, and covers every   *)
(* addend.  Then the estimate: it counts what the ranges need, and it is   *)
(* enough for all relocations, wherever the symbols end up.                *)
(***************************************************************************)
EXTENDS GotPages, SequenceTheorems, SumTheorems, TLAPS

(***************************************************************************)
(* What the three ways of updating the list do to its elements.            *)
(***************************************************************************)
\* Inserting shifts the elements from position k on by one.
LEMMA InsertAtElements ==
  ASSUME NEW S, NEW s \in Seq(S), NEW k \in 1..(Len(s) + 1), NEW e \in S
  PROVE  /\ InsertAt(s, k, e) \in Seq(S)
         /\ Len(InsertAt(s, k, e)) = Len(s) + 1
         /\ \A i \in 1..(Len(s) + 1) :
              InsertAt(s, k, e)[i] = IF i < k THEN s[i]
                                     ELSE IF i = k THEN e ELSE s[i - 1]
<1> DEFINE front == SubSeq(s, 1, k - 1)
           back == SubSeq(s, k, Len(s))
<1>1. /\ front \in Seq(S) /\ Len(front) = k - 1
      /\ \A i \in 1..(k - 1) : front[i] = s[i]
  OBVIOUS
<1>2. /\ back \in Seq(S) /\ Len(back) = Len(s) - k + 1
      /\ \A i \in 1..(Len(s) - k + 1) : back[i] = s[k + i - 1]
  OBVIOUS
<1>3. InsertAt(s, k, e) = (front \o <<e>>) \o back
  BY DEF InsertAt
<1> HIDE DEF front, back
<1>4. /\ front \o <<e>> \in Seq(S) /\ Len(front \o <<e>>) = k
      /\ \A i \in 1..k : (front \o <<e>>)[i] = IF i < k THEN s[i] ELSE e
  BY <1>1
<1>5. /\ InsertAt(s, k, e) \in Seq(S)
      /\ Len(InsertAt(s, k, e)) = Len(s) + 1
  <2> DEFINE head == front \o <<e>>
  <2>1. head \in Seq(S) /\ Len(head) = k
    BY <1>4
  <2>2. InsertAt(s, k, e) = head \o back
    BY <1>3
  <2> HIDE DEF head
  <2>3. /\ head \o back \in Seq(S)
        /\ Len(head \o back) = Len(head) + Len(back)
    BY <1>2, <2>1, ConcatProperties
  <2>4. QED
    BY <1>2, <2>1, <2>2, <2>3
<1>6. ASSUME NEW i \in 1..(Len(s) + 1)
      PROVE  InsertAt(s, k, e)[i] = IF i < k THEN s[i]
                                    ELSE IF i = k THEN e ELSE s[i - 1]
  <2>1. CASE i <= k
    BY <1>2, <1>3, <1>4, <2>1
  <2>2. CASE i > k
    <3>1. InsertAt(s, k, e)[i] = back[i - k]
      BY <1>2, <1>3, <1>4, <2>2
    <3>2. back[i - k] = s[i - 1]
      BY <1>2, <2>2
    <3>3. QED
      BY <2>2, <3>1, <3>2
  <2>3. QED
    BY <2>1, <2>2
<1>7. QED
  BY <1>5, <1>6

\* Replacing changes the element at position k only.
LEMMA ReplaceAtElements ==
  ASSUME NEW S, NEW s \in Seq(S), NEW k \in 1..Len(s), NEW e \in S
  PROVE  /\ ReplaceAt(s, k, e) \in Seq(S)
         /\ Len(ReplaceAt(s, k, e)) = Len(s)
         /\ \A i \in 1..Len(s) :
              ReplaceAt(s, k, e)[i] = IF i = k THEN e ELSE s[i]
BY DEF ReplaceAt

\* Removing shifts the elements after position k down by one.
LEMMA RemoveAtElements ==
  ASSUME NEW S, NEW s \in Seq(S), NEW k \in 1..Len(s)
  PROVE  /\ RemoveAt(s, k) \in Seq(S)
         /\ Len(RemoveAt(s, k)) = Len(s) - 1
         /\ \A i \in 1..(Len(s) - 1) :
              RemoveAt(s, k)[i] = IF i < k THEN s[i] ELSE s[i + 1]
<1> DEFINE front == SubSeq(s, 1, k - 1)
           back == SubSeq(s, k + 1, Len(s))
<1>1. /\ front \in Seq(S) /\ Len(front) = k - 1
      /\ \A i \in 1..(k - 1) : front[i] = s[i]
  OBVIOUS
<1>2. /\ back \in Seq(S) /\ Len(back) = Len(s) - k
      /\ \A i \in 1..(Len(s) - k) : back[i] = s[k + i]
  OBVIOUS
<1>3. RemoveAt(s, k) = front \o back
  BY DEF RemoveAt
<1> HIDE DEF front, back
<1>4. /\ RemoveAt(s, k) \in Seq(S)
      /\ Len(RemoveAt(s, k)) = Len(s) - 1
  BY <1>1, <1>2, <1>3
<1>5. ASSUME NEW i \in 1..(Len(s) - 1)
      PROVE  RemoveAt(s, k)[i] = IF i < k THEN s[i] ELSE s[i + 1]
  <2>1. CASE i < k
    BY <1>1, <1>2, <1>3, <2>1
  <2>2. CASE i >= k
    <3>1. RemoveAt(s, k)[i] = back[i - (k - 1)]
      BY <1>1, <1>2, <1>3, <2>2
    <3>2. back[i - (k - 1)] = s[i + 1]
      BY <1>2, <2>2
    <3>3. QED
      BY <2>2, <3>1, <3>2
  <2>3. QED
    BY <2>1, <2>2
<1>6. QED
  BY <1>4, <1>5

-----------------------------------------------------------------------------
(***************************************************************************)
(* The properties of one list.                                             *)
(***************************************************************************)
Apart(rs) ==
  /\ \A i \in 1..Len(rs) : rs[i].min_addend <= rs[i].max_addend
  /\ \A i \in 1..(Len(rs) - 1) :
       rs[i].max_addend + (PageSize - 1) < rs[i + 1].min_addend

Covers(rs, A) ==
  \A a \in A : \E i \in 1..Len(rs) :
    a \in rs[i].min_addend .. rs[i].max_addend

Good(rs, A) == rs \in Seq(AddendRange) /\ Apart(rs) /\ Covers(rs, A)

\* The ends of every range of a list are integers.
LEMMA EndsAreIntegers ==
  ASSUME NEW rs \in Seq(AddendRange), NEW i \in 1..Len(rs)
  PROVE  rs[i].min_addend \in Int /\ rs[i].max_addend \in Int
<1>1. rs[i] \in AddendRange
  OBVIOUS
<1>2. QED
  BY <1>1 DEF AddendRange

\* A new range keeps its distance: the search has passed the range before it
\* and found the next one too far above.
LEMMA NewRangeGood ==
  ASSUME NEW A \in SUBSET Int, NEW rs, Good(rs, A), NEW a \in Int,
         NEW k \in 1..(Len(rs) + 1), StopsAt(rs, a, k), StartsRange(rs, a, k)
  PROVE  Good(InsertAt(rs, k, Extent(a, a)), A \cup {a})
<1> DEFINE new == InsertAt(rs, k, Extent(a, a))
<1>1. rs \in Seq(AddendRange) /\ Extent(a, a) \in AddendRange
  BY DEF Good, Extent, AddendRange
<1>2. /\ new \in Seq(AddendRange)
      /\ Len(new) = Len(rs) + 1
      /\ \A i \in 1..(Len(rs) + 1) :
           new[i] = IF i < k THEN rs[i]
                    ELSE IF i = k THEN Extent(a, a) ELSE rs[i - 1]
  BY <1>1, InsertAtElements
<1> HIDE DEF new
<1>3. Extent(a, a).min_addend = a /\ Extent(a, a).max_addend = a
  BY DEF Extent
<1>4. \A i \in 1..Len(rs) : rs[i].min_addend \in Int /\ rs[i].max_addend \in Int
  BY <1>1, EndsAreIntegers
<1>5. Apart(new)
  <2>1. ASSUME NEW i \in 1..Len(new)
        PROVE  new[i].min_addend <= new[i].max_addend
    <3>1. CASE i < k
      <4>1. i \in 1..Len(rs) /\ new[i] = rs[i]
        BY <1>1, <1>2, <3>1
      <4>2. QED
        BY <4>1 DEF Good, Apart
    <3>2. CASE i = k
      BY <1>2, <1>3, <3>2
    <3>3. CASE i > k
      <4>1. i - 1 \in 1..Len(rs) /\ new[i] = rs[i - 1]
        BY <1>1, <1>2, <3>3
      <4>2. QED
        BY <4>1 DEF Good, Apart
    <3>4. QED
      BY <3>1, <3>2, <3>3
  <2>2. ASSUME NEW i \in 1..(Len(new) - 1)
        PROVE  new[i].max_addend + (PageSize - 1) < new[i + 1].min_addend
    <3>1. CASE i < k - 1
      BY <1>1, <1>2, <3>1 DEF Good, Apart
    <3>2. CASE i = k - 1
      <4>1. i \in 1..(k - 1) /\ new[i] = rs[i] /\ new[i + 1] = Extent(a, a)
        <5>1. /\ i \in 1..(k - 1) /\ i + 1 = k
              /\ i \in 1..(Len(rs) + 1) /\ k \in 1..(Len(rs) + 1)
          BY <1>1, <3>2
        <5>2. new[i] = rs[i]
          BY <1>2, <5>1
        <5>3. new[k] = Extent(a, a)
          BY <1>2, <5>1
        <5>4. QED
          BY <5>1, <5>2, <5>3
      <4>2. a > rs[i].max_addend + (PageSize - 1)
        BY <4>1 DEF StopsAt
      <4>3. i \in 1..Len(rs)
        BY <1>1, <1>2, <3>2
      <4>4. QED
        BY <1>3, <1>4, <4>1, <4>2, <4>3, PageSizeAssumption
    <3>3. CASE i = k
      BY <1>1, <1>2, <1>3, <1>4, <3>3, PageSizeAssumption DEF StartsRange
    <3>4. CASE i > k
      <4>1. /\ i - 1 \in 1..(Len(rs) - 1)
            /\ new[i] = rs[i - 1] /\ new[i + 1] = rs[(i - 1) + 1]
        BY <1>1, <1>2, <3>4
      <4>2. QED
        BY <4>1 DEF Good, Apart
    <3>5. QED
      BY <3>1, <3>2, <3>3, <3>4
  <2>3. QED
    BY <2>1, <2>2 DEF Apart
<1>6. Covers(new, A \cup {a})
  <2>1. ASSUME NEW b \in A
        PROVE  \E i \in 1..Len(new) : b \in new[i].min_addend .. new[i].max_addend
    <3>1. PICK i \in 1..Len(rs) : b \in rs[i].min_addend .. rs[i].max_addend
      BY DEF Good, Covers
    <3>2. CASE i < k
      <4>1. i \in 1..Len(new) /\ new[i] = rs[i]
        BY <1>1, <1>2, <3>2
      <4>2. QED
        BY <3>1, <4>1
    <3>3. CASE i >= k
      <4>1. i + 1 \in 1..Len(new) /\ new[i + 1] = rs[i]
        BY <1>1, <1>2, <3>3
      <4>2. QED
        BY <3>1, <4>1
    <3>4. QED
      BY <3>2, <3>3
  <2>2. k \in 1..Len(new) /\ a \in new[k].min_addend .. new[k].max_addend
    BY <1>1, <1>2, <1>3
  <2>3. QED
    BY <2>1, <2>2 DEF Covers
<1>7. QED
  BY <1>2, <1>5, <1>6 DEF Good, new

\* Extending the range at k downwards cannot reach the one before it, which
\* the search has passed, nor upwards the one after it unless they join.
LEMMA ExtendGood ==
  ASSUME NEW A \in SUBSET Int, NEW rs, Good(rs, A), NEW a \in Int,
         NEW k \in 1..Len(rs), StopsAt(rs, a, k), NEW r \in AddendRange,
         \/ /\ a < rs[k].min_addend
            /\ r = Extent(a, rs[k].max_addend)
         \/ /\ a \in rs[k].min_addend .. rs[k].max_addend
            /\ r = rs[k]
         \/ /\ a > rs[k].max_addend
            /\ ~JoinsNext(rs, a, k)
            /\ r = Extent(rs[k].min_addend, a)
  PROVE  Good(ReplaceAt(rs, k, r), A \cup {a})
<1> DEFINE new == ReplaceAt(rs, k, r)
<1>1. rs \in Seq(AddendRange)
  BY DEF Good
<1>2. /\ new \in Seq(AddendRange)
      /\ Len(new) = Len(rs)
      /\ \A i \in 1..Len(rs) : new[i] = IF i = k THEN r ELSE rs[i]
  BY <1>1, ReplaceAtElements
<1> HIDE DEF new
<1>3. /\ \A i \in 1..Len(rs) :
           rs[i].min_addend \in Int /\ rs[i].max_addend \in Int
      /\ r.min_addend \in Int /\ r.max_addend \in Int
  <2>1. r.min_addend \in Int /\ r.max_addend \in Int
    BY DEF AddendRange
  <2>2. QED
    BY <1>1, <2>1, EndsAreIntegers
<1>4. /\ r.min_addend <= rs[k].min_addend /\ rs[k].max_addend <= r.max_addend
      /\ a \in r.min_addend .. r.max_addend
      /\ k > 1 => rs[k - 1].max_addend + (PageSize - 1) < r.min_addend
      /\ k < Len(rs) => r.max_addend + (PageSize - 1) < rs[k + 1].min_addend
  <2>1. rs[k].min_addend <= rs[k].max_addend
    BY <1>1 DEF Good, Apart
  <2>2. /\ k > 1 => rs[k - 1].max_addend + (PageSize - 1) < rs[k].min_addend
        /\ k < Len(rs) => rs[k].max_addend + (PageSize - 1) < rs[k + 1].min_addend
    BY <1>1 DEF Good, Apart
  <2>3. ASSUME k > 1
        PROVE  rs[k - 1].max_addend + (PageSize - 1) < a
    <3>1. k - 1 \in 1..(k - 1) /\ k - 1 \in 1..Len(rs)
      BY <1>1, <2>3
    <3>2. a > rs[k - 1].max_addend + (PageSize - 1)
      BY <3>1 DEF StopsAt
    <3>3. QED
      BY <1>3, <3>1, <3>2, PageSizeAssumption
  <2>4. ~JoinsNext(rs, a, k) /\ k < Len(rs) =>
          a + (PageSize - 1) < rs[k + 1].min_addend
    BY <1>1, <1>3, PageSizeAssumption DEF JoinsNext
  <2>5. QED
    BY <1>3, <2>1, <2>2, <2>3, <2>4, PageSizeAssumption DEF Extent
<1>5. Apart(new)
  <2>1. ASSUME NEW i \in 1..Len(new)
        PROVE  new[i].min_addend <= new[i].max_addend
    BY <1>1, <1>2, <1>3, <1>4 DEF Good, Apart
  <2>2. ASSUME NEW i \in 1..(Len(new) - 1)
        PROVE  new[i].max_addend + (PageSize - 1) < new[i + 1].min_addend
    <3>1. CASE i = k - 1
      BY <1>1, <1>2, <1>4, <3>1
    <3>2. CASE i = k
      BY <1>1, <1>2, <1>4, <3>2
    <3>3. CASE i # k - 1 /\ i # k
      BY <1>1, <1>2, <3>3 DEF Good, Apart
    <3>4. QED
      BY <3>1, <3>2, <3>3
  <2>3. QED
    BY <2>1, <2>2 DEF Apart
<1>6. Covers(new, A \cup {a})
  <2>1. ASSUME NEW b \in A
        PROVE  \E i \in 1..Len(new) : b \in new[i].min_addend .. new[i].max_addend
    <3>1. PICK i \in 1..Len(rs) : b \in rs[i].min_addend .. rs[i].max_addend
      BY DEF Good, Covers
    <3>2. new[i].min_addend <= rs[i].min_addend /\ rs[i].max_addend <= new[i].max_addend
      BY <1>1, <1>2, <1>3, <1>4
    <3>3. new[i].min_addend \in Int /\ new[i].max_addend \in Int
      BY <1>2, <1>3
    <3>4. QED
      BY <1>2, <1>3, <3>1, <3>2, <3>3
  <2>2. k \in 1..Len(new) /\ a \in new[k].min_addend .. new[k].max_addend
    BY <1>2, <1>4
  <2>3. QED
    BY <2>1, <2>2 DEF Covers
<1>7. QED
  BY <1>2, <1>5, <1>6 DEF Good, new

\* Joining the ranges at k and k + 1 keeps the outer distances.
LEMMA JoinGood ==
  ASSUME NEW A \in SUBSET Int, NEW rs, Good(rs, A), NEW a \in Int,
         NEW k \in 1..(Len(rs) - 1), a > rs[k].max_addend,
         JoinsNext(rs, a, k), StopsAt(rs, a, k)
  PROVE  LET joined == Extent(rs[k].min_addend, rs[k + 1].max_addend)
         IN  Good(RemoveAt(ReplaceAt(rs, k, joined), k + 1), A \cup {a})
<1> DEFINE joined == Extent(rs[k].min_addend, rs[k + 1].max_addend)
           wide == ReplaceAt(rs, k, joined)
           new == RemoveAt(wide, k + 1)
<1>1. rs \in Seq(AddendRange) /\ k \in 1..Len(rs) /\ k + 1 \in 1..Len(rs)
  BY DEF Good
<1>2. \A i \in 1..Len(rs) : rs[i].min_addend \in Int /\ rs[i].max_addend \in Int
  BY <1>1, EndsAreIntegers
<1>3. /\ joined \in AddendRange
      /\ joined.min_addend = rs[k].min_addend
      /\ joined.max_addend = rs[k + 1].max_addend
  BY <1>1, <1>2 DEF Extent, AddendRange
<1> HIDE DEF joined
<1>4. /\ wide \in Seq(AddendRange)
      /\ Len(wide) = Len(rs)
      /\ \A i \in 1..Len(rs) : wide[i] = IF i = k THEN joined ELSE rs[i]
  <2>1. joined \in AddendRange /\ rs \in Seq(AddendRange) /\ k \in 1..Len(rs)
    BY <1>1, <1>3
  <2>2. QED
    BY <2>1 DEF ReplaceAt
<1> HIDE DEF wide
<1>5. /\ new \in Seq(AddendRange)
      /\ Len(new) = Len(rs) - 1
      /\ \A i \in 1..(Len(rs) - 1) :
           new[i] = IF i < k + 1 THEN wide[i] ELSE wide[i + 1]
  <2>1. k + 1 \in 1..Len(wide)
    BY <1>1, <1>4
  <2>2. /\ new \in Seq(AddendRange)
        /\ Len(new) = Len(wide) - 1
        /\ \A i \in 1..(Len(wide) - 1) :
             new[i] = IF i < k + 1 THEN wide[i] ELSE wide[i + 1]
    BY <1>4, <2>1, RemoveAtElements, Zenon
  <2>3. QED
    BY <1>4, <2>2
<1> HIDE DEF new
<1>6. ASSUME NEW i \in 1..Len(new)
      PROVE  new[i] = IF i = k THEN joined ELSE IF i < k THEN rs[i] ELSE rs[i + 1]
  <2>1. i \in 1..(Len(rs) - 1)
    BY <1>5
  <2>2. CASE i <= k
    BY <1>1, <1>4, <1>5, <2>1, <2>2
  <2>3. CASE i > k
    BY <1>1, <1>4, <1>5, <2>1, <2>3
  <2>4. QED
    BY <1>1, <2>1, <2>2, <2>3
<1>7. Apart(new)
  <2>1. ASSUME NEW i \in 1..Len(new)
        PROVE  new[i].min_addend <= new[i].max_addend
    <3>1. CASE i < k
      BY <1>1, <1>5, <1>6, <3>1 DEF Good, Apart
    <3>2. CASE i = k
      <4>1. /\ rs[k].min_addend <= rs[k].max_addend
            /\ rs[k].max_addend + (PageSize - 1) < rs[k + 1].min_addend
            /\ rs[k + 1].min_addend <= rs[k + 1].max_addend
        BY <1>1 DEF Good, Apart
      <4>2. QED
        BY <1>1, <1>2, <1>3, <1>6, <3>2, <4>1, PageSizeAssumption
    <3>3. CASE i > k
      BY <1>1, <1>5, <1>6, <3>3 DEF Good, Apart
    <3>4. QED
      BY <3>1, <3>2, <3>3
  <2>2. ASSUME NEW i \in 1..(Len(new) - 1)
        PROVE  new[i].max_addend + (PageSize - 1) < new[i + 1].min_addend
    <3>1. /\ i \in 1..Len(new) /\ i + 1 \in 1..Len(new)
          /\ i \in 1..(Len(rs) - 1) /\ i + 1 \in 1..(Len(rs) - 1)
      BY <1>1, <1>5
    <3>2. /\ rs[i].max_addend + (PageSize - 1) < rs[i + 1].min_addend
          /\ rs[i + 1].max_addend + (PageSize - 1) < rs[(i + 1) + 1].min_addend
      BY <3>1 DEF Good, Apart
    <3>3. CASE i < k - 1
      BY <1>1, <1>6, <3>1, <3>2, <3>3
    <3>4. CASE i = k - 1
      BY <1>1, <1>3, <1>6, <3>1, <3>2, <3>4
    <3>5. CASE i = k
      BY <1>1, <1>3, <1>6, <3>1, <3>2, <3>5
    <3>6. CASE i > k
      <4>1. new[i] = rs[i + 1]
        BY <1>6, <3>1, <3>6
      <4>2. new[i + 1] = rs[(i + 1) + 1]
        <5>1. i + 1 # k /\ ~(i + 1 < k)
          BY <1>1, <3>6
        <5>2. QED
          BY <1>6, <3>1, <5>1
      <4>3. QED
        BY <3>2, <4>1, <4>2
    <3>7. QED
      BY <3>3, <3>4, <3>5, <3>6
  <2>3. QED
    BY <2>1, <2>2 DEF Apart
<1>8. Covers(new, A \cup {a})
  <2>1. /\ rs[k].min_addend <= rs[k].max_addend
        /\ rs[k].max_addend + (PageSize - 1) < rs[k + 1].min_addend
        /\ rs[k + 1].min_addend <= rs[k + 1].max_addend
    BY <1>1 DEF Good, Apart
  <2>2. k \in 1..Len(new) /\ new[k] = joined
    BY <1>1, <1>5, <1>6
  <2>3. ASSUME NEW b \in A
        PROVE  \E i \in 1..Len(new) : b \in new[i].min_addend .. new[i].max_addend
    <3>1. PICK i \in 1..Len(rs) : b \in rs[i].min_addend .. rs[i].max_addend
      BY DEF Good, Covers
    <3>2. CASE i < k
      <4>1. i \in 1..Len(new) /\ new[i] = rs[i]
        BY <1>1, <1>5, <1>6, <3>2
      <4>2. QED
        BY <3>1, <4>1
    <3>3. CASE i = k \/ i = k + 1
      <4>1. b \in joined.min_addend .. joined.max_addend
        BY <1>1, <1>2, <1>3, <2>1, <3>1, <3>3, PageSizeAssumption
      <4>2. QED
        BY <2>2, <4>1
    <3>4. CASE i > k + 1
      <4>1. i - 1 \in 1..Len(new) /\ new[i - 1] = rs[i]
        BY <1>1, <1>5, <1>6, <3>4
      <4>2. QED
        BY <3>1, <4>1
    <3>5. QED
      BY <1>1, <3>2, <3>3, <3>4
  <2>4. a \in joined.min_addend .. joined.max_addend
    <3>1. a <= rs[k].max_addend + (PageSize - 1)
      BY <1>1 DEF StopsAt
    <3>2. QED
      BY <1>1, <1>2, <1>3, <2>1, <3>1, PageSizeAssumption
  <2>5. QED
    BY <2>2, <2>3, <2>4 DEF Covers
<1>9. QED
  BY <1>5, <1>7, <1>8 DEF Good, new, wide, joined

-----------------------------------------------------------------------------
(***************************************************************************)
(* The specification.  TypeOK alone is not inductive for the ranges: that  *)
(* an extension keeps them apart rests on where the search stopped, hence  *)
(* on all of them being apart before.                                      *)
(***************************************************************************)
AllGood == \A ref \in Refs : Good(ranges[ref], seen[ref])

Inv == TypeOK /\ AllGood

\* The number of pages of a range is an integer.
LEMMA PagesForRangeType ==
  ASSUME NEW r \in AddendRange
  PROVE  PagesForRange(r) \in Int
<1>1. /\ r.max_addend - r.min_addend + 2 * PageSize - 1 \in Int
      /\ PageSize \in Nat /\ PageSize > 0
  BY PageSizeAssumption DEF AddendRange
<1>2. QED
  BY <1>1 DEF PagesForRange

\* Recording a page addend, whichever of the five cases applies.
LEMMA RecordPageInv ==
  ASSUME Inv, NEW ref \in Refs, NEW a \in PageAddends, RecordPage(ref, a)
  PROVE  Inv'
<1> DEFINE rs == ranges[ref]
<1>1. PICK k \in 1..(Len(rs) + 1) :
        /\ StopsAt(rs, a, k)
        /\ \/ NewRange(ref, a, k)
           \/ ExtendDown(ref, a, k)
           \/ Inside(ref, a, k)
           \/ ExtendUp(ref, a, k)
           \/ Join(ref, a, k)
  BY DEF RecordPage
<1>2. /\ a \in Int /\ seen[ref] \in SUBSET Int
      /\ rs \in Seq(AddendRange) /\ Good(rs, seen[ref])
  BY AddendsAssumption DEF Inv, TypeOK, AllGood
<1>3. ASSUME NEW new, NEW delta \in Int,
             Good(new, seen[ref] \cup {a}), Record(ref, a, new, delta)
      PROVE  Inv'
  <2>1. new \in Seq(AddendRange)
    BY <1>3 DEF Good
  <2>2. TypeOK'
    BY <1>3, <2>1 DEF Inv, TypeOK, Record
  <2>3. ASSUME NEW other \in Refs
        PROVE  Good(ranges'[other], seen'[other])
    <3>1. CASE other = ref
      <4>1. ranges'[other] = new /\ seen'[other] = seen[ref] \cup {a}
        BY <1>3, <3>1 DEF Inv, TypeOK, Record
      <4>2. QED
        BY <1>3, <4>1
    <3>2. CASE other # ref
      <4>1. ranges'[other] = ranges[other] /\ seen'[other] = seen[other]
        BY <1>3, <3>2 DEF Inv, TypeOK, Record
      <4>2. QED
        BY <4>1 DEF Inv, AllGood
    <3>3. QED
      BY <3>1, <3>2
  <2>4. QED
    BY <2>2, <2>3 DEF Inv, AllGood
<1>4. CASE NewRange(ref, a, k)
  <2>1. Good(InsertAt(rs, k, Extent(a, a)), seen[ref] \cup {a})
    BY <1>1, <1>2, <1>4, NewRangeGood DEF NewRange
  <2>2. QED
    BY <1>3, <1>4, <2>1 DEF NewRange
<1>5. ASSUME ~StartsRange(rs, a, k)
      PROVE  k \in 1..Len(rs)
  BY <1>1, <1>2, <1>5 DEF StartsRange
<1>6. ASSUME k \in 1..Len(rs), NEW r, Extend(ref, a, k, r),
             \/ a < rs[k].min_addend /\ r = Extent(a, rs[k].max_addend)
             \/ a \in rs[k].min_addend .. rs[k].max_addend /\ r = rs[k]
             \/ /\ a > rs[k].max_addend /\ ~JoinsNext(rs, a, k)
                /\ r = Extent(rs[k].min_addend, a)
      PROVE  Inv'
  <2>1. rs[k] \in AddendRange
    BY <1>2, <1>6
  <2>2. r \in AddendRange
    BY <1>2, <1>6, <2>1 DEF AddendRange, Extent
  <2>3. Good(ReplaceAt(rs, k, r), seen[ref] \cup {a})
    BY <1>1, <1>2, <1>6, <2>2, ExtendGood
  <2>4. PagesForRange(r) - PagesForRange(rs[k]) \in Int
    BY <2>1, <2>2, PagesForRangeType
  <2>5. QED
    BY <1>3, <1>6, <2>3, <2>4 DEF Extend
<1>7. CASE ExtendDown(ref, a, k)
  BY <1>5, <1>6, <1>7 DEF ExtendDown
<1>8. CASE Inside(ref, a, k)
  BY <1>5, <1>6, <1>8 DEF Inside
<1>9. CASE ExtendUp(ref, a, k)
  BY <1>5, <1>6, <1>9 DEF ExtendUp
<1>10. CASE Join(ref, a, k)
  <2> DEFINE joined == Extent(rs[k].min_addend, rs[k + 1].max_addend)
             delta == PagesForRange(joined) - PagesForRange(rs[k])
                                            - PagesForRange(rs[k + 1])
  <2>1. /\ a > rs[k].max_addend /\ JoinsNext(rs, a, k)
        /\ Record(ref, a, RemoveAt(ReplaceAt(rs, k, joined), k + 1), delta)
    BY <1>10 DEF Join
  <2>2. k \in 1..(Len(rs) - 1)
    BY <1>1, <1>2, <2>1 DEF JoinsNext
  <2>3. rs[k] \in AddendRange /\ rs[k + 1] \in AddendRange
    BY <1>2, <2>2
  <2>4. joined \in AddendRange
    BY <2>3 DEF AddendRange, Extent
  <2>5. delta \in Int
    BY <2>3, <2>4, PagesForRangeType
  <2>6. Good(RemoveAt(ReplaceAt(rs, k, joined), k + 1), seen[ref] \cup {a})
    BY <1>1, <1>2, <2>1, <2>2, JoinGood
  <2> HIDE DEF joined, delta
  <2>7. QED
    BY <1>3, <2>1, <2>5, <2>6
<1>11. QED
  BY <1>1, <1>4, <1>7, <1>8, <1>9, <1>10

\* Every step preserves the invariant.
LEMMA NextInv == Inv /\ [Next]_vars => Inv'
<1> SUFFICES ASSUME Inv, [Next]_vars
             PROVE  Inv'
  OBVIOUS
<1>1. ASSUME UNCHANGED <<ranges, seen>>, TypeOK'
      PROVE  Inv'
  BY <1>1 DEF Inv, AllGood
<1>2. ASSUME NEW ref \in Refs, NEW a \in PageAddends, RecordPage(ref, a)
      PROVE  Inv'
  BY <1>2, RecordPageInv
<1>3. ASSUME NEW addr \in Int, CreateLocalEntry(addr)
      PROVE  Inv'
  <2>1. CASE FindEntry(addr)
    BY <1>1, <2>1 DEF Inv, TypeOK, FindEntry, vars
  <2>2. CASE CreateEntry(addr)
    <3>1. TypeOK'
      BY <1>3, <2>2 DEF Inv, TypeOK, CreateEntry
    <3>2. QED
      BY <1>1, <2>2, <3>1 DEF CreateEntry
  <2>3. QED
    BY <1>3, <2>1, <2>2 DEF CreateLocalEntry
<1>4. ASSUME NEW ref \in Refs, NEW a \in PageAddends, RelocatePage(ref, a)
      PROVE  Inv'
  <2>1. value[ref] + a \in Int
    BY AddendsAssumption DEF Inv, TypeOK
  <2>2. PageOf(value[ref] + a) \in Int
    BY <2>1, PageSizeAssumption DEF PageOf
  <2>3. QED
    BY <1>3, <1>4, <2>2 DEF RelocatePage
<1>5. ASSUME NEW ref \in Refs, NEW a \in DispAddends, RecordLocal(ref, a)
      PROVE  Inv'
  <2>1. TypeOK'
    BY <1>5 DEF Inv, TypeOK, RecordLocal
  <2>2. QED
    BY <1>1, <1>5, <2>1 DEF RecordLocal
<1>6. ASSUME NEW ref \in Refs, NEW a \in DispAddends, RelocateLocal(ref, a)
      PROVE  Inv'
  <2>1. value[ref] + a \in Int
    BY AddendsAssumption DEF Inv, TypeOK
  <2>2. QED
    BY <1>3, <1>6, <2>1 DEF RelocateLocal
<1>7. ASSUME NEW l \in Layouts, LayOutGot(l)
      PROVE  Inv'
  <2>1. l.value \in [Refs -> Int] /\ l.text \in Segment /\ l.data \in Segment
    BY LayoutsAssumption
  <2>2. LoadableSize(l) \in Int
    BY <2>1 DEF LoadableSize, SizeOf, Segment
  <2>3. PageEstimate(l) \in Int
    BY <2>2, PageSizeAssumption, SlotsAssumption
       DEF PageEstimate, Min2, Inv, TypeOK
  <2>4. TypeOK'
    BY <1>7, <2>1, <2>3, SlotsAssumption DEF Inv, TypeOK, LayOutGot
  <2>5. QED
    BY <1>1, <1>7, <2>4 DEF LayOutGot
<1>8. CASE UNCHANGED vars
  BY <1>1, <1>8 DEF Inv, TypeOK, vars
<1>9. QED
  BY <1>2, <1>4, <1>5, <1>6, <1>7, <1>8 DEF Next

\* Nothing is recorded when the GOT has just been created.
LEMMA InitInv == Init => Inv
<1> SUFFICES ASSUME Init
             PROVE  Inv
  OBVIOUS
<1>1. TypeOK
  <2>1. <<>> \in Seq(AddendRange)
    OBVIOUS
  <2>2. ranges \in [Refs -> Seq(AddendRange)]
    BY <2>1 DEF Init
  <2>3. seen \in [Refs -> SUBSET PageAddends]
    BY DEF Init
  <2>4. /\ num_pages \in [Refs -> Int] /\ value \in [Refs -> Int]
    BY DEF Init
  <2>5. phase \in {"scan", "relocate"} /\ failed \in BOOLEAN
    BY Zenon DEF Init
  <2>6. /\ page_gotno \in Int /\ local_gotno \in Int /\ assigned_gotno \in Nat
        /\ got_symbols \subseteq Refs \X DispAddends /\ got_entries \subseteq Int
    BY DEF Init
  <2>7. QED
    BY <2>2, <2>3, <2>4, <2>5, <2>6 DEF TypeOK
<1>2. ASSUME NEW ref \in Refs
      PROVE  Good(ranges[ref], seen[ref])
  <2>1. ranges[ref] = <<>> /\ seen[ref] = {}
    BY DEF Init
  <2>2. QED
    BY <2>1 DEF Good, Apart, Covers
<1>3. QED
  BY <1>1, <1>2 DEF Inv, AllGood

\* The invariant holds in every reachable state.
THEOREM Invariance == Spec => []Inv
<1>1. Init => Inv
  BY InitInv
<1>2. Inv /\ [Next]_vars => Inv'
  BY NextInv
<1>3. QED
  BY <1>1, <1>2, PTL DEF Spec

\* Type correctness of the page accounting.
THEOREM TypeCorrect == Spec => []TypeOK
<1>1. Inv => TypeOK
  BY DEF Inv
<1>2. QED
  BY <1>1, Invariance, PTL

\* The ranges that mips_elf_record_got_page_entry keeps are sorted and more
\* than a page apart, for any page size, addends and order of relocations.
THEOREM RangesStayApart == Spec => []RangesApart
<1>1. Inv => RangesApart
  BY DEF Inv, AllGood, Good, Apart, RangesApart
<1>2. QED
  BY <1>1, Invariance, PTL

\* No recorded addend ever falls outside the ranges.
THEOREM AddendsStayCovered == Spec => []SeenCovered
<1>1. Inv => SeenCovered
  BY DEF Inv, AllGood, Good, Covers, SeenCovered
<1>2. QED
  BY <1>1, Invariance, PTL

-----------------------------------------------------------------------------
(***************************************************************************)
(* The pages that addresses touch.                                         *)
(***************************************************************************)
\* The pages that the addends A of a symbol with value base touch.
Touched(A, base) == {PageOf(base + a) : a \in A}

\* Division by the page size rounds down.
LEMMA PageDivision ==
  ASSUME NEW x \in Int
  PROVE  /\ x \div PageSize \in Int
         /\ PageSize * (x \div PageSize) <= x
         /\ x < PageSize * (x \div PageSize) + PageSize
BY PageSizeAssumption

\* The order of multiples of the page size is that of the factors.
LEMMA PageMultiples ==
  ASSUME NEW m \in Int, NEW n \in Int, PageSize * m < PageSize * n
  PROVE  m < n
BY PageSizeAssumption

\* The addresses from x to y touch at most (y - x) / PageSize + 2 pages.
LEMMA PagesBetween ==
  ASSUME NEW x \in Int, NEW y \in Int, x <= y
  PROVE  /\ IsFiniteSet({PageOf(z) : z \in x..y})
         /\ Cardinality({PageOf(z) : z \in x..y}) \in Nat
         /\ PageSize * Cardinality({PageOf(z) : z \in x..y}) < (y - x) + 2 * PageSize
<1> DEFINE half == PageSize \div 2
           lo == (x + half) \div PageSize
           hi == (y + half) \div PageSize
           pages == [q \in lo..hi |-> q * PageSize]
           all == {pages[q] : q \in lo..hi}
           touched == {PageOf(z) : z \in x..y}
<1>1. half \in Int
  BY PageSizeAssumption
<1>2. /\ lo \in Int /\ x + half < PageSize * lo + PageSize
      /\ hi \in Int /\ PageSize * hi <= y + half
  <2> HIDE DEF half
  <2>1. x + half \in Int /\ y + half \in Int
    BY <1>1
  <2>2. QED
    BY <2>1, PageDivision
<1>3. ASSUME NEW z \in x..y
      PROVE  PageOf(z) \in all
  <2> DEFINE q == (z + half) \div PageSize
  <2>1. /\ q \in Int /\ PageSize * q <= z + half
        /\ z + half < PageSize * q + PageSize
    <3> HIDE DEF half
    <3>1. z + half \in Int
      BY <1>1
    <3>2. QED
      BY <3>1, PageDivision
  <2>2. PageSize * lo <= x + half /\ y + half < PageSize * hi + PageSize
    <3> HIDE DEF half
    <3>1. x + half \in Int /\ y + half \in Int
      BY <1>1
    <3>2. QED
      BY <3>1, PageDivision
  <2>3. PageOf(z) = q * PageSize
    BY DEF PageOf
  <2> HIDE DEF q, lo, hi, half
  <2>4. PageSize * lo < PageSize * (q + 1) /\ PageSize * q < PageSize * (hi + 1)
    BY <1>1, <1>2, <2>1, <2>2, PageSizeAssumption
  <2>5. lo < q + 1 /\ q < hi + 1
    BY <1>2, <2>1, <2>4, PageMultiples
  <2>6. q \in lo..hi
    BY <1>2, <2>1, <2>5
  <2>7. QED
    BY <2>3, <2>6
<1>4. touched # {}
  <2>1. PageOf(x) \in touched
    OBVIOUS
  <2>2. QED
    BY <2>1
<1> HIDE DEF lo, hi, half
<1>5. IsFiniteSet(lo..hi) /\ lo <= hi /\ Cardinality(lo..hi) = hi - lo + 1
  <2>1. lo <= hi
    BY <1>2, <1>3, <1>4
  <2>2. QED
    BY <1>2, <2>1, FS_Interval
<1>6. IsFiniteSet(all) /\ Cardinality(all) <= hi - lo + 1
  <2> HIDE DEF pages
  <2>1. QED
    BY <1>5, ImageFinite
<1>7. touched \subseteq all
  BY <1>3
<1> HIDE DEF all, touched
<1>8. /\ IsFiniteSet(touched) /\ Cardinality(touched) <= Cardinality(all)
      /\ Cardinality(touched) \in Nat /\ Cardinality(all) \in Nat
  BY <1>6, <1>7, FS_Subset, FS_CardinalityType
<1>9. PageSize * (hi - lo + 1) < (y - x) + 2 * PageSize
  BY <1>1, <1>2, PageSizeAssumption
<1>10. PageSize * Cardinality(touched) <= PageSize * (hi - lo + 1)
  <2>1. Cardinality(touched) <= hi - lo + 1
    BY <1>2, <1>6, <1>8
  <2>2. ASSUME NEW c \in Nat, NEW d \in Int, c <= d
        PROVE  PageSize * c <= PageSize * d
    BY <2>2, PageSizeAssumption
  <2>3. QED
    BY <1>2, <1>8, <2>1, <2>2
<1>11. QED
  <2>1. PageSize * Cardinality(touched) \in Int /\ PageSize * (hi - lo + 1) \in Int
    BY <1>2, <1>8, PageSizeAssumption
  <2>2. PageSize * Cardinality(touched) < (y - x) + 2 * PageSize
    BY <1>9, <1>10, <2>1, PageSizeAssumption
  <2>3. QED
    BY <1>8, <2>2 DEF touched

\* mips_elf_pages_for_range: the addends of one range touch no more pages than
\* it estimates, whatever the value of the symbol.
LEMMA PagesOfRange ==
  ASSUME NEW r \in AddendRange, r.min_addend <= r.max_addend, NEW base \in Int
  PROVE  /\ IsFiniteSet(Touched(r.min_addend .. r.max_addend, base))
         /\ PagesForRange(r) \in Nat
         /\ Cardinality(Touched(r.min_addend .. r.max_addend, base))
              <= PagesForRange(r)
<1> DEFINE lo == r.min_addend
           hi == r.max_addend
           all == {PageOf(z) : z \in (base + lo)..(base + hi)}
           touched == Touched(lo..hi, base)
<1>1. lo \in Int /\ hi \in Int /\ lo <= hi
  BY DEF AddendRange
<1>2. touched \subseteq all
  <2>1. ASSUME NEW a \in lo..hi
        PROVE  base + a \in (base + lo)..(base + hi)
    BY <1>1
  <2>2. QED
    BY <2>1 DEF Touched
<1> HIDE DEF lo, hi
<1>3. /\ IsFiniteSet(all) /\ Cardinality(all) \in Nat
      /\ PageSize * Cardinality(all) < (hi - lo) + 2 * PageSize
  <2>1. base + lo \in Int /\ base + hi \in Int /\ base + lo <= base + hi
        /\ (base + hi) - (base + lo) = hi - lo
    BY <1>1
  <2>2. QED
    BY <2>1, PagesBetween
<1>4. IsFiniteSet(touched) /\ Cardinality(touched) <= Cardinality(all)
      /\ Cardinality(touched) \in Nat
  <2> HIDE DEF all, touched
  <2>1. QED
    BY <1>2, <1>3, FS_Subset, FS_CardinalityType
<1>5. PagesForRange(r) = (hi - lo + 2 * PageSize - 1) \div PageSize
  BY DEF PagesForRange, lo, hi
<1> DEFINE n == PagesForRange(r)
           c == Cardinality(all)
<1>6. n \in Int /\ hi - lo + 2 * PageSize - 1 < PageSize * n + PageSize
  <2>1. hi - lo + 2 * PageSize - 1 \in Int
    BY <1>1, PageSizeAssumption
  <2>2. QED
    BY <1>5, <2>1, PageDivision
<1>7. c \in Nat /\ PageSize * c < (hi - lo) + 2 * PageSize
  BY <1>3
<1> HIDE DEF n, c
<1>8. PageSize * c < PageSize * (n + 1)
  BY <1>1, <1>6, <1>7, PageSizeAssumption
<1>9. c < n + 1
  BY <1>6, <1>7, <1>8, PageMultiples
<1>10. n \in Nat /\ c <= n
  BY <1>6, <1>7, <1>9
<1> HIDE DEF touched
<1>11. Cardinality(touched) <= n
  BY <1>4, <1>7, <1>10 DEF c
<1>12. QED
  BY <1>4, <1>10, <1>11 DEF n, touched, lo, hi

-----------------------------------------------------------------------------
(***************************************************************************)
(* The estimate of a list of ranges.                                       *)
(***************************************************************************)
PagesAt(rs) == [i \in 1..Len(rs) |-> PagesForRange(rs[i])]

\* The estimate is the sum of what the ranges need, and it is a number.
LEMMA PagesAtType ==
  ASSUME NEW rs \in Seq(AddendRange)
  PROVE  /\ IsFiniteSet(1..Len(rs))
         /\ \A i \in 1..Len(rs) : PagesAt(rs)[i] \in Int
         /\ PagesNeeded(rs) = SumFunctionOnSet(PagesAt(rs), 1..Len(rs))
         /\ PagesNeeded(rs) \in Int
<1>1. IsFiniteSet(1..Len(rs))
  BY FS_Interval
<1>2. \A i \in 1..Len(rs) : PagesAt(rs)[i] \in Int
  BY PagesForRangeType DEF PagesAt
<1>3. PagesNeeded(rs) = SumFunctionOnSet(PagesAt(rs), 1..Len(rs))
  BY DEF PagesNeeded, PagesAt
<1>4. QED
  BY <1>1, <1>2, <1>3, SumInt

\* A new range adds its pages.
LEMMA InsertPages ==
  ASSUME NEW rs \in Seq(AddendRange), NEW k \in 1..(Len(rs) + 1), NEW r \in AddendRange
  PROVE  PagesNeeded(InsertAt(rs, k, r)) = PagesNeeded(rs) + PagesForRange(r)
<1>1. /\ InsertAt(rs, k, r) \in Seq(AddendRange)
      /\ Len(InsertAt(rs, k, r)) = Len(rs) + 1
      /\ \A i \in 1..(Len(rs) + 1) :
           InsertAt(rs, k, r)[i] =
             IF i < k THEN rs[i] ELSE IF i = k THEN r ELSE rs[i - 1]
  <2>1. /\ InsertAt(rs, k, r) \in Seq(AddendRange)
        /\ Len(InsertAt(rs, k, r)) = Len(rs) + 1
    BY InsertAtElements
  <2>2. ASSUME NEW i \in 1..(Len(rs) + 1)
        PROVE  InsertAt(rs, k, r)[i] =
                 IF i < k THEN rs[i] ELSE IF i = k THEN r ELSE rs[i - 1]
    BY InsertAtElements
  <2>3. QED
    BY <2>1, <2>2
<1> DEFINE new == InsertAt(rs, k, r)
           n == Len(rs)
           b == [i \in 1..n |-> IF i < k THEN i ELSE i + 1]
           rest == (1..(n + 1)) \ {k}
<1>2. /\ new \in Seq(AddendRange) /\ Len(new) = n + 1
      /\ \A i \in 1..(n + 1) :
           new[i] = IF i < k THEN rs[i] ELSE IF i = k THEN r ELSE rs[i - 1]
  BY <1>1
<1> HIDE DEF new
<1>3. n \in Nat /\ k \in 1..(n + 1)
  OBVIOUS
<1>4. \A i, j \in 1..n : b[i] = b[j] => i = j
  BY <1>3
<1>5. ASSUME NEW i \in 1..n
      PROVE  PagesAt(rs)[i] \in Int /\ PagesAt(rs)[i] = PagesAt(new)[b[i]]
  <2>1. b[i] \in 1..(n + 1) /\ new[b[i]] = rs[i]
    BY <1>2, <1>3
  <2>2. PagesAt(new)[b[i]] = PagesForRange(rs[i]) /\ PagesAt(rs)[i] = PagesForRange(rs[i])
    BY <1>2, <2>1 DEF PagesAt
  <2>3. QED
    BY <2>2, PagesAtType
<1>6. ASSUME NEW j \in rest
      PROVE  \E i \in 1..n : b[i] = j
  <2>1. CASE j < k
    BY <1>3, <2>1
  <2>2. CASE j > k
    <3>1. j - 1 \in 1..n /\ b[j - 1] = j
      BY <1>3, <2>2
    <3>2. QED
      BY <3>1
  <2>3. QED
    BY <1>3, <2>1, <2>2
<1>7. \A i \in 1..n : b[i] \in rest
  BY <1>3
<1> HIDE DEF b
<1>8. Renames(b, 1..n, rest)
  BY <1>4, <1>6, <1>7 DEF Renames
<1>9. PagesNeeded(rs) = SumFunctionOnSet(PagesAt(new), rest)
  <2>1. IsFiniteSet(1..n) /\ PagesNeeded(rs) = SumFunctionOnSet(PagesAt(rs), 1..n)
    BY PagesAtType
  <2> DEFINE S == 1..n
             f == PagesAt(rs)
             g == PagesAt(new)
  <2>2. /\ IsFiniteSet(S) /\ Renames(b, S, rest)
        /\ \A i \in S : f[i] \in Int /\ f[i] = g[b[i]]
    BY <2>1, <1>5, <1>8
  <2> HIDE DEF S, rest, f, g
  <2>3. SumFunctionOnSet(f, S) = SumFunctionOnSet(g, rest)
    BY <2>2, SumImage
  <2>4. QED
    BY <2>1, <2>3 DEF S, f, g
<1>10. PagesNeeded(new) = PagesAt(new)[k] + SumFunctionOnSet(PagesAt(new), rest)
  <2>1. /\ IsFiniteSet(1..(n + 1)) /\ \A i \in 1..(n + 1) : PagesAt(new)[i] \in Int
        /\ PagesNeeded(new) = SumFunctionOnSet(PagesAt(new), 1..(n + 1))
    BY <1>2, PagesAtType
  <2>2. QED
    BY <2>1, SumRemove
<1>11. PagesAt(new)[k] = PagesForRange(r)
  BY <1>2 DEF PagesAt
<1>12. PagesNeeded(rs) \in Int /\ PagesForRange(r) \in Int
  BY PagesAtType, PagesForRangeType
<1>13. QED
  BY <1>9, <1>10, <1>11, <1>12 DEF new

\* A range that is replaced gives its pages back.
LEMMA ReplacePages ==
  ASSUME NEW rs \in Seq(AddendRange), NEW k \in 1..Len(rs), NEW r \in AddendRange
  PROVE  PagesNeeded(ReplaceAt(rs, k, r))
           = PagesNeeded(rs) + (PagesForRange(r) - PagesForRange(rs[k]))
<1> DEFINE new == ReplaceAt(rs, k, r)
<1>1. /\ new \in Seq(AddendRange) /\ Len(new) = Len(rs)
      /\ \A i \in 1..Len(rs) : new[i] = IF i = k THEN r ELSE rs[i]
  BY ReplaceAtElements
<1> HIDE DEF new
<1>2. \A i \in 1..Len(rs) : i # k => PagesAt(rs)[i] = PagesAt(new)[i]
  BY <1>1 DEF PagesAt
<1>3. /\ PagesAt(rs)[k] = PagesForRange(rs[k])
      /\ PagesAt(new)[k] = PagesForRange(r)
  BY <1>1 DEF PagesAt
<1>4. /\ IsFiniteSet(1..Len(rs))
      /\ \A i \in 1..Len(rs) : PagesAt(rs)[i] \in Int /\ PagesAt(new)[i] \in Int
      /\ PagesNeeded(rs) = SumFunctionOnSet(PagesAt(rs), 1..Len(rs))
      /\ PagesNeeded(new) = SumFunctionOnSet(PagesAt(new), 1..Len(rs))
  BY <1>1, PagesAtType
<1>5. PagesNeeded(new) = PagesNeeded(rs) + (PagesAt(new)[k] - PagesAt(rs)[k])
  BY <1>2, <1>4, SumChange
<1>6. QED
  BY <1>3, <1>5 DEF new

\* So does one that is removed.
LEMMA RemovePages ==
  ASSUME NEW rs \in Seq(AddendRange), NEW k \in 1..Len(rs)
  PROVE  PagesNeeded(RemoveAt(rs, k)) = PagesNeeded(rs) - PagesForRange(rs[k])
<1> DEFINE new == RemoveAt(rs, k)
           n == Len(rs)
           b == [i \in 1..(n - 1) |-> IF i < k THEN i ELSE i + 1]
           rest == (1..n) \ {k}
<1>1. /\ new \in Seq(AddendRange) /\ Len(new) = n - 1
      /\ \A i \in 1..(n - 1) : new[i] = IF i < k THEN rs[i] ELSE rs[i + 1]
  BY RemoveAtElements
<1> HIDE DEF new
<1>2. n \in Nat /\ k \in 1..n
  OBVIOUS
<1>3. \A i, j \in 1..(n - 1) : b[i] = b[j] => i = j
  BY <1>2
<1>4. ASSUME NEW i \in 1..(n - 1)
      PROVE  PagesAt(new)[i] \in Int /\ PagesAt(new)[i] = PagesAt(rs)[b[i]]
  <2>1. b[i] \in 1..n /\ new[i] = rs[b[i]]
    BY <1>1, <1>2
  <2>2. PagesAt(new)[i] = PagesForRange(new[i]) /\ PagesAt(rs)[b[i]] = PagesForRange(rs[b[i]])
    BY <1>1, <2>1 DEF PagesAt
  <2>3. QED
    BY <1>1, <2>1, <2>2, PagesAtType
<1>5. ASSUME NEW j \in rest
      PROVE  \E i \in 1..(n - 1) : b[i] = j
  <2>1. CASE j < k
    BY <1>2, <2>1
  <2>2. CASE j > k
    <3>1. j - 1 \in 1..(n - 1) /\ b[j - 1] = j
      BY <1>2, <2>2
    <3>2. QED
      BY <3>1
  <2>3. QED
    BY <1>2, <2>1, <2>2
<1>6. \A i \in 1..(n - 1) : b[i] \in rest
  BY <1>2
<1> HIDE DEF b
<1>7. Renames(b, 1..(n - 1), rest)
  BY <1>3, <1>5, <1>6 DEF Renames
<1>8. PagesNeeded(new) = SumFunctionOnSet(PagesAt(rs), rest)
  <2>1. /\ IsFiniteSet(1..(n - 1))
        /\ PagesNeeded(new) = SumFunctionOnSet(PagesAt(new), 1..(n - 1))
    BY <1>1, PagesAtType
  <2> DEFINE S == 1..(n - 1)
             f == PagesAt(new)
             g == PagesAt(rs)
  <2>2. /\ IsFiniteSet(S) /\ Renames(b, S, rest)
        /\ \A i \in S : f[i] \in Int /\ f[i] = g[b[i]]
    BY <2>1, <1>4, <1>7
  <2> HIDE DEF S, rest, f, g
  <2>3. SumFunctionOnSet(f, S) = SumFunctionOnSet(g, rest)
    BY <2>2, SumImage
  <2>4. QED
    BY <2>1, <2>3 DEF S, f, g
<1>9. PagesNeeded(rs) = PagesAt(rs)[k] + SumFunctionOnSet(PagesAt(rs), rest)
  BY PagesAtType, SumRemove
<1>10. PagesAt(rs)[k] = PagesForRange(rs[k])
  BY DEF PagesAt
<1>11. PagesNeeded(new) \in Int /\ PagesForRange(rs[k]) \in Int
  BY <1>1, PagesAtType, PagesForRangeType
<1>12. QED
  BY <1>8, <1>9, <1>10, <1>11 DEF new

\* The estimate of a list bounds the pages of all addends that it covers.
LEMMA PagesOfList ==
  ASSUME NEW A \in SUBSET Int, NEW rs, Good(rs, A), NEW base \in Int
  PROVE  /\ IsFiniteSet(Touched(A, base))
         /\ Cardinality(Touched(A, base)) <= PagesNeeded(rs)
         /\ PagesNeeded(rs) \in Nat
<1> DEFINE F == [i \in 1..Len(rs) |->
                   Touched(rs[i].min_addend .. rs[i].max_addend, base)]
           all == UNION {F[i] : i \in 1..Len(rs)}
<1>1. rs \in Seq(AddendRange)
  BY DEF Good
<1>2. ASSUME NEW i \in 1..Len(rs)
      PROVE  /\ IsFiniteSet(F[i]) /\ PagesAt(rs)[i] \in Nat
             /\ Cardinality(F[i]) <= PagesAt(rs)[i]
  <2>1. rs[i] \in AddendRange /\ rs[i].min_addend <= rs[i].max_addend
    BY <1>1 DEF Good, Apart
  <2>2. F[i] = Touched(rs[i].min_addend .. rs[i].max_addend, base)
    OBVIOUS
  <2>3. PagesAt(rs)[i] = PagesForRange(rs[i])
    BY DEF PagesAt
  <2> HIDE DEF F
  <2>4. QED
    BY <2>1, <2>2, <2>3, PagesOfRange
<1>3. IsFiniteSet(all) /\ Cardinality(all) <= PagesNeeded(rs) /\ PagesNeeded(rs) \in Nat
  <2> HIDE DEF F
  <2>1. IsFiniteSet(1..Len(rs))
    BY FS_Interval, <1>1
  <2>2. PagesNeeded(rs) = SumFunctionOnSet(PagesAt(rs), 1..Len(rs))
    BY <1>1, PagesAtType
  <2>3. QED
    BY <1>2, <2>1, <2>2, UnionBound, SumNat
<1>4. Touched(A, base) \subseteq all
  <2>1. ASSUME NEW a \in A
        PROVE  PageOf(base + a) \in all
    <3>1. PICK i \in 1..Len(rs) : a \in rs[i].min_addend .. rs[i].max_addend
      BY DEF Good, Covers
    <3>2. PageOf(base + a) \in F[i]
      BY <3>1 DEF Touched
    <3>3. QED
      BY <3>2
  <2>2. QED
    BY <2>1 DEF Touched
<1> HIDE DEF all
<1>5. QED
  <2>1. /\ IsFiniteSet(Touched(A, base))
        /\ Cardinality(Touched(A, base)) <= Cardinality(all)
        /\ Cardinality(Touched(A, base)) \in Nat /\ Cardinality(all) \in Nat
    BY <1>3, <1>4, FS_Subset, FS_CardinalityType
  <2>2. QED
    BY <1>3, <2>1

-----------------------------------------------------------------------------
(***************************************************************************)
(* The estimate of all symbols.                                            *)
(***************************************************************************)
\* The pages that page relocations refer to when the symbols have the values v,
\* and, once they have, the pages and the addresses that relocations refer to.
AllPages(v) == UNION {Touched(seen[ref], v[ref]) : ref \in Refs}
Pages == AllPages(value)
Addresses == {value[p[1]] + p[2] : p \in got_symbols}

\* While scanning, both counters are what the tables hold; then there are slots
\* for all pages and addresses, and those in use hold some of them.
Scanning ==
  /\ page_gotno = SumFunctionOnSet(num_pages, Refs)
  /\ local_gotno = Cardinality(got_symbols)
  /\ got_entries = {}
  /\ ~failed

Relocating ==
  /\ IsFiniteSet(Pages) /\ Cardinality(Pages) <= page_gotno
  /\ local_gotno = Reserved + Cardinality(got_symbols) + page_gotno
  /\ got_entries \subseteq Pages \cup Addresses
  /\ assigned_gotno = Reserved + Cardinality(got_entries)
  /\ ~failed

Space ==
  /\ IsFiniteSet(got_symbols)
  /\ phase = "scan" => Scanning
  /\ phase = "relocate" => Relocating

SpaceInv == Inv /\ NumPagesExact /\ Space

\* A new range of one addend needs one page.
LEMMA OnePage ==
  ASSUME NEW a \in Int
  PROVE  PagesForRange(Extent(a, a)) = 1
<1>1. PagesForRange(Extent(a, a)) = (2 * PageSize - 1) \div PageSize
  BY PageSizeAssumption DEF PagesForRange, Extent
<1>2. (2 * PageSize - 1) \div PageSize = 1
  BY PageSizeAssumption
<1>3. QED
  BY <1>1, <1>2

\* The new list of ref and the change of its estimate belong together.
LEMMA RecordSpace ==
  ASSUME SpaceInv, Inv', NEW ref \in Refs, NEW a \in PageAddends,
         phase = "scan", NEW new, NEW delta \in Int, Record(ref, a, new, delta),
         PagesNeeded(new) = PagesNeeded(ranges[ref]) + delta
  PROVE  SpaceInv'
<1>1. /\ ranges \in [Refs -> Seq(AddendRange)] /\ num_pages \in [Refs -> Int]
      /\ ranges' = [ranges EXCEPT ![ref] = new]
      /\ num_pages' = [num_pages EXCEPT ![ref] = @ + delta]
      /\ page_gotno' = page_gotno + delta
      /\ UNCHANGED <<phase, got_symbols, local_gotno, got_entries, failed>>
  BY DEF SpaceInv, Inv, TypeOK, Record
<1>2. NumPagesExact'
  <2>1. ASSUME NEW other \in Refs
        PROVE  num_pages'[other] = PagesNeeded(ranges'[other])
    <3>1. num_pages[other] = PagesNeeded(ranges[other])
      BY DEF SpaceInv, NumPagesExact
    <3>2. CASE other = ref
      BY <1>1, <3>1, <3>2
    <3>3. CASE other # ref
      BY <1>1, <3>1, <3>3
    <3>4. QED
      BY <3>2, <3>3
  <2>2. ranges' = [r \in Refs |-> ranges'[r]]
    BY <1>1
  <2>3. QED
    BY <2>1 DEF NumPagesExact, PagesNeeded, PagesForRange
<1>3. SumFunctionOnSet(num_pages', Refs)
        = SumFunctionOnSet(num_pages, Refs) + (num_pages'[ref] - num_pages[ref])
  <2>1. /\ \A x \in Refs : num_pages[x] \in Int /\ num_pages'[x] \in Int
        /\ \A x \in Refs \ {ref} : num_pages[x] = num_pages'[x]
    BY <1>1
  <2>2. QED
    BY <2>1, RefsAssumption, SumChange
<1>4. num_pages'[ref] - num_pages[ref] = delta
  BY <1>1
<1>5. Scanning'
  BY <1>1, <1>3, <1>4 DEF SpaceInv, Space, Scanning
<1>6. QED
  BY <1>1, <1>2, <1>5 DEF SpaceInv, Space

\* Recording a page addend, whichever of the five cases applies.
LEMMA RecordPageSpace ==
  ASSUME SpaceInv, NEW ref \in Refs, NEW a \in PageAddends, RecordPage(ref, a)
  PROVE  SpaceInv'
<1> DEFINE rs == ranges[ref]
<1>1. Inv'
  BY RecordPageInv DEF SpaceInv
<1>2. PICK k \in 1..(Len(rs) + 1) :
        /\ StopsAt(rs, a, k)
        /\ \/ NewRange(ref, a, k)
           \/ ExtendDown(ref, a, k)
           \/ Inside(ref, a, k)
           \/ ExtendUp(ref, a, k)
           \/ Join(ref, a, k)
  BY DEF RecordPage
<1>3. a \in Int /\ rs \in Seq(AddendRange) /\ phase = "scan"
  BY AddendsAssumption DEF SpaceInv, Inv, TypeOK, RecordPage
<1>4. CASE NewRange(ref, a, k)
  <2>1. Extent(a, a) \in AddendRange
    BY <1>3 DEF Extent, AddendRange
  <2>2. PagesNeeded(InsertAt(rs, k, Extent(a, a))) = PagesNeeded(rs) + 1
    BY <1>3, <2>1, InsertPages, OnePage
  <2>3. Record(ref, a, InsertAt(rs, k, Extent(a, a)), 1)
    BY <1>4 DEF NewRange
  <2>4. QED
    BY <1>1, <1>3, <2>2, <2>3, RecordSpace
<1>5. ASSUME ~StartsRange(rs, a, k)
      PROVE  k \in 1..Len(rs) /\ rs[k] \in AddendRange
  BY <1>2, <1>3, <1>5 DEF StartsRange
<1>6. ASSUME k \in 1..Len(rs), NEW r \in AddendRange, Extend(ref, a, k, r)
      PROVE  SpaceInv'
  <2> DEFINE delta == PagesForRange(r) - PagesForRange(rs[k])
  <2>1. PagesNeeded(ReplaceAt(rs, k, r)) = PagesNeeded(rs) + delta
    BY <1>3, <1>6, ReplacePages
  <2>2. delta \in Int
    BY <1>3, <1>6, PagesForRangeType
  <2>3. Record(ref, a, ReplaceAt(rs, k, r), delta)
    BY <1>6 DEF Extend
  <2> HIDE DEF delta
  <2>4. QED
    BY <1>1, <1>3, <2>1, <2>2, <2>3, RecordSpace
<1>7. CASE ExtendDown(ref, a, k)
  <2>1. Extent(a, rs[k].max_addend) \in AddendRange
    BY <1>3, <1>5, <1>7 DEF ExtendDown, Extent, AddendRange
  <2>2. QED
    BY <1>5, <1>6, <1>7, <2>1 DEF ExtendDown
<1>8. CASE Inside(ref, a, k)
  BY <1>5, <1>6, <1>8 DEF Inside
<1>9. CASE ExtendUp(ref, a, k)
  <2>1. Extent(rs[k].min_addend, a) \in AddendRange
    BY <1>3, <1>5, <1>9 DEF ExtendUp, Extent, AddendRange
  <2>2. QED
    BY <1>5, <1>6, <1>9, <2>1 DEF ExtendUp
<1>10. CASE Join(ref, a, k)
  <2> DEFINE joined == Extent(rs[k].min_addend, rs[k + 1].max_addend)
             wide == ReplaceAt(rs, k, joined)
             delta == PagesForRange(joined) - PagesForRange(rs[k])
                                            - PagesForRange(rs[k + 1])
  <2>1. /\ JoinsNext(rs, a, k)
        /\ Record(ref, a, RemoveAt(wide, k + 1), delta)
    BY <1>10 DEF Join
  <2>2. k \in 1..Len(rs) /\ k + 1 \in 1..Len(rs)
    BY <1>2, <1>3, <2>1 DEF JoinsNext
  <2>3. rs[k] \in AddendRange /\ rs[k + 1] \in AddendRange
    BY <1>3, <2>2
  <2>4. joined \in AddendRange
    BY <2>3 DEF AddendRange, Extent
  <2> HIDE DEF joined
  <2>5. /\ wide \in Seq(AddendRange) /\ Len(wide) = Len(rs)
        /\ wide[k + 1] = rs[k + 1]
    <3>1. rs \in Seq(AddendRange) /\ k \in 1..Len(rs)
      BY <1>3, <2>2
    <3>2. k + 1 # k
      BY <2>2
    <3>3. QED
      BY <2>2, <2>4, <3>1, <3>2 DEF ReplaceAt
  <2>6. PagesNeeded(wide)
          = PagesNeeded(rs) + (PagesForRange(joined) - PagesForRange(rs[k]))
    BY <1>3, <2>2, <2>4, ReplacePages
  <2> HIDE DEF wide
  <2>7. PagesNeeded(RemoveAt(wide, k + 1)) = PagesNeeded(wide) - PagesForRange(rs[k + 1])
    BY <2>2, <2>5, RemovePages
  <2>8. /\ PagesForRange(joined) \in Int /\ PagesForRange(rs[k]) \in Int
        /\ PagesForRange(rs[k + 1]) \in Int /\ PagesNeeded(rs) \in Int
    BY <1>3, <2>3, <2>4, PagesForRangeType, PagesAtType
  <2>9. delta \in Int /\ PagesNeeded(RemoveAt(wide, k + 1)) = PagesNeeded(rs) + delta
    BY <2>6, <2>7, <2>8
  <2> HIDE DEF delta
  <2>10. QED
    BY <1>1, <1>3, <2>1, <2>9, RecordSpace
<1>11. QED
  BY <1>2, <1>4, <1>7, <1>8, <1>9, <1>10

-----------------------------------------------------------------------------
(***************************************************************************)
(* The layout.  Both estimates bound the pages: the sum over the symbols,  *)
(* whatever their values, and the one by the size of the segments, which   *)
(* touch at most two pages more than they would fill, less than two        *)
(* bytes: hence 4 spare pages are enough for two segments.                 *)
(***************************************************************************)
\* The estimate by symbols.
LEMMA PagesBySymbol ==
  ASSUME SpaceInv, phase = "scan", NEW v \in [Refs -> Int]
  PROVE  /\ IsFiniteSet(AllPages(v))
         /\ Cardinality(AllPages(v)) <= page_gotno
<1> DEFINE F == [ref \in Refs |-> Touched(seen[ref], v[ref])]
<1>1. ASSUME NEW ref \in Refs
      PROVE  /\ IsFiniteSet(F[ref]) /\ num_pages[ref] \in Nat
             /\ Cardinality(F[ref]) <= num_pages[ref]
  <2>1. seen[ref] \in SUBSET Int /\ Good(ranges[ref], seen[ref]) /\ v[ref] \in Int
    BY AddendsAssumption DEF SpaceInv, Inv, TypeOK, AllGood
  <2>2. num_pages[ref] = PagesNeeded(ranges[ref])
    BY DEF SpaceInv, NumPagesExact
  <2>3. QED
    BY <2>1, <2>2, PagesOfList
<1>2. AllPages(v) = UNION {F[ref] : ref \in Refs}
  BY DEF AllPages
<1>3. page_gotno = SumFunctionOnSet(num_pages, Refs)
  BY DEF SpaceInv, Space, Scanning
<1> HIDE DEF F
<1>4. QED
  BY <1>1, <1>2, <1>3, RefsAssumption, UnionBound

\* The pages of one segment.
SegmentPages(seg) == {PageOf(z) : z \in seg.first .. seg.last}

LEMMA PagesOfSegment ==
  ASSUME NEW seg \in Segment
  PROVE  /\ IsFiniteSet(SegmentPages(seg))
         /\ Cardinality(SegmentPages(seg)) \in Nat
         /\ SizeOf(seg) \in Int
         /\ PageSize * Cardinality(SegmentPages(seg)) <= SizeOf(seg) + 2 * PageSize - 2
<1>1. seg.first \in Int /\ seg.last \in Int /\ seg.first <= seg.last
  BY DEF Segment
<1>2. /\ IsFiniteSet(SegmentPages(seg))
      /\ Cardinality(SegmentPages(seg)) \in Nat
      /\ PageSize * Cardinality(SegmentPages(seg))
           < (seg.last - seg.first) + 2 * PageSize
  BY <1>1, PagesBetween DEF SegmentPages
<1>3. PageSize * Cardinality(SegmentPages(seg)) \in Int
  BY <1>2, PageSizeAssumption
<1>4. QED
  BY <1>1, <1>2, <1>3, PageSizeAssumption DEF SizeOf

\* The estimate by size.
LEMMA PagesBySize ==
  ASSUME SpaceInv, NEW l \in Layouts, Fits(l)
  PROVE  /\ IsFiniteSet(AllPages(l.value))
         /\ LoadableSize(l) \div PageSize \in Int
         /\ Cardinality(AllPages(l.value)) <= LoadableSize(l) \div PageSize + PageSlack
<1> DEFINE T == SegmentPages(l.text)
           D == SegmentPages(l.data)
           n == LoadableSize(l) \div PageSize
<1>1. l.value \in [Refs -> Int] /\ l.text \in Segment /\ l.data \in Segment
  BY LayoutsAssumption
<1>2. /\ IsFiniteSet(T) /\ Cardinality(T) \in Nat /\ SizeOf(l.text) \in Int
      /\ PageSize * Cardinality(T) <= SizeOf(l.text) + 2 * PageSize - 2
  BY <1>1, PagesOfSegment
<1>3. /\ IsFiniteSet(D) /\ Cardinality(D) \in Nat /\ SizeOf(l.data) \in Int
      /\ PageSize * Cardinality(D) <= SizeOf(l.data) + 2 * PageSize - 2
  BY <1>1, PagesOfSegment
<1>4. AllPages(l.value) \subseteq T \cup D
  <2>1. ASSUME NEW ref \in Refs, NEW a \in seen[ref]
        PROVE  PageOf(l.value[ref] + a) \in T \cup D
    <3>1. InSegments(l, l.value[ref] + a)
      BY DEF Fits
    <3>2. QED
      BY <3>1 DEF InSegments, SegmentPages
  <2>2. QED
    BY <2>1 DEF AllPages, Touched
<1>5. LoadableSize(l) = SizeOf(l.text) + SizeOf(l.data)
  BY DEF LoadableSize
<1>6. n \in Int /\ LoadableSize(l) < PageSize * n + PageSize
  <2>1. LoadableSize(l) \in Int
    BY <1>2, <1>3, <1>5
  <2>2. QED
    BY <2>1, PageDivision
<1> HIDE DEF T, D, n
<1>7. /\ IsFiniteSet(AllPages(l.value)) /\ Cardinality(AllPages(l.value)) \in Nat
      /\ Cardinality(AllPages(l.value)) <= Cardinality(T) + Cardinality(D)
  <2>1. /\ IsFiniteSet(T \cup D) /\ Cardinality(T \cap D) \in Nat
        /\ Cardinality(T \cup D) = Cardinality(T) + Cardinality(D) - Cardinality(T \cap D)
    BY <1>2, <1>3, FS_Union, FS_Intersection, FS_CardinalityType
  <2>2. /\ IsFiniteSet(AllPages(l.value))
        /\ Cardinality(AllPages(l.value)) <= Cardinality(T \cup D)
    BY <1>4, <2>1, FS_Subset
  <2>3. Cardinality(AllPages(l.value)) \in Nat
    BY <2>2, FS_CardinalityType
  <2>4. QED
    BY <1>2, <1>3, <2>1, <2>2, <2>3
<1>8. Cardinality(T) + Cardinality(D) <= n + 4
  <2> DEFINE c == Cardinality(T) + Cardinality(D)
  <2>1. c \in Nat /\ PageSize * c = PageSize * Cardinality(T) + PageSize * Cardinality(D)
    BY <1>2, <1>3, PageSizeAssumption
  <2>2. PageSize * c <= SizeOf(l.text) + SizeOf(l.data) + 4 * PageSize - 4
    <3>1. PageSize * Cardinality(T) \in Int /\ PageSize * Cardinality(D) \in Int
      BY <1>2, <1>3, PageSizeAssumption
    <3>2. QED
      BY <1>2, <1>3, <2>1, <3>1, PageSizeAssumption
  <2>3. PageSize * (n + 5) = PageSize * n + PageSize + 4 * PageSize
    BY <1>6, PageSizeAssumption
  <2>4. PageSize * c < PageSize * (n + 5)
    <3>1. PageSize * c \in Int /\ PageSize * n \in Int
      BY <1>6, <2>1, PageSizeAssumption
    <3> HIDE DEF c
    <3>2. QED
      BY <1>2, <1>3, <1>5, <1>6, <2>2, <2>3, <3>1, PageSizeAssumption
  <2> HIDE DEF c
  <2>5. c < n + 5
    BY <1>6, <2>1, <2>4, PageMultiples
  <2>6. QED
    BY <1>6, <2>1, <2>5 DEF c
<1>9. QED
  BY <1>2, <1>3, <1>6, <1>7, <1>8, SlotsAssumption DEF n

\* When the GOT is laid out there are slots for all pages and addresses.
LEMMA LayOutSpace ==
  ASSUME SpaceInv, NEW l \in Layouts, LayOutGot(l), Inv'
  PROVE  SpaceInv'
<1>1. l.value \in [Refs -> Int]
  BY LayoutsAssumption
<1>2. /\ IsFiniteSet(AllPages(l.value))
      /\ Cardinality(AllPages(l.value)) <= page_gotno
  BY <1>1, PagesBySymbol DEF LayOutGot
<1>3. /\ LoadableSize(l) \div PageSize \in Int
      /\ Cardinality(AllPages(l.value)) <= LoadableSize(l) \div PageSize + PageSlack
  BY PagesBySize DEF LayOutGot
<1>4. Cardinality(AllPages(l.value)) <= PageEstimate(l)
  BY <1>2, <1>3 DEF PageEstimate, Min2
<1>5. AllPages(l.value) = Pages'
  BY DEF AllPages, Pages, Touched, LayOutGot, PageOf
<1>6. Relocating'
  <2>1. got_entries = {} /\ ~failed /\ local_gotno = Cardinality(got_symbols)
    BY DEF SpaceInv, Space, Scanning, LayOutGot
  <2>2. Cardinality({}) = 0
    BY FS_EmptySet
  <2>3. Cardinality(got_symbols) \in Nat
    BY FS_CardinalityType DEF SpaceInv, Space
  <2>4. PageEstimate(l) \in Int
    BY <1>3, SlotsAssumption DEF PageEstimate, Min2, SpaceInv, Inv, TypeOK
  <2>5. local_gotno' = Reserved + Cardinality(got_symbols') + page_gotno'
    BY <2>1, <2>3, <2>4, SlotsAssumption DEF LayOutGot
  <2>6. got_entries' = {} /\ assigned_gotno' = Reserved + Cardinality(got_entries')
    BY <2>1, <2>2, SlotsAssumption DEF LayOutGot
  <2>7. QED
    BY <1>2, <1>4, <1>5, <2>1, <2>5, <2>6 DEF Relocating, LayOutGot
<1>7. NumPagesExact'
  BY DEF SpaceInv, NumPagesExact, PagesNeeded, LayOutGot, PagesForRange
<1>8. QED
  BY <1>6, <1>7 DEF SpaceInv, Space, LayOutGot

-----------------------------------------------------------------------------
(***************************************************************************)
(* The other steps.                                                        *)
(***************************************************************************)
\* An address has an entry or gets one, and there is room for it.
LEMMA CreateEntrySpace ==
  ASSUME SpaceInv, NEW addr \in Pages \cup Addresses, CreateLocalEntry(addr), Inv'
  PROVE  SpaceInv'
<1>1. CASE FindEntry(addr)
  BY <1>1 DEF FindEntry, vars, SpaceInv, NumPagesExact, PagesNeeded, PagesForRange,
     Space, Scanning, Relocating, Pages, AllPages, Addresses, Touched,
     PageOf
<1>2. CASE CreateEntry(addr)
  <2>1. phase = "relocate" /\ Relocating /\ IsFiniteSet(got_symbols)
    BY DEF CreateLocalEntry, SpaceInv, Space
  <2>2. /\ UNCHANGED <<phase, ranges, num_pages, page_gotno, got_symbols,
                       local_gotno, value, seen>>
        /\ addr \notin got_entries
        /\ got_entries' = got_entries \cup {addr}
        /\ assigned_gotno' = assigned_gotno + 1
        /\ failed' = (assigned_gotno' > local_gotno)
    BY <1>2 DEF CreateEntry
  <2>3. Pages' = Pages /\ Addresses' = Addresses
    BY <2>2 DEF Pages, AllPages, Addresses, Touched, PageOf
  <2>4. /\ IsFiniteSet(Addresses)
        /\ Cardinality(Addresses) <= Cardinality(got_symbols)
    <3> DEFINE b == [p \in got_symbols |-> value[p[1]] + p[2]]
               image == {b[p] : p \in got_symbols}
    <3>1. Addresses = image
      BY DEF Addresses
    <3> HIDE DEF b
    <3>2. IsFiniteSet(image) /\ Cardinality(image) <= Cardinality(got_symbols)
      BY <2>1, ImageFinite
    <3>3. QED
      BY <3>1, <3>2
  <2> DEFINE all == Pages \cup Addresses
  <2>5. /\ IsFiniteSet(all)
        /\ Cardinality(all) <= Cardinality(Pages) + Cardinality(Addresses)
    <3>1. IsFiniteSet(Pages) /\ IsFiniteSet(Addresses)
      BY <2>1, <2>4 DEF Relocating
    <3>2. /\ IsFiniteSet(Pages \cup Addresses)
          /\ Cardinality(Pages \cup Addresses)
               = Cardinality(Pages) + Cardinality(Addresses)
                   - Cardinality(Pages \cap Addresses)
          /\ Cardinality(Pages) \in Nat /\ Cardinality(Addresses) \in Nat
          /\ Cardinality(Pages \cap Addresses) \in Nat
      BY <3>1, FS_Union, FS_Intersection, FS_CardinalityType
    <3>3. QED
      BY <3>2
  <2>6. got_entries' \subseteq all
    BY <2>1, <2>2 DEF Relocating
  <2>7. /\ IsFiniteSet(got_entries) /\ Cardinality(got_entries) \in Nat
        /\ Cardinality(got_entries') = Cardinality(got_entries) + 1
        /\ Cardinality(got_entries') <= Cardinality(all)
    <3>1. got_entries \subseteq all /\ IsFiniteSet(got_entries)
      BY <2>1, <2>5, FS_Subset DEF Relocating
    <3>2. Cardinality(got_entries') = Cardinality(got_entries) + 1
      BY <2>2, <3>1, FS_AddElement
    <3>3. Cardinality(got_entries') <= Cardinality(all)
      BY <2>5, <2>6, FS_Subset
    <3>4. QED
      BY <3>1, <3>2, <3>3, FS_CardinalityType
  <2>8. assigned_gotno' = Reserved + Cardinality(got_entries')
    BY <2>1, <2>2, <2>7, SlotsAssumption DEF Relocating
  <2>9. assigned_gotno' <= local_gotno
    <3>1. /\ Cardinality(Pages) \in Nat /\ Cardinality(Addresses) \in Nat
          /\ Cardinality(got_symbols) \in Nat /\ Cardinality(all) \in Nat
      BY <2>1, <2>4, <2>5, FS_CardinalityType DEF Relocating
    <3>2. page_gotno \in Int
      BY DEF SpaceInv, Inv, TypeOK
    <3>3. /\ Cardinality(Pages) <= page_gotno
          /\ local_gotno = Reserved + Cardinality(got_symbols) + page_gotno
      BY <2>1 DEF Relocating
    <3> HIDE DEF all
    <3>4. QED
      BY <2>4, <2>5, <2>7, <2>8, <3>1, <3>2, <3>3, SlotsAssumption
  <2>10. ~failed'
    <3>1. assigned_gotno' \in Int /\ local_gotno \in Int
      BY <2>7, <2>8, SlotsAssumption DEF SpaceInv, Inv, TypeOK
    <3>2. ~(assigned_gotno' > local_gotno)
      BY <2>9, <3>1
    <3>3. QED
      BY <2>2, <3>2, Zenon
  <2>11. Relocating'
    BY <2>1, <2>2, <2>3, <2>6, <2>8, <2>10 DEF Relocating
  <2>12. NumPagesExact'
    BY <2>2 DEF SpaceInv, NumPagesExact, PagesNeeded, PagesForRange
  <2>13. QED
    BY <2>1, <2>2, <2>11, <2>12 DEF SpaceInv, Space
<1>3. QED
  BY <1>1, <1>2 DEF CreateLocalEntry

\* One more full address needs one more slot.
LEMMA RecordLocalSpace ==
  ASSUME SpaceInv, NEW ref \in Refs, NEW a \in DispAddends, RecordLocal(ref, a), Inv'
  PROVE  SpaceInv'
<1>1. /\ IsFiniteSet(got_symbols') /\ Cardinality(got_symbols) \in Nat
      /\ Cardinality(got_symbols') = Cardinality(got_symbols) + 1
  BY FS_AddElement, FS_CardinalityType DEF RecordLocal, SpaceInv, Space
<1>2. Scanning'
  BY <1>1 DEF Scanning, RecordLocal, SpaceInv, Space
<1>3. NumPagesExact'
  BY DEF SpaceInv, NumPagesExact, PagesNeeded, PagesForRange, RecordLocal
<1>4. QED
  BY <1>1, <1>2, <1>3 DEF SpaceInv, Space, RecordLocal

\* Every step preserves the invariant.
LEMMA SpaceNext == SpaceInv /\ [Next]_vars => SpaceInv'
<1> SUFFICES ASSUME SpaceInv, [Next]_vars
             PROVE  SpaceInv'
  OBVIOUS
<1>1. Inv'
  BY NextInv DEF SpaceInv
<1>2. ASSUME NEW ref \in Refs, NEW a \in PageAddends, RecordPage(ref, a)
      PROVE  SpaceInv'
  BY <1>2, RecordPageSpace
<1>3. ASSUME NEW ref \in Refs, NEW a \in PageAddends, RelocatePage(ref, a)
      PROVE  SpaceInv'
  <2>1. PageOf(value[ref] + a) \in Pages
    BY <1>3 DEF RelocatePage, Pages, AllPages, Touched
  <2>2. QED
    BY <1>1, <1>3, <2>1, CreateEntrySpace DEF RelocatePage
<1>4. ASSUME NEW ref \in Refs, NEW a \in DispAddends, RecordLocal(ref, a)
      PROVE  SpaceInv'
  BY <1>1, <1>4, RecordLocalSpace
<1>5. ASSUME NEW ref \in Refs, NEW a \in DispAddends, RelocateLocal(ref, a)
      PROVE  SpaceInv'
  <2>1. value[ref] + a \in Addresses
    <3>1. <<ref, a>> \in got_symbols /\ <<ref, a>>[1] = ref /\ <<ref, a>>[2] = a
      BY <1>5 DEF RelocateLocal
    <3>2. QED
      BY <3>1 DEF Addresses
  <2>2. QED
    BY <1>1, <1>5, <2>1, CreateEntrySpace DEF RelocateLocal
<1>6. ASSUME NEW l \in Layouts, LayOutGot(l)
      PROVE  SpaceInv'
  BY <1>1, <1>6, LayOutSpace
<1>7. CASE UNCHANGED vars
  BY <1>1, <1>7 DEF vars, SpaceInv, NumPagesExact, PagesNeeded, PagesForRange,
     Space, Scanning, Relocating, Pages, AllPages, Addresses, Touched,
     PageOf
<1>8. QED
  BY <1>2, <1>3, <1>4, <1>5, <1>6, <1>7 DEF Next

\* At first there is nothing to make room for.
LEMMA SpaceInit == Init => SpaceInv
<1> SUFFICES ASSUME Init
             PROVE  SpaceInv
  OBVIOUS
<1>1. Inv
  BY InitInv
<1>2. NumPagesExact
  <2>1. ASSUME NEW ref \in Refs
        PROVE  num_pages[ref] = PagesNeeded(ranges[ref])
    <3>1. ranges[ref] = <<>> /\ num_pages[ref] = 0
      BY DEF Init
    <3>2. 1..Len(<<>>) = {}
      OBVIOUS
    <3>3. PagesNeeded(<<>>) = 0
      BY <3>2, SumEmpty DEF PagesNeeded
    <3>4. QED
      BY <3>1, <3>3
  <2>2. QED
    BY <2>1 DEF NumPagesExact
<1>3. Space
  <2>1. SumFunctionOnSet(num_pages, Refs) = 0
    BY RefsAssumption, SumZero DEF Init
  <2>2. QED
    BY <2>1, FS_EmptySet DEF Init, Space, Scanning
<1>4. QED
  BY <1>1, <1>2, <1>3 DEF SpaceInv

\* The invariant holds in every reachable state.
THEOREM SpaceInvariance == Spec => []SpaceInv
<1>1. Init => SpaceInv
  BY SpaceInit
<1>2. SpaceInv /\ [Next]_vars => SpaceInv'
  BY SpaceNext
<1>3. QED
  BY <1>1, <1>2, PTL DEF Spec

\* The estimate of each symbol, kept by adding and subtracting differences, is
\* always the sum of what its ranges need, which is never negative: the
\* unsigned counters of the code do not wrap.
THEOREM EstimatesExact == Spec => []NumPagesExact
<1>1. SpaceInv => NumPagesExact
  BY DEF SpaceInv
<1>2. QED
  BY <1>1, SpaceInvariance, PTL

\* The estimate bounds the pages that the addends of one symbol touch, wherever
\* the symbol ends up.
THEOREM PagesStayBounded == Spec => []PagesBounded
<1>1. SpaceInv => PagesBounded
  <2> SUFFICES ASSUME SpaceInv, NEW ref \in Refs, NEW base \in 0..(PageSize - 1)
               PROVE  Cardinality({PageOf(base + a) : a \in seen[ref]}) <= num_pages[ref]
    BY DEF PagesBounded
  <2>1. seen[ref] \in SUBSET Int /\ Good(ranges[ref], seen[ref])
    BY AddendsAssumption DEF SpaceInv, Inv, TypeOK, AllGood
  <2>2. num_pages[ref] = PagesNeeded(ranges[ref])
    BY DEF SpaceInv, NumPagesExact
  <2>3. base \in Int
    BY PageSizeAssumption
  <2>4. QED
    BY <2>1, <2>2, <2>3, PagesOfList DEF Touched
<1>2. QED
  BY <1>1, SpaceInvariance, PTL

\* "Not enough GOT space for local GOT entries" is never reported, for any
\* page size, symbols, addends, addresses and order of relocations, as long as
\* the output has two loadable segments of contiguous sections.
THEOREM GotSpaceSuffices == Spec => []EnoughGotSpace
<1>1. TypeOK /\ SpaceInv => EnoughGotSpace
  BY DEF SpaceInv, Space, Scanning, Relocating, EnoughGotSpace, TypeOK
<1>2. QED
  BY <1>1, SpaceInvariance, TypeCorrect, PTL
=============================================================================
