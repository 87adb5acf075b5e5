------------------------------- MODULE SeqFacts -------------------------------
(***************************************************************************)
(* The facts the proofs of this project share: membership in a FIFO, and   *)
(* what taking its head, appending to it and concatenating to it do to     *)
(* membership; and the sum of a function over a finite set, with the two   *)
(* inductions it needs, over a set of numbers and over a finite set, each  *)
(* stated with a set in place of a predicate.                              *)
(***************************************************************************)
EXTENDS Integers, Sequences, Functions, SequenceTheorems, FiniteSetTheorems,
        WellFoundedInduction, TLAPS

Has(s, e) == \E i \in DOMAIN s : s[i] = e

Unique(s) == \A i, j \in DOMAIN s : s[i] = s[j] => i = j

(* Taking the head of a duplicate-free FIFO removes exactly that element. *)
LEMMA TailFacts ==
    ASSUME NEW S, NEW s \in Seq(S), s # <<>>, Unique(s)
    PROVE  /\ Tail(s) \in Seq(S)
           /\ Unique(Tail(s))
           /\ Head(s) \in S
           /\ Has(s, Head(s))
           /\ \A e : Has(Tail(s), e) <=> Has(s, e) /\ e # Head(s)
<1>1. /\ Tail(s) \in Seq(S)
      /\ Len(s) \in Nat \ {0}
      /\ Len(Tail(s)) = Len(s) - 1
      /\ \A i \in 1..Len(Tail(s)) : Tail(s)[i] = s[i + 1]
      /\ Head(s) = s[1]
      /\ Head(s) \in S
  BY HeadTailProperties, EmptySeq, LenProperties
<1>2. /\ DOMAIN s = 1..Len(s)
      /\ DOMAIN Tail(s) = 1..(Len(s) - 1)
  BY <1>1, LenProperties
<1>3. Unique(Tail(s))
  <2> SUFFICES ASSUME NEW i \in DOMAIN Tail(s), NEW j \in DOMAIN Tail(s),
                      Tail(s)[i] = Tail(s)[j]
               PROVE  i = j
    BY DEF Unique
  <2>1. /\ i \in Int /\ j \in Int
        /\ i + 1 \in DOMAIN s /\ j + 1 \in DOMAIN s
        /\ s[i + 1] = s[j + 1]
    BY <1>1, <1>2
  <2>2. i + 1 = j + 1
    BY <2>1 DEF Unique
  <2> QED BY <2>1, <2>2
<1>4. ASSUME NEW e, Has(Tail(s), e)
      PROVE  Has(s, e) /\ e # Head(s)
  <2>1. PICK i \in DOMAIN Tail(s) : Tail(s)[i] = e
    BY <1>4 DEF Has
  <2>2. i \in Int /\ i # 0 /\ i + 1 \in DOMAIN s /\ 1 \in DOMAIN s /\ s[i + 1] = e
    BY <1>1, <1>2, <2>1
  <2> QED BY <1>1, <2>2 DEF Has, Unique
<1>5. ASSUME NEW e, Has(s, e), e # Head(s)
      PROVE  Has(Tail(s), e)
  <2>1. PICK i \in DOMAIN s : s[i] = e
    BY <1>5 DEF Has
  <2>2. i - 1 \in DOMAIN Tail(s) /\ Tail(s)[i - 1] = e
    BY <1>1, <1>2, <1>5, <2>1
  <2> QED BY <2>2 DEF Has
<1>6. Has(s, Head(s))
  BY <1>1, <1>2 DEF Has
<1> QED BY <1>1, <1>3, <1>4, <1>5, <1>6

(* Appending adds exactly the new element, keeps the head of a FIFO that    *)
(* is not empty, and keeps the FIFO free of duplicates if it was new.       *)
LEMMA AppendFacts ==
    ASSUME NEW S, NEW s \in Seq(S), NEW x \in S
    PROVE  /\ Append(s, x) \in Seq(S)
           /\ Append(s, x) # <<>>
           /\ \A e : Has(Append(s, x), e) <=> Has(s, e) \/ e = x
           /\ s # <<>> => Head(Append(s, x)) = Head(s)
           /\ s = <<>> => Head(Append(s, x)) = x
           /\ Unique(s) /\ ~Has(s, x) => Unique(Append(s, x))
<1>1. /\ Append(s, x) \in Seq(S)
      /\ Len(Append(s, x)) = Len(s) + 1
      /\ \A i \in 1..Len(s) : Append(s, x)[i] = s[i]
      /\ Append(s, x)[Len(s) + 1] = x
      /\ Len(s) \in Nat
      /\ Append(s, x) # <<>>
  BY AppendProperties, LenProperties
<1>2. /\ DOMAIN s = 1..Len(s)
      /\ DOMAIN Append(s, x) = 1..(Len(s) + 1)
  BY <1>1, LenProperties
<1>3. ASSUME NEW e, Has(Append(s, x), e)
      PROVE  Has(s, e) \/ e = x
  <2>1. PICK i \in DOMAIN Append(s, x) : Append(s, x)[i] = e
    BY <1>3 DEF Has
  <2> QED BY <1>1, <1>2, <2>1 DEF Has
<1>4. ASSUME NEW e, Has(s, e) \/ e = x
      PROVE  Has(Append(s, x), e)
  <2>1. CASE Has(s, e)
    <3>1. PICK i \in DOMAIN s : s[i] = e
      BY <2>1 DEF Has
    <3> QED BY <1>1, <1>2, <3>1 DEF Has
  <2>2. CASE e = x
    BY <1>1, <1>2, <2>2 DEF Has
  <2> QED BY <1>4, <2>1, <2>2
<1>5. s # <<>> => Head(Append(s, x)) = Head(s)
  BY <1>1, HeadTailProperties, EmptySeq
<1>6. s = <<>> => Head(Append(s, x)) = x
  BY <1>1, HeadTailProperties, EmptySeq
<1>7. ASSUME Unique(s), ~Has(s, x)
      PROVE  Unique(Append(s, x))
  <2> SUFFICES ASSUME NEW i \in DOMAIN Append(s, x), NEW j \in DOMAIN Append(s, x),
                      Append(s, x)[i] = Append(s, x)[j]
               PROVE  i = j
    BY DEF Unique
  <2>1. CASE i \in DOMAIN s /\ j \in DOMAIN s
    BY <1>1, <1>2, <1>7, <2>1 DEF Unique
  <2>2. CASE i = Len(s) + 1 /\ j \in DOMAIN s
    BY <1>1, <1>2, <1>7, <2>2 DEF Has
  <2>3. CASE i \in DOMAIN s /\ j = Len(s) + 1
    BY <1>1, <1>2, <1>7, <2>3 DEF Has
  <2> QED BY <1>1, <1>2, <2>1, <2>2, <2>3
<1> QED BY <1>1, <1>3, <1>4, <1>5, <1>6, <1>7

(* Concatenation joins the members, and stays free of duplicates when both  *)
(* parts are and have no member in common.                                  *)
LEMMA ConcatFacts ==
    ASSUME NEW S, NEW s \in Seq(S), NEW r \in Seq(S)
    PROVE  /\ s \o r \in Seq(S)
           /\ \A e : Has(s \o r, e) <=> Has(s, e) \/ Has(r, e)
           /\ Unique(s) /\ Unique(r) /\ (\A e : ~(Has(s, e) /\ Has(r, e)))
                => Unique(s \o r)
<1>1. /\ s \o r \in Seq(S)
      /\ Len(s \o r) = Len(s) + Len(r)
      /\ \A i \in 1..(Len(s) + Len(r)) :
            (s \o r)[i] = IF i <= Len(s) THEN s[i] ELSE r[i - Len(s)]
      /\ Len(s) \in Nat
      /\ Len(r) \in Nat
  BY ConcatProperties, LenProperties
<1>2. /\ DOMAIN s = 1..Len(s)
      /\ DOMAIN r = 1..Len(r)
      /\ DOMAIN (s \o r) = 1..(Len(s) + Len(r))
  BY <1>1, LenProperties
<1>3. ASSUME NEW e, Has(s \o r, e)
      PROVE  Has(s, e) \/ Has(r, e)
  <2>1. PICK i \in DOMAIN (s \o r) : (s \o r)[i] = e
    BY <1>3 DEF Has
  <2>2. CASE i <= Len(s)
    BY <1>1, <1>2, <2>1, <2>2 DEF Has
  <2>3. CASE ~(i <= Len(s))
    <3>1. i - Len(s) \in DOMAIN r /\ r[i - Len(s)] = e
      BY <1>1, <1>2, <2>1, <2>3
    <3> QED BY <3>1 DEF Has
  <2> QED BY <2>2, <2>3
<1>4. ASSUME NEW e, Has(s, e)
      PROVE  Has(s \o r, e)
  <2>1. PICK i \in DOMAIN s : s[i] = e
    BY <1>4 DEF Has
  <2>2. i \in DOMAIN (s \o r) /\ (s \o r)[i] = e
    BY <1>1, <1>2, <2>1
  <2> QED BY <2>2 DEF Has
<1>5. ASSUME NEW e, Has(r, e)
      PROVE  Has(s \o r, e)
  <2>1. PICK i \in DOMAIN r : r[i] = e
    BY <1>5 DEF Has
  <2>2. i + Len(s) \in DOMAIN (s \o r) /\ (s \o r)[i + Len(s)] = e
    BY <1>1, <1>2, <2>1
  <2> QED BY <2>2 DEF Has
<1>6. ASSUME Unique(s), Unique(r), \A e : ~(Has(s, e) /\ Has(r, e))
      PROVE  Unique(s \o r)
  <2> SUFFICES ASSUME NEW i \in DOMAIN (s \o r), NEW j \in DOMAIN (s \o r),
                      (s \o r)[i] = (s \o r)[j]
               PROVE  i = j
    BY DEF Unique
  <2>1. CASE i <= Len(s) /\ j <= Len(s)
    BY <1>1, <1>2, <1>6, <2>1 DEF Unique
  <2>2. CASE ~(i <= Len(s)) /\ ~(j <= Len(s))
    <3>1. /\ i - Len(s) \in DOMAIN r /\ j - Len(s) \in DOMAIN r
          /\ r[i - Len(s)] = r[j - Len(s)]
      BY <1>1, <1>2, <2>2
    <3>2. i - Len(s) = j - Len(s)
      BY <1>6, <3>1 DEF Unique
    <3> QED BY <1>1, <1>2, <3>2
  <2>3. CASE i <= Len(s) /\ ~(j <= Len(s))
    <3>1. i \in DOMAIN s /\ j - Len(s) \in DOMAIN r /\ s[i] = r[j - Len(s)]
      BY <1>1, <1>2, <2>3
    <3> QED BY <1>6, <3>1 DEF Has
  <2>4. CASE ~(i <= Len(s)) /\ j <= Len(s)
    <3>1. j \in DOMAIN s /\ i - Len(s) \in DOMAIN r /\ s[j] = r[i - Len(s)]
      BY <1>1, <1>2, <2>4
    <3> QED BY <1>6, <3>1 DEF Has
  <2> QED BY <2>1, <2>2, <2>3, <2>4
<1> QED BY <1>1, <1>3, <1>4, <1>5, <1>6
(* Removing the element at position i, wherever it stands in the FIFO. *)
RemoveAtIndex(s, i) == SubSeq(s, 1, i - 1) \o SubSeq(s, i + 1, Len(s))

LEMMA RemoveShape ==
    ASSUME NEW S, NEW s \in Seq(S), NEW i \in DOMAIN s
    PROVE  /\ RemoveAtIndex(s, i) \in Seq(S)
           /\ DOMAIN RemoveAtIndex(s, i) = 1..(Len(s) - 1)
           /\ \A k \in 1..(Len(s) - 1) :
                RemoveAtIndex(s, i)[k] = IF k < i THEN s[k] ELSE s[k + 1]
<1> DEFINE a == SubSeq(s, 1, i - 1)
           b == SubSeq(s, i + 1, Len(s))
           r == RemoveAtIndex(s, i)
<1>1. /\ DOMAIN s = 1..Len(s) /\ Len(s) \in Nat /\ i \in 1..Len(s)
  BY LenProperties
<1>2. /\ a \in Seq(S)
      /\ Len(a) = i - 1
      /\ \A k \in 1..(i - 1) : a[k] = s[k]
  BY <1>1
<1>3. /\ b \in Seq(S)
      /\ Len(b) = Len(s) - i
      /\ \A k \in 1..(Len(s) - i) : b[k] = s[i + k]
  BY <1>1
<1> HIDE DEF a, b
<1>4. /\ r \in Seq(S)
      /\ Len(r) = Len(s) - 1
      /\ \A k \in 1..(Len(s) - 1) : r[k] = IF k < i THEN s[k] ELSE s[k + 1]
  <2>1. r = a \o b
    BY DEF RemoveAtIndex, a, b
  <2>2. /\ a \o b \in Seq(S)
        /\ Len(a \o b) = Len(a) + Len(b)
        /\ \A k \in 1..(Len(a) + Len(b)) :
              (a \o b)[k] = IF k <= Len(a) THEN a[k] ELSE b[k - Len(a)]
    BY <1>2, <1>3, ConcatProperties
  <2>3. Len(a) + Len(b) = Len(s) - 1
    BY <1>1, <1>2, <1>3
  <2>4. ASSUME NEW k \in 1..(Len(s) - 1)
        PROVE  r[k] = IF k < i THEN s[k] ELSE s[k + 1]
    <3>1. CASE k < i
      BY <1>1, <1>2, <2>1, <2>2, <2>3, <3>1
    <3>2. CASE ~(k < i)
      <4>1. /\ k - (i - 1) \in 1..(Len(s) - i)
            /\ i + (k - (i - 1)) = k + 1
        BY <1>1, <3>2
      <4>2. r[k] = b[k - (i - 1)]
        BY <1>1, <1>2, <2>1, <2>2, <2>3, <3>2
      <4> QED BY <1>3, <3>2, <4>1, <4>2
    <3> QED BY <3>1, <3>2
  <2> QED BY <2>1, <2>2, <2>3, <2>4
<1> HIDE DEF r
<1>5. DOMAIN r = 1..(Len(s) - 1)
  BY <1>1, <1>4, LenProperties
<1> QED BY <1>4, <1>5 DEF r

LEMMA RemoveFacts ==
    ASSUME NEW S, NEW s \in Seq(S), NEW i \in DOMAIN s, Unique(s)
    PROVE  /\ RemoveAtIndex(s, i) \in Seq(S)
           /\ Unique(RemoveAtIndex(s, i))
           /\ \A e : Has(RemoveAtIndex(s, i), e) <=> Has(s, e) /\ e # s[i]
<1> DEFINE r == RemoveAtIndex(s, i)
<1>1. /\ DOMAIN s = 1..Len(s) /\ Len(s) \in Nat /\ i \in 1..Len(s)
  BY LenProperties
<1>2. /\ r \in Seq(S)
      /\ \A k \in 1..(Len(s) - 1) : r[k] = IF k < i THEN s[k] ELSE s[k + 1]
  BY RemoveShape
<1>3. DOMAIN r = 1..(Len(s) - 1)
  BY RemoveShape
<1> HIDE DEF r
<1>4. Unique(r)
  BY <1>1, <1>2, <1>3 DEF Unique
<1>5. ASSUME NEW e, Has(r, e)
      PROVE  Has(s, e) /\ e # s[i]
  BY <1>1, <1>2, <1>3, <1>5 DEF Has, Unique
<1>6. ASSUME NEW e, Has(s, e), e # s[i]
      PROVE  Has(r, e)
  <2>1. PICK j \in DOMAIN s : s[j] = e
    BY <1>6 DEF Has
  <2>2. CASE j < i
    BY <1>1, <1>2, <1>3, <2>1, <2>2 DEF Has
  <2>3. CASE i < j
    <3>1. j - 1 \in DOMAIN r /\ r[j - 1] = e
      BY <1>1, <1>2, <1>3, <2>1, <2>3
    <3> QED BY <3>1 DEF Has
  <2> QED BY <1>1, <1>6, <2>1, <2>2, <2>3
<1> QED BY <1>2, <1>4, <1>5, <1>6 DEF r
(* The order of a FIFO: an a stands somewhere ahead of a b. *)
Before(s, a, b) == \E i, j \in DOMAIN s : i < j /\ s[i] = a /\ s[j] = b

LEMMA BeforeMembers ==
    ASSUME NEW s, NEW a, NEW b, Before(s, a, b)
    PROVE  Has(s, a) /\ Has(s, b)
  BY DEF Before, Has

(* Taking the head keeps the order of the rest, and nothing was ahead of it. *)
LEMMA TailOrder ==
    ASSUME NEW S, NEW s \in Seq(S), s # <<>>, Unique(s), NEW a, NEW b
    PROVE  /\ Before(Tail(s), a, b) <=> Before(s, a, b) /\ a # Head(s)
           /\ ~Before(s, a, Head(s))
           /\ Has(s, b) /\ b # Head(s) => Before(s, Head(s), b)
<1>1. /\ Len(s) \in Nat \ {0}
      /\ \A i \in 1..(Len(s) - 1) : Tail(s)[i] = s[i + 1]
      /\ Head(s) = s[1]
      /\ DOMAIN s = 1..Len(s)
      /\ DOMAIN Tail(s) = 1..(Len(s) - 1)
  BY HeadTailProperties, EmptySeq, LenProperties
<1>2. ASSUME Before(Tail(s), a, b)
      PROVE  Before(s, a, b) /\ a # Head(s)
  <2>1. PICK i \in DOMAIN Tail(s), j \in DOMAIN Tail(s) :
                i < j /\ Tail(s)[i] = a /\ Tail(s)[j] = b
    BY <1>2 DEF Before
  <2>2. /\ i + 1 \in DOMAIN s /\ j + 1 \in DOMAIN s /\ i + 1 < j + 1
        /\ s[i + 1] = a /\ s[j + 1] = b /\ i + 1 # 1 /\ 1 \in DOMAIN s
    BY <1>1, <2>1
  <2> QED BY <1>1, <2>2 DEF Before, Unique
<1>3. ASSUME Before(s, a, b), a # Head(s)
      PROVE  Before(Tail(s), a, b)
  <2>1. PICK i \in DOMAIN s, j \in DOMAIN s : i < j /\ s[i] = a /\ s[j] = b
    BY <1>3 DEF Before
  <2>2. /\ i - 1 \in DOMAIN Tail(s) /\ j - 1 \in DOMAIN Tail(s) /\ i - 1 < j - 1
        /\ Tail(s)[i - 1] = a /\ Tail(s)[j - 1] = b
    BY <1>1, <1>3, <2>1
  <2> QED BY <2>2 DEF Before
<1>4. ~Before(s, a, Head(s))
  <2> SUFFICES ASSUME NEW i \in DOMAIN s, NEW j \in DOMAIN s, i < j, s[j] = Head(s)
               PROVE  FALSE
    BY DEF Before
  <2>1. 1 \in DOMAIN s /\ j # 1
    BY <1>1
  <2> QED BY <1>1, <2>1 DEF Unique
<1>5. Has(s, b) /\ b # Head(s) => Before(s, Head(s), b)
  <2> SUFFICES ASSUME NEW j \in DOMAIN s, s[j] = b, b # Head(s)
               PROVE  Before(s, Head(s), b)
    BY DEF Has
  <2>1. 1 \in DOMAIN s /\ 1 < j /\ s[1] = Head(s)
    BY <1>1
  <2> QED BY <2>1 DEF Before
<1> QED BY <1>2, <1>3, <1>4, <1>5

(* What is appended stands behind everything, and nothing else moves. *)
LEMMA AppendOrder ==
    ASSUME NEW S, NEW s \in Seq(S), NEW x \in S, NEW a, NEW b
    PROVE  Before(Append(s, x), a, b) <=> Before(s, a, b) \/ (Has(s, a) /\ b = x)
<1>1. /\ Len(s) \in Nat
      /\ \A i \in 1..Len(s) : Append(s, x)[i] = s[i]
      /\ Append(s, x)[Len(s) + 1] = x
      /\ DOMAIN s = 1..Len(s)
      /\ DOMAIN Append(s, x) = 1..(Len(s) + 1)
  BY AppendProperties, LenProperties
<1>2. ASSUME Before(Append(s, x), a, b)
      PROVE  Before(s, a, b) \/ (Has(s, a) /\ b = x)
  <2>1. PICK i \in DOMAIN Append(s, x), j \in DOMAIN Append(s, x) :
                i < j /\ Append(s, x)[i] = a /\ Append(s, x)[j] = b
    BY <1>2 DEF Before
  <2>2. i \in DOMAIN s /\ s[i] = a
    BY <1>1, <2>1
  <2>3. CASE j \in DOMAIN s
    BY <1>1, <2>1, <2>2, <2>3 DEF Before
  <2>4. CASE j = Len(s) + 1
    BY <1>1, <2>1, <2>2, <2>4 DEF Has
  <2> QED BY <1>1, <2>3, <2>4
<1>3. ASSUME Before(s, a, b)
      PROVE  Before(Append(s, x), a, b)
  <2>1. PICK i \in DOMAIN s, j \in DOMAIN s : i < j /\ s[i] = a /\ s[j] = b
    BY <1>3 DEF Before
  <2>2. /\ i \in DOMAIN Append(s, x) /\ j \in DOMAIN Append(s, x)
        /\ Append(s, x)[i] = a /\ Append(s, x)[j] = b
    BY <1>1, <2>1
  <2> QED BY <2>1, <2>2 DEF Before
<1>4. ASSUME Has(s, a), b = x
      PROVE  Before(Append(s, x), a, b)
  <2>1. PICK i \in DOMAIN s : s[i] = a
    BY <1>4 DEF Has
  <2>2. /\ i \in DOMAIN Append(s, x) /\ Len(s) + 1 \in DOMAIN Append(s, x)
        /\ i < Len(s) + 1 /\ Append(s, x)[i] = a /\ Append(s, x)[Len(s) + 1] = b
    BY <1>1, <1>4, <2>1
  <2> QED BY <2>2 DEF Before
<1> QED BY <1>2, <1>3, <1>4

(* Of a concatenation, the first part keeps its order and stands ahead of   *)
(* the second.                                                              *)
LEMMA ConcatOrder ==
    ASSUME NEW S, NEW s \in Seq(S), NEW r \in Seq(S), NEW a, NEW b,
           Before(s, a, b) \/ (Has(s, a) /\ Has(r, b))
    PROVE  Before(s \o r, a, b)
<1>1. /\ \A i \in 1..(Len(s) + Len(r)) :
            (s \o r)[i] = IF i <= Len(s) THEN s[i] ELSE r[i - Len(s)]
      /\ Len(s) \in Nat
      /\ Len(r) \in Nat
      /\ DOMAIN s = 1..Len(s)
      /\ DOMAIN r = 1..Len(r)
      /\ DOMAIN (s \o r) = 1..(Len(s) + Len(r))
  BY ConcatProperties, LenProperties
<1>2. CASE Before(s, a, b)
  <2>1. PICK i \in DOMAIN s, j \in DOMAIN s : i < j /\ s[i] = a /\ s[j] = b
    BY <1>2 DEF Before
  <2>2. /\ i \in DOMAIN (s \o r) /\ j \in DOMAIN (s \o r)
        /\ (s \o r)[i] = a /\ (s \o r)[j] = b
    BY <1>1, <2>1
  <2> QED BY <2>1, <2>2 DEF Before
<1>3. CASE Has(s, a) /\ Has(r, b)
  <2>1. PICK i \in DOMAIN s : s[i] = a
    BY <1>3 DEF Has
  <2>2. PICK j \in DOMAIN r : r[j] = b
    BY <1>3 DEF Has
  <2>3. /\ i \in DOMAIN (s \o r) /\ j + Len(s) \in DOMAIN (s \o r) /\ i < j + Len(s)
        /\ (s \o r)[i] = a /\ (s \o r)[j + Len(s)] = b
    BY <1>1, <2>1, <2>2
  <2> QED BY <2>3 DEF Before
<1> QED BY <1>2, <1>3

(* Removing an element keeps the order of the others. *)
LEMMA RemoveOrder ==
    ASSUME NEW S, NEW s \in Seq(S), NEW i \in DOMAIN s, Unique(s), NEW a, NEW b
    PROVE  Before(RemoveAtIndex(s, i), a, b) <=>
                Before(s, a, b) /\ a # s[i] /\ b # s[i]
<1> DEFINE r == RemoveAtIndex(s, i)
<1>1. /\ DOMAIN s = 1..Len(s) /\ Len(s) \in Nat /\ i \in 1..Len(s)
  BY LenProperties
<1>2. /\ DOMAIN r = 1..(Len(s) - 1)
      /\ \A k \in 1..(Len(s) - 1) : r[k] = IF k < i THEN s[k] ELSE s[k + 1]
  BY RemoveShape
<1> HIDE DEF r
<1>3. ASSUME Before(r, a, b)
      PROVE  Before(s, a, b) /\ a # s[i] /\ b # s[i]
  <2> DEFINE at(k) == IF k < i THEN k ELSE k + 1
  <2>1. PICK j \in DOMAIN r, k \in DOMAIN r : j < k /\ r[j] = a /\ r[k] = b
    BY <1>3 DEF Before
  <2>2. /\ at(j) \in DOMAIN s /\ at(k) \in DOMAIN s /\ at(j) < at(k)
        /\ at(j) # i /\ at(k) # i
    BY <1>1, <1>2, <2>1
  <2>3. s[at(j)] = a /\ s[at(k)] = b
    BY <1>1, <1>2, <2>1
  <2> HIDE DEF at
  <2> QED BY <2>2, <2>3 DEF Before, Unique
<1>4. ASSUME Before(s, a, b), a # s[i], b # s[i]
      PROVE  Before(r, a, b)
  <2> DEFINE at(k) == IF k < i THEN k ELSE k - 1
  <2>1. PICK j \in DOMAIN s, k \in DOMAIN s : j < k /\ s[j] = a /\ s[k] = b
    BY <1>4 DEF Before
  <2>2. j # i /\ k # i
    BY <1>4, <2>1
  <2>3. at(j) \in DOMAIN r /\ at(k) \in DOMAIN r /\ at(j) < at(k)
    BY <1>1, <1>2, <2>1, <2>2
  <2>4. r[at(j)] = a
    BY <1>1, <1>2, <2>1, <2>2
  <2>5. r[at(k)] = b
    BY <1>1, <1>2, <2>1, <2>2
  <2> HIDE DEF at
  <2> QED BY <2>3, <2>4, <2>5 DEF Before
<1> QED BY <1>3, <1>4 DEF r

-----------------------------------------------------------------------------
(* Sums *)

(* Induction over the natural numbers, about a set of them.                 *)
LEMMA SetOfAllNumbers ==
    ASSUME NEW N \in SUBSET Nat, 0 \in N, \A n \in N : n + 1 \in N
    PROVE  N = Nat
<1> SUFFICES ASSUME Nat \ N # {} PROVE FALSE
  OBVIOUS
<1>1. PICK n \in Nat \ N : \A m \in Nat \ N : ~ (<<m, n>> \in OpToRel(<, Nat))
  <2>1. Nat \ N \subseteq Nat
    OBVIOUS
  <2> QED BY <2>1, NatLessThanWellFounded, WFMin
<1>2. n # 0
  OBVIOUS
<1>3. n - 1 \in Nat /\ n - 1 < n
  BY <1>2
<1>4. n - 1 \in N
  BY <1>1, <1>3 DEF OpToRel
<1>5. (n - 1) + 1 \in N
  BY <1>4
<1> QED BY <1>5

(* The recursion that sums are defined by.                                  *)
IsSum(g, f, S) ==
    g = [s \in SUBSET S |->
            IF s = {} THEN 0
            ELSE LET x == CHOOSE x \in s : TRUE IN f[x] + g[s \ {x}]]

LEMMA SumIsRecursive ==
    ASSUME NEW f, NEW S, NEW h, IsSum(h, f, S)
    PROVE  \E g : IsSum(g, f, S) /\ SumFunctionOnSet(f, S) = g[S]
<1> DEFINE g == CHOOSE g : g = [s \in SUBSET S |->
            IF s = {} THEN 0
            ELSE LET x == CHOOSE x \in s : TRUE IN f[x] + g[s \ {x}]]
<1>1. SumFunctionOnSet(f, S) = g[S]
  BY DEF SumFunctionOnSet, FoldFunctionOnSet, MapThenFoldSet
<1>2. IsSum(g, f, S)
  BY DEF IsSum
<1> QED BY <1>1, <1>2

SumBody(g, f, s) ==
    IF s = {} THEN 0
    ELSE LET x == CHOOSE x \in s : TRUE IN f[x] + g[s \ {x}]

(* It has a solution for every finite set.                                  *)
LEMMA SumExists ==
    ASSUME NEW f, NEW S, IsFiniteSet(S)
    PROVE  \E g : IsSum(g, f, S)
<1> DEFINE N == {n \in Nat : \E g : \A s \in SUBSET S :
                   Cardinality(s) <= n => g[s] = SumBody(g, f, s)}
<1>1. \A s \in SUBSET S : IsFiniteSet(s) /\ Cardinality(s) \in Nat
  BY FS_Subset, FS_CardinalityType
<1>2. 0 \in N
  <2> DEFINE g == [s \in SUBSET S |-> 0]
  <2>1. \A s \in SUBSET S : Cardinality(s) <= 0 => g[s] = SumBody(g, f, s)
    BY <1>1, FS_EmptySet DEF SumBody
  <2> QED BY <2>1
<1>3. ASSUME NEW n \in N PROVE n + 1 \in N
  <2>1. PICK g : \A s \in SUBSET S : Cardinality(s) <= n => g[s] = SumBody(g, f, s)
    OBVIOUS
  <2> DEFINE h == [s \in SUBSET S |-> IF Cardinality(s) <= n THEN g[s] ELSE SumBody(g, f, s)]
  <2>2. ASSUME NEW s \in SUBSET S, Cardinality(s) <= n + 1
        PROVE  h[s] = SumBody(h, f, s)
    <3>1. CASE s = {}
      BY <2>1, <3>1, <1>1, FS_EmptySet DEF SumBody
    <3>2. CASE s # {}
      <4> DEFINE x == CHOOSE x \in s : TRUE
      <4>1. x \in s
        BY <3>2
      <4> HIDE DEF x
      <4>2. s \ {x} \in SUBSET S /\ Cardinality(s \ {x}) <= n
        BY <4>1, <1>1, <2>2, FS_RemoveElement
      <4>3. h[s \ {x}] = g[s \ {x}]
        BY <4>2
      <4>4. h[s] = SumBody(g, f, s)
        BY <2>1
      <4> HIDE DEF h
      <4> QED BY <3>2, <4>3, <4>4 DEF SumBody, x
    <3> QED BY <3>1, <3>2
  <2> HIDE DEF h
  <2>3. n + 1 \in Nat
    OBVIOUS
  <2> QED BY <2>2, <2>3
<1>4. Cardinality(S) \in N
  <2> HIDE DEF N
  <2>1. N \in SUBSET Nat
    BY DEF N
  <2> QED BY <2>1, <1>1, <1>2, <1>3, SetOfAllNumbers
<1>5. PICK g : \A s \in SUBSET S : Cardinality(s) <= Cardinality(S) => g[s] = SumBody(g, f, s)
  BY <1>4
<1>6. \A s \in SUBSET S : g[s] = SumBody(g, f, s)
  BY <1>5, FS_Subset
<1> DEFINE h == [s \in SUBSET S |-> g[s]]
<1>7. ASSUME NEW s \in SUBSET S PROVE h[s] = SumBody(h, f, s)
  <2>1. CASE s # {}
    <3> DEFINE x == CHOOSE x \in s : TRUE
    <3>1. s \ {x} \in SUBSET S
      OBVIOUS
    <3> QED BY <1>6, <2>1, <3>1 DEF SumBody
  <2>2. CASE s = {}
    BY <1>6, <2>2 DEF SumBody
  <2> QED BY <2>1, <2>2
<1>8. h = [s \in SUBSET S |-> h[s]]
  OBVIOUS
<1>9. h = [s \in SUBSET S |-> SumBody(h, f, s)]
  <2> HIDE DEF h
  <2> QED BY <1>7, <1>8
<1>10. IsSum(h, f, S)
  <2> HIDE DEF h
  <2> QED BY <1>9 DEF IsSum, SumBody
<1> QED BY <1>10

(* Solutions agree where the summands do, whatever set they are made for.   *)
LEMMA SumIsUnique ==
    ASSUME NEW f, NEW e, NEW S, NEW T, NEW g, NEW h, IsSum(g, f, S), IsSum(h, e, T),
           NEW U, U \subseteq S, U \subseteq T, IsFiniteSet(U), \A x \in U : f[x] = e[x]
    PROVE  g[U] = h[U]
<1> DEFINE N == {n \in Nat : \A s \in SUBSET U : Cardinality(s) <= n => g[s] = h[s]}
<1>1. \A s \in SUBSET U : IsFiniteSet(s) /\ Cardinality(s) \in Nat
  BY FS_Subset, FS_CardinalityType
<1>2. ASSUME NEW s \in SUBSET U
      PROVE  g[s] = SumBody(g, f, s) /\ h[s] = SumBody(h, e, s)
  BY DEF IsSum, SumBody
<1>3. 0 \in N
  BY <1>1, <1>2, FS_EmptySet DEF SumBody
<1>4. ASSUME NEW n \in N PROVE n + 1 \in N
  <2>1. ASSUME NEW s \in SUBSET U, Cardinality(s) <= n + 1
        PROVE  g[s] = h[s]
    <3>1. CASE s = {}
      BY <1>2, <3>1 DEF SumBody
    <3>2. CASE s # {}
      <4> DEFINE x == CHOOSE x \in s : TRUE
      <4>1. x \in s
        BY <3>2
      <4>2. g[s] = f[x] + g[s \ {x}] /\ h[s] = e[x] + h[s \ {x}]
        BY <1>2, <3>2 DEF SumBody
      <4> HIDE DEF x
      <4>3. s \ {x} \in SUBSET U /\ Cardinality(s \ {x}) <= n
        BY <4>1, <1>1, <2>1, FS_RemoveElement
      <4> QED BY <4>1, <4>2, <4>3
    <3> QED BY <3>1, <3>2
  <2> QED BY <2>1
<1>5. Cardinality(U) \in N
  <2> HIDE DEF N
  <2>1. N \in SUBSET Nat
    BY DEF N
  <2> QED BY <2>1, <1>1, <1>3, <1>4, SetOfAllNumbers
<1>6. Cardinality(U) <= Cardinality(U)
  BY <1>1
<1> QED BY <1>5, <1>6

LEMMA SumSame ==
    ASSUME NEW f, NEW e, NEW S, IsFiniteSet(S), \A x \in S : f[x] = e[x]
    PROVE  SumFunctionOnSet(f, S) = SumFunctionOnSet(e, S)
<1>1. PICK g : IsSum(g, f, S) /\ SumFunctionOnSet(f, S) = g[S]
  BY SumExists, SumIsRecursive
<1>2. PICK h : IsSum(h, e, S) /\ SumFunctionOnSet(e, S) = h[S]
  BY SumExists, SumIsRecursive
<1> QED BY <1>1, <1>2, SumIsUnique

LEMMA SumChosen ==
    ASSUME NEW f, NEW S, IsFiniteSet(S)
    PROVE  SumFunctionOnSet(f, S) =
               IF S = {} THEN 0
               ELSE LET x == CHOOSE x \in S : TRUE
                    IN  f[x] + SumFunctionOnSet(f, S \ {x})
<1>1. PICK g : IsSum(g, f, S) /\ SumFunctionOnSet(f, S) = g[S]
  BY SumExists, SumIsRecursive
<1>2. S \in SUBSET S
  OBVIOUS
<1>3. g[S] = SumBody(g, f, S)
  BY <1>1, <1>2 DEF IsSum, SumBody
<1>4. CASE S # {}
  <2> DEFINE x == CHOOSE x \in S : TRUE
  <2>1. g[S] = f[x] + g[S \ {x}]
    BY <1>3, <1>4 DEF SumBody
  <2>2. IsFiniteSet(S \ {x})
    BY FS_Subset
  <2>3. PICK h : IsSum(h, f, S \ {x}) /\ SumFunctionOnSet(f, S \ {x}) = h[S \ {x}]
    BY <2>2, SumExists, SumIsRecursive
  <2>4. g[S \ {x}] = h[S \ {x}]
    <3> HIDE DEF x
    <3> QED BY <1>1, <2>2, <2>3, SumIsUnique
  <2> QED BY <1>1, <1>4, <2>1, <2>3, <2>4
<1>5. CASE S = {}
  BY <1>1, <1>3, <1>5 DEF SumBody
<1> QED BY <1>4, <1>5

LEMMA SumOfNone ==
    ASSUME NEW f
    PROVE  SumFunctionOnSet(f, {}) = 0
BY SumChosen, FS_EmptySet

(* The order does not matter.                                               *)
LEMMA SumIsInt ==
    ASSUME NEW f, NEW S, IsFiniteSet(S), \A x \in S : f[x] \in Int
    PROVE  /\ SumFunctionOnSet(f, S) \in Int
           /\ \A x \in S : SumFunctionOnSet(f, S) = f[x] + SumFunctionOnSet(f, S \ {x})
<1> DEFINE Good(s) ==
              /\ SumFunctionOnSet(f, s) \in Int
              /\ \A x \in s : SumFunctionOnSet(f, s) = f[x] + SumFunctionOnSet(f, s \ {x})
           N == {n \in Nat : \A s \in SUBSET S : Cardinality(s) <= n => Good(s)}
<1>1. \A s \in SUBSET S : IsFiniteSet(s) /\ Cardinality(s) \in Nat
  BY FS_Subset, FS_CardinalityType
<1>2. Good({})
  BY SumOfNone
<1>3. 0 \in N
  <2> HIDE DEF Good
  <2> QED BY <1>1, <1>2, FS_EmptySet
<1>4. ASSUME NEW n \in N PROVE n + 1 \in N
  <2>1. ASSUME NEW s \in SUBSET S, Cardinality(s) <= n + 1, s # {}
        PROVE  Good(s)
    <3> DEFINE c == CHOOSE c \in s : TRUE
    <3>1. c \in s
      BY <2>1
    <3>2. SumFunctionOnSet(f, s) = f[c] + SumFunctionOnSet(f, s \ {c})
      BY <1>1, <2>1, SumChosen
    <3> HIDE DEF c
    <3>3. ASSUME NEW x \in s
          PROVE  s \ {x} \in SUBSET S /\ Good(s \ {x})
      <4>1. s \ {x} \in SUBSET S /\ Cardinality(s \ {x}) <= n
        BY <1>1, <2>1, FS_RemoveElement
      <4> HIDE DEF Good
      <4> QED BY <4>1
    <3>4. SumFunctionOnSet(f, s) \in Int
      BY <3>1, <3>2, <3>3
    <3>5. ASSUME NEW x \in s, x # c
          PROVE  SumFunctionOnSet(f, s) = f[x] + SumFunctionOnSet(f, s \ {x})
      <4> DEFINE r == SumFunctionOnSet(f, (s \ {c}) \ {x})
      <4>1. SumFunctionOnSet(f, s \ {c}) = f[x] + r
        BY <3>1, <3>3, <3>5
      <4>2. (s \ {c}) \ {x} = (s \ {x}) \ {c}
        OBVIOUS
      <4>3. SumFunctionOnSet(f, s \ {x}) = f[c] + r
        BY <3>1, <3>3, <3>5, <4>2
      <4>4. r \in Int
        <5>1. (s \ {c}) \ {x} \in SUBSET S /\ Cardinality((s \ {c}) \ {x}) <= n
          <6>1. Cardinality(s \ {c}) <= n /\ IsFiniteSet(s \ {c}) /\ s \ {c} \in SUBSET S
            BY <1>1, <2>1, <3>1, FS_RemoveElement
          <6>2. Cardinality((s \ {c}) \ {x}) <= Cardinality(s \ {c})
            BY <6>1, FS_Subset
          <6> QED BY <1>1, <6>1, <6>2
        <5> QED BY <5>1
      <4> HIDE DEF r
      <4>5. f[x] \in Int /\ f[c] \in Int
        BY <3>1
      <4> QED BY <3>2, <4>1, <4>3, <4>4, <4>5
    <3> QED BY <3>2, <3>4, <3>5
  <2> HIDE DEF Good
  <2>2. n + 1 \in Nat
    OBVIOUS
  <2> QED BY <1>2, <2>1, <2>2
<1>5. Cardinality(S) \in N
  <2> HIDE DEF N
  <2>1. N \in SUBSET Nat
    BY DEF N
  <2> QED BY <2>1, <1>1, <1>3, <1>4, SetOfAllNumbers
<1>6. Cardinality(S) <= Cardinality(S)
  BY <1>1
<1>7. Good(S)
  <2> HIDE DEF Good
  <2> QED BY <1>5, <1>6
<1> QED BY <1>7

LEMMA SumExtended ==
    ASSUME NEW f, NEW S, IsFiniteSet(S), NEW x, x \notin S,
           \A y \in S : f[y] \in Int, f[x] \in Int
    PROVE  SumFunctionOnSet(f, S \cup {x}) = f[x] + SumFunctionOnSet(f, S)
<1>1. IsFiniteSet(S \cup {x}) /\ (S \cup {x}) \ {x} = S /\ x \in S \cup {x}
  BY FS_AddElement
<1>2. \A y \in S \cup {x} : f[y] \in Int
  OBVIOUS
<1> QED BY <1>1, <1>2, SumIsInt

(* A property of finite sets that holds of the empty set and is kept as     *)
(* members are added holds of all: the subsets of S it holds of are P.      *)
GrowsTo(P, S) == \A T \in SUBSET S : \A x \in S \ T : T \in P => T \cup {x} \in P

LEMMA SubsetsGrow ==
    ASSUME NEW S, IsFiniteSet(S), NEW P, {} \in P, GrowsTo(P, S)
    PROVE  S \in P
<1> DEFINE N == {n \in Nat : \A s \in SUBSET S : Cardinality(s) <= n => s \in P}
<1>1. \A s \in SUBSET S : IsFiniteSet(s) /\ Cardinality(s) \in Nat
  BY FS_Subset, FS_CardinalityType
<1>2. 0 \in N
  BY <1>1, FS_EmptySet
<1>3. ASSUME NEW n \in N PROVE n + 1 \in N
  <2>1. ASSUME NEW s \in SUBSET S, Cardinality(s) <= n + 1, s # {}
        PROVE  s \in P
    <3>1. PICK x : x \in s
      BY <2>1
    <3>2. s \ {x} \in SUBSET S /\ Cardinality(s \ {x}) <= n
      BY <1>1, <2>1, <3>1, FS_RemoveElement
    <3>3. s \ {x} \in P /\ x \in S \ (s \ {x})
      BY <3>1, <3>2
    <3>4. (s \ {x}) \cup {x} = s
      BY <3>1
    <3> QED BY <3>2, <3>3, <3>4 DEF GrowsTo
  <2>2. n + 1 \in Nat
    OBVIOUS
  <2> QED BY <2>1, <2>2
<1>4. Cardinality(S) \in N
  <2> HIDE DEF N
  <2>1. N \in SUBSET Nat
    BY DEF N
  <2> QED BY <2>1, <1>1, <1>2, <1>3, SetOfAllNumbers
<1>5. Cardinality(S) <= Cardinality(S)
  BY <1>1
<1> QED BY <1>4, <1>5

(* Summing two functions is summing their values.                           *)
LEMMA SumOfBoth ==
    ASSUME NEW f, NEW e, NEW h, NEW S, IsFiniteSet(S),
           \A x \in S : f[x] \in Int /\ e[x] \in Int /\ h[x] = f[x] + e[x]
    PROVE  SumFunctionOnSet(h, S) = SumFunctionOnSet(f, S) + SumFunctionOnSet(e, S)
<1> DEFINE P == {T \in SUBSET S : SumFunctionOnSet(h, T)
                     = SumFunctionOnSet(f, T) + SumFunctionOnSet(e, T)}
<1>1. {} \in P
  BY SumOfNone
<1>2. ASSUME NEW T \in SUBSET S, NEW x \in S \ T, T \in P
      PROVE  T \cup {x} \in P
  <2>1. IsFiniteSet(T)
    BY FS_Subset
  <2>2. /\ SumFunctionOnSet(h, T \cup {x}) = h[x] + SumFunctionOnSet(h, T)
        /\ SumFunctionOnSet(f, T \cup {x}) = f[x] + SumFunctionOnSet(f, T)
        /\ SumFunctionOnSet(e, T \cup {x}) = e[x] + SumFunctionOnSet(e, T)
    BY <2>1, SumExtended
  <2>3. SumFunctionOnSet(f, T) \in Int /\ SumFunctionOnSet(e, T) \in Int
    BY <2>1, SumIsInt
  <2>4. SumFunctionOnSet(h, T) = SumFunctionOnSet(f, T) + SumFunctionOnSet(e, T)
    BY <1>2
  <2> QED BY <2>2, <2>3, <2>4
<1>3. S \in P
  <2> HIDE DEF P
  <2> QED BY <1>1, <1>2, SubsetsGrow DEF GrowsTo
<1> QED BY <1>3

(* Only natural numbers sum to one, at least as large as each.              *)
LEMMA SumIsNat ==
    ASSUME NEW f, NEW S, IsFiniteSet(S), \A x \in S : f[x] \in Nat
    PROVE  /\ SumFunctionOnSet(f, S) \in Nat
           /\ \A x \in S : f[x] <= SumFunctionOnSet(f, S)
<1> DEFINE P == {T \in SUBSET S : SumFunctionOnSet(f, T) \in Nat}
<1>1. {} \in P
  BY SumOfNone
<1>2. ASSUME NEW T \in SUBSET S, NEW x \in S \ T, T \in P
      PROVE  T \cup {x} \in P
  <2>1. IsFiniteSet(T)
    BY FS_Subset
  <2>2. SumFunctionOnSet(f, T \cup {x}) = f[x] + SumFunctionOnSet(f, T)
    BY <2>1, SumExtended
  <2> QED BY <1>2, <2>2
<1>3. ASSUME NEW T \in SUBSET S
      PROVE  SumFunctionOnSet(f, T) \in Nat
  <2> DEFINE Q == {U \in SUBSET T : SumFunctionOnSet(f, U) \in Nat}
  <2>1. IsFiniteSet(T) /\ {} \in Q
    BY <1>1, FS_Subset
  <2>2. \A U \in SUBSET T : \A x \in T \ U : U \in Q => U \cup {x} \in Q
    BY <1>2
  <2>3. T \in Q
    <3> HIDE DEF Q
    <3> QED BY <2>1, <2>2, SubsetsGrow DEF GrowsTo
  <2> QED BY <2>3
<1>4. ASSUME NEW x \in S
      PROVE  f[x] <= SumFunctionOnSet(f, S)
  <2>1. SumFunctionOnSet(f, S \ {x}) \in Nat
    BY <1>3
  <2>2. SumFunctionOnSet(f, S) = f[x] + SumFunctionOnSet(f, S \ {x})
    BY SumIsInt
  <2> QED BY <2>1, <2>2
<1> QED BY <1>3, <1>4

(* One summand changes, and the sum with it.                                *)
LEMMA SumUpdated ==
    ASSUME NEW f, NEW e, NEW S, IsFiniteSet(S), NEW x \in S,
           \A y \in S : f[y] \in Int /\ e[y] \in Int,
           \A y \in S \ {x} : e[y] = f[y]
    PROVE  SumFunctionOnSet(e, S) = SumFunctionOnSet(f, S) + (e[x] - f[x])
<1>1. /\ SumFunctionOnSet(f, S) = f[x] + SumFunctionOnSet(f, S \ {x})
      /\ SumFunctionOnSet(e, S) = e[x] + SumFunctionOnSet(e, S \ {x})
  BY SumIsInt
<1>2. IsFiniteSet(S \ {x})
  BY FS_Subset
<1>3. SumFunctionOnSet(f, S \ {x}) = SumFunctionOnSet(e, S \ {x})
  BY <1>2, SumSame
<1>4. SumFunctionOnSet(f, S \ {x}) \in Int
  BY <1>2, SumIsInt
<1> QED BY <1>1, <1>3, <1>4

(* Summands outside of a part are zero: the part sums to as much.           *)
LEMMA SumOfPart ==
    ASSUME NEW f, NEW S, IsFiniteSet(S), NEW T \in SUBSET S,
           \A x \in S : f[x] \in Int, \A x \in S \ T : f[x] = 0
    PROVE  SumFunctionOnSet(f, S) = SumFunctionOnSet(f, T)
<1> DEFINE U == S \ T
           P == {V \in SUBSET U : SumFunctionOnSet(f, T \cup V) = SumFunctionOnSet(f, T)}
<1>1. IsFiniteSet(T) /\ IsFiniteSet(U)
  BY FS_Subset
<1>2. {} \in P
  <2>1. T \cup {} = T
    OBVIOUS
  <2> QED BY <2>1
<1>3. ASSUME NEW V \in SUBSET U, NEW x \in U \ V, V \in P
      PROVE  V \cup {x} \in P
  <2>1. IsFiniteSet(T \cup V)
    BY FS_Subset
  <2>2. T \cup (V \cup {x}) = (T \cup V) \cup {x} /\ x \notin T \cup V
    OBVIOUS
  <2>3. \A y \in T \cup V : f[y] \in Int
    OBVIOUS
  <2>4. SumFunctionOnSet(f, (T \cup V) \cup {x}) = f[x] + SumFunctionOnSet(f, T \cup V)
    BY <2>1, <2>2, <2>3, SumExtended
  <2>5. SumFunctionOnSet(f, T) \in Int /\ f[x] = 0
    BY <1>1, SumIsInt
  <2>6. SumFunctionOnSet(f, T \cup V) = SumFunctionOnSet(f, T)
    BY <1>3
  <2>7. SumFunctionOnSet(f, T \cup (V \cup {x})) = f[x] + SumFunctionOnSet(f, T)
    BY <2>2, <2>4, <2>6, Zenon
  <2>8. f[x] + SumFunctionOnSet(f, T) = SumFunctionOnSet(f, T)
    BY <2>5
  <2> QED BY <2>7, <2>8
<1>4. U \in P
  <2> HIDE DEF P, U
  <2> QED BY <1>1, <1>2, <1>3, SubsetsGrow DEF GrowsTo
<1>5. T \cup U = S
  OBVIOUS
<1> QED BY <1>4, <1>5

(* Sums of functions written down on their domains.                         *)
LEMMA SumOnDomain ==
    ASSUME NEW f
    PROVE  SumFunction(f) = SumFunctionOnSet(f, DOMAIN f)
BY DEF SumFunction
=============================================================================
