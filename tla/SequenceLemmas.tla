--------------------------- MODULE SequenceLemmas ---------------------------
(***************************************************************************)
(* What the sequence operators that edit a list return: the insertion and  *)
(* removal of one element at a position, and the swap of two elements.     *)
(***************************************************************************)
EXTENDS SequencesExt, SequenceTheorems, WellFoundedInduction, TLAPS

(* A set of natural numbers that is not empty has a least element.         *)
LEMMA LeastElement ==
  ASSUME NEW I, I \subseteq Nat, I # {}
  PROVE  \E i \in I : \A j \in I : i <= j
<1>1. \E i \in I : \A j \in I : <<j, i>> \notin OpToRel(<, Nat)
  BY NatLessThanWellFounded, WFMin
<1>2. PICK i \in I : \A j \in I : <<j, i>> \notin OpToRel(<, Nat)
  BY <1>1
<1>3. \A j \in I : ~(j < i)
  BY <1>2 DEF OpToRel
<1>4. i \in Nat /\ \A j \in I : j \in Nat
  OBVIOUS
<1> QED
  BY <1>3, <1>4

(* A function on an initial segment of the positions is a sequence.        *)
LEMMA FunctionIsSequence ==
  ASSUME NEW S, NEW k \in Nat, NEW f \in [1..k -> S]
  PROVE  /\ f \in Seq(S)
         /\ Len(f) = k
OBVIOUS

(* Inserting shifts the elements from the position on by one.              *)
LEMMA InsertAtProperties ==
  ASSUME NEW S, NEW s \in Seq(S), NEW e \in S, NEW i \in 1..Len(s) + 1
  PROVE  /\ InsertAt(s, i, e) \in Seq(S)
         /\ Len(InsertAt(s, i, e)) = Len(s) + 1
         /\ \A k \in 1..Len(s) + 1 :
              InsertAt(s, i, e)[k] = IF k < i THEN s[k]
                                     ELSE IF k = i THEN e ELSE s[k - 1]
<1> DEFINE front == SubSeq(s, 1, i - 1)
           back  == SubSeq(s, i, Len(s))
<1>1. /\ Len(s) \in Nat
      /\ \A k \in 1..Len(s) : s[k] \in S
  BY ElementOfSeq, LenProperties
<1>2. /\ front \in Seq(S) /\ Len(front) = i - 1
      /\ \A k \in 1..i - 1 : front[k] = s[k]
  <2>1. \A k \in 1..i - 1 : s[k] \in S
    BY <1>1
  <2> QED
    BY <1>1, <2>1, SubSeqProperties
<1>3. /\ back \in Seq(S) /\ Len(back) = Len(s) - i + 1
      /\ \A k \in 1..Len(s) - i + 1 : back[k] = s[i + k - 1]
  <2>1. \A k \in i..Len(s) : s[k] \in S
    BY <1>1
  <2> QED
    BY <1>1, <2>1, SubSeqProperties
<1>4. /\ <<e>> \in Seq(S) /\ Len(<<e>>) = 1 /\ <<e>>[1] = e
  OBVIOUS
<1> HIDE DEF front, back
<1>5. /\ front \o <<e>> \in Seq(S)
      /\ Len(front \o <<e>>) = i
      /\ \A k \in 1..i : (front \o <<e>>)[k] = IF k < i THEN s[k] ELSE e
  BY <1>1, <1>2, <1>4, ConcatProperties
<1>6. InsertAt(s, i, e) = (front \o <<e>>) \o back
  BY DEF InsertAt, front, back
<1>7. /\ (front \o <<e>>) \o back \in Seq(S)
      /\ Len((front \o <<e>>) \o back) = Len(s) + 1
      /\ \A k \in 1..Len(s) + 1 :
           ((front \o <<e>>) \o back)[k] =
             IF k <= i THEN (front \o <<e>>)[k] ELSE back[k - i]
  BY <1>1, <1>3, <1>5, ConcatProperties
<1>8. ASSUME NEW k \in 1..Len(s) + 1
      PROVE  ((front \o <<e>>) \o back)[k] =
               IF k < i THEN s[k] ELSE IF k = i THEN e ELSE s[k - 1]
  <2>1. CASE k <= i
    BY <1>1, <1>5, <1>7, <2>1
  <2>2. CASE k > i
    <3>1. k - i \in 1..Len(s) - i + 1 /\ i + (k - i) - 1 = k - 1
      BY <1>1, <2>2
    <3>2. back[k - i] = s[k - 1]
      BY <1>3, <3>1
    <3> QED
      BY <1>1, <1>7, <2>2, <3>2, SMTT(30)
  <2>3. k <= i \/ k > i
    OBVIOUS
  <2> QED
    BY <2>1, <2>2, <2>3
<1> QED
  BY <1>6, <1>7, <1>8

(* It leaves the elements before the position where they are.              *)
LEMMA InsertAtKeeps ==
  ASSUME NEW S, NEW s \in Seq(S), NEW e \in S, NEW i \in 1..Len(s) + 1,
         NEW k \in 1..Len(s), k < i
  PROVE  InsertAt(s, i, e)[k] = s[k]
<1>1. Len(s) \in Nat
  BY LenProperties
<1>2. k \in 1..Len(s) + 1
  BY <1>1
<1>3. InsertAt(s, i, e)[k] = IF k < i THEN s[k] ELSE IF k = i THEN e ELSE s[k - 1]
  BY <1>2, InsertAtProperties
<1> QED
  BY <1>3

(* The same, of one element, and of the length alone.                      *)
LEMMA InsertAtElement ==
  ASSUME NEW S, NEW s \in Seq(S), NEW e \in S, NEW i \in 1..Len(s) + 1,
         NEW k \in 1..Len(s) + 1
  PROVE  InsertAt(s, i, e)[k] = IF k < i THEN s[k]
                                ELSE IF k = i THEN e ELSE s[k - 1]
  BY InsertAtProperties

LEMMA InsertAtLength ==
  ASSUME NEW S, NEW s \in Seq(S), NEW e \in S, NEW i \in 1..Len(s) + 1
  PROVE  Len(InsertAt(s, i, e)) = Len(s) + 1
  BY InsertAtProperties

(* Removing shifts the elements after the position back by one.            *)
LEMMA RemoveAtProperties ==
  ASSUME NEW S, NEW s \in Seq(S), NEW i \in 1..Len(s)
  PROVE  /\ RemoveAt(s, i) \in Seq(S)
         /\ Len(RemoveAt(s, i)) = Len(s) - 1
         /\ \A k \in 1..Len(s) - 1 :
              RemoveAt(s, i)[k] = IF k < i THEN s[k] ELSE s[k + 1]
<1> DEFINE front == SubSeq(s, 1, i - 1)
           back  == SubSeq(s, i + 1, Len(s))
<1>1. /\ Len(s) \in Nat
      /\ \A k \in 1..Len(s) : s[k] \in S
  BY ElementOfSeq, LenProperties
<1>2. /\ front \in Seq(S) /\ Len(front) = i - 1
      /\ \A k \in 1..i - 1 : front[k] = s[k]
  <2>1. \A k \in 1..i - 1 : s[k] \in S
    BY <1>1
  <2> QED
    BY <1>1, <2>1, SubSeqProperties
<1>3. /\ back \in Seq(S) /\ Len(back) = Len(s) - i
      /\ \A k \in 1..Len(s) - i : back[k] = s[i + k]
  <2>1. \A k \in i + 1..Len(s) : s[k] \in S
    BY <1>1
  <2>2. /\ back \in Seq(S)
        /\ Len(back) = IF i + 1 <= Len(s) THEN Len(s) - (i + 1) + 1 ELSE 0
        /\ \A k \in 1..Len(s) - (i + 1) + 1 : back[k] = s[(i + 1) + k - 1]
    BY <1>1, <2>1, SubSeqProperties
  <2>3. Len(back) = Len(s) - i
    BY <1>1, <2>2
  <2>4. \A k \in 1..Len(s) - i :
          k \in 1..Len(s) - (i + 1) + 1 /\ (i + 1) + k - 1 = i + k
    BY <1>1
  <2> QED
    BY <2>2, <2>3, <2>4
<1> HIDE DEF front, back
<1>4. RemoveAt(s, i) = front \o back
  BY DEF RemoveAt, front, back
<1>5. /\ front \o back \in Seq(S)
      /\ Len(front \o back) = Len(s) - 1
      /\ \A k \in 1..Len(s) - 1 :
           (front \o back)[k] = IF k <= i - 1 THEN front[k]
                                             ELSE back[k - (i - 1)]
  <2>1. Len(front) + Len(back) = Len(s) - 1
    BY <1>1, <1>2, <1>3
  <2>2. /\ front \o back \in Seq(S)
        /\ Len(front \o back) = Len(front) + Len(back)
        /\ \A k \in 1..Len(front) + Len(back) :
             (front \o back)[k] = IF k <= Len(front) THEN front[k]
                                                     ELSE back[k - Len(front)]
    BY <1>2, <1>3, ConcatProperties
  <2> QED
    BY <1>2, <2>1, <2>2
<1>6. ASSUME NEW k \in 1..Len(s) - 1
      PROVE  (front \o back)[k] = IF k < i THEN s[k] ELSE s[k + 1]
  <2>1. CASE k < i
    BY <1>1, <1>2, <1>5, <2>1
  <2>2. CASE k >= i
    <3>1. k - (i - 1) \in 1..Len(s) - i /\ i + (k - (i - 1)) = k + 1
      BY <1>1, <2>2
    <3>2. back[k - (i - 1)] = s[k + 1]
      BY <1>3, <3>1
    <3> QED
      BY <1>1, <1>5, <2>2, <3>2
  <2>3. k < i \/ k >= i
    OBVIOUS
  <2> QED
    BY <2>1, <2>2, <2>3
<1> QED
  BY <1>4, <1>5, <1>6

(* Swapping exchanges two elements and leaves the others in place.         *)
LEMMA SwapProperties ==
  ASSUME NEW S, NEW s \in Seq(S), NEW i \in 1..Len(s), NEW j \in 1..Len(s)
  PROVE  LET t == [s EXCEPT ![i] = s[j], ![j] = s[i]]
         IN  /\ t \in Seq(S)
             /\ Len(t) = Len(s)
             /\ \A k \in 1..Len(s) :
                  t[k] = IF k = j THEN s[i] ELSE IF k = i THEN s[j] ELSE s[k]
<1> DEFINE u == [s EXCEPT ![i] = s[j]]
           t == [u EXCEPT ![j] = s[i]]
<1>1. s[i] \in S /\ s[j] \in S
  BY ElementOfSeq
<1>2. /\ u \in Seq(S) /\ Len(u) = Len(s)
      /\ \A k \in 1..Len(s) : u[k] = IF k = i THEN s[j] ELSE s[k]
  BY <1>1, ExceptSeq
<1> HIDE DEF u
<1>3. /\ t \in Seq(S) /\ Len(t) = Len(u)
      /\ \A k \in 1..Len(u) : t[k] = IF k = j THEN s[i] ELSE u[k]
  BY <1>1, <1>2, ExceptSeq
<1> QED
  BY <1>2, <1>3 DEF u
=============================================================================
