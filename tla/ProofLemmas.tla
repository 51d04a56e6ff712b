----------------------------- MODULE ProofLemmas -----------------------------
(***************************************************************************)
(* Facts the proofs about the dirty log and the map share: how records     *)
(* move between neighbouring sequences, how a count follows a set, and     *)
(* arithmetic on a counter that wraps.  Nothing here is about the code.    *)
(***************************************************************************)
EXTENDS Integers, Sequences, FiniteSets, SequenceTheorems, FiniteSetTheorems,
        TLAPS

(***************************************************************************)
(* Sequences.                                                              *)
(***************************************************************************)

\* A record appended to the last of two sequences is appended to both.
LEMMA ConcatAppend ==
  ASSUME NEW S, NEW s \in Seq(S), NEW t \in Seq(S), NEW e \in S
  PROVE  s \o Append(t, e) = Append(s \o t, e)
<1>1. s \o Append(t, e) = s \o (t \o <<e>>)
  BY AppendIsConcat
<1>2. s \o (t \o <<e>>) = (s \o t) \o <<e>>
  BY ConcatAssociative
<1>3. s \o t \in Seq(S)
  BY ConcatProperties
<1>4. (s \o t) \o <<e>> = Append(s \o t, e)
  BY <1>3, AppendIsConcat
<1> QED
  BY <1>1, <1>2, <1>4

\* The head of a sequence can move to the end of the one before it.
LEMMA MoveHead ==
  ASSUME NEW S, NEW s \in Seq(S), NEW t \in Seq(S), t # <<>>
  PROVE  Append(s, Head(t)) \o Tail(t) = s \o t
<1>1. Head(t) \in S /\ Tail(t) \in Seq(S)
  BY HeadTailProperties
<1>2. Append(s, Head(t)) = s \o <<Head(t)>>
  BY <1>1, AppendIsConcat
<1>3. (s \o <<Head(t)>>) \o Tail(t) = s \o (<<Head(t)>> \o Tail(t))
  BY <1>1, ConcatAssociative
<1>4. <<Head(t)>> \o Tail(t) = t
  BY <1>1
<1> QED
  BY <1>2, <1>3, <1>4

\* A sequence is any prefix of it and the rest.
LEMMA SplitAt ==
  ASSUME NEW S, NEW s \in Seq(S), NEW n \in 0 .. Len(s)
  PROVE  /\ SubSeq(s, 1, n) \in Seq(S) /\ Len(SubSeq(s, 1, n)) = n
         /\ SubSeq(s, n + 1, Len(s)) \in Seq(S)
         /\ Len(SubSeq(s, n + 1, Len(s))) = Len(s) - n
         /\ SubSeq(s, 1, n) \o SubSeq(s, n + 1, Len(s)) = s
<1>1. Len(s) \in Nat /\ \A i \in 1 .. Len(s) : s[i] \in S
  OBVIOUS
<1>2. SubSeq(s, 1, n) \in Seq(S) /\ Len(SubSeq(s, 1, n)) = n
  BY <1>1, SubSeqProperties
<1>3. /\ SubSeq(s, n + 1, Len(s)) \in Seq(S)
      /\ Len(SubSeq(s, n + 1, Len(s))) = Len(s) - n
  BY <1>1, SubSeqProperties
<1>4. SubSeq(s, 1, n) \o SubSeq(s, n + 1, Len(s)) = SubSeq(s, 1, Len(s))
  <2>1. 1 \in 1 .. Len(s) + 1 /\ n \in 1 - 1 .. Len(s) /\ Len(s) \in n .. Len(s)
    BY <1>1
  <2> QED
    BY <2>1, ConcatAdjacentSubSeq
<1> QED
  BY <1>2, <1>3, <1>4, SubSeqFull

\* A concatenation splits where its parts meet.
LEMMA SplitConcat ==
  ASSUME NEW S, NEW s \in Seq(S), NEW t \in Seq(S)
  PROVE  /\ SubSeq(s \o t, 1, Len(s)) = s
         /\ SubSeq(s \o t, Len(s) + 1, Len(s \o t)) = t
<1> DEFINE c == s \o t
<1>1. /\ c \in Seq(S) /\ Len(c) = Len(s) + Len(t)
      /\ \A i \in 1 .. Len(s) + Len(t) :
           c[i] = IF i <= Len(s) THEN s[i] ELSE t[i - Len(s)]
  BY ConcatProperties
<1>2. Len(s) \in Nat /\ Len(t) \in Nat
  OBVIOUS
<1> HIDE DEF c
<1>3. \A i \in 1 .. Len(c) : c[i] \in S
  BY <1>1
<1>4. SubSeq(c, 1, Len(s)) = s
  <2>1. /\ SubSeq(c, 1, Len(s)) \in Seq(S)
        /\ Len(SubSeq(c, 1, Len(s))) = Len(s)
        /\ \A i \in 1 .. Len(s) : SubSeq(c, 1, Len(s))[i] = c[i]
    BY <1>1, <1>2, <1>3, SubSeqProperties
  <2>2. \A i \in 1 .. Len(s) : SubSeq(c, 1, Len(s))[i] = s[i]
    BY <1>1, <1>2, <2>1
  <2> QED
    BY <2>1, <2>2, SeqEqual
<1>5. SubSeq(c, Len(s) + 1, Len(c)) = t
  <2>1. /\ SubSeq(c, Len(s) + 1, Len(c)) \in Seq(S)
        /\ Len(SubSeq(c, Len(s) + 1, Len(c))) = Len(t)
        /\ \A i \in 1 .. Len(t) : SubSeq(c, Len(s) + 1, Len(c))[i] = c[Len(s) + i]
    BY <1>1, <1>2, <1>3, SubSeqProperties
  <2>2. \A i \in 1 .. Len(t) : c[Len(s) + i] = t[i]
    BY <1>1, <1>2
  <2>3. \A i \in 1 .. Len(t) : SubSeq(c, Len(s) + 1, Len(c))[i] = t[i]
    BY <2>1, <2>2
  <2> QED
    BY <2>1, <2>3, SeqEqual
<1> QED
  BY <1>4, <1>5 DEF c

(***************************************************************************)
(* Counts.                                                                 *)
(***************************************************************************)

\* A count that gains one element.
LEMMA CountUp ==
  ASSUME NEW S, NEW x, IsFiniteSet(S), x \notin S
  PROVE  /\ IsFiniteSet(S \cup {x})
         /\ Cardinality(S) \in Nat
         /\ Cardinality(S \cup {x}) = Cardinality(S) + 1
BY FS_AddElement, FS_CardinalityType

\* A count that loses one element.
LEMMA CountDown ==
  ASSUME NEW S, NEW x \in S, IsFiniteSet(S)
  PROVE  /\ IsFiniteSet(S \ {x})
         /\ Cardinality(S) \in Nat
         /\ Cardinality(S \ {x}) = Cardinality(S) - 1
BY FS_RemoveElement, FS_CardinalityType

\* What a function takes on a finite set is no more than the set.
LEMMA ImageCount ==
  ASSUME NEW S, IsFiniteSet(S), NEW f, DOMAIN f = S, f = [x \in S |-> f[x]]
  PROVE  /\ IsFiniteSet({f[x] : x \in S})
         /\ Cardinality({f[x] : x \in S}) \in Nat
         /\ Cardinality({f[x] : x \in S}) <= Cardinality(S)
<1> DEFINE T == {f[x] : x \in S}
<1>1. f \in Surjection(S, T)
  BY DEF Surjection
<1> HIDE DEF T
<1>2. IsFiniteSet(T) /\ Cardinality(T) <= Cardinality(S)
  BY <1>1, FS_Surjection
<1>3. Cardinality(T) \in Nat
  BY <1>2, FS_CardinalityType
<1> QED
  BY <1>2, <1>3 DEF T

\* A union is no more than its three parts together.
LEMMA UnionCount ==
  ASSUME NEW A, IsFiniteSet(A), NEW B, IsFiniteSet(B), NEW C, IsFiniteSet(C)
  PROVE  /\ IsFiniteSet(A \cup B \cup C)
         /\ Cardinality(A \cup B \cup C)
              <= Cardinality(A) + Cardinality(B) + Cardinality(C)
<1> DEFINE D == A \cup B
<1>1. IsFiniteSet(D) /\ Cardinality(D) = Cardinality(A) + Cardinality(B) - Cardinality(A \cap B)
  BY FS_Union
<1>2. IsFiniteSet(A \cap B) /\ IsFiniteSet(D \cap C)
  BY <1>1, FS_Intersection
<1>3. IsFiniteSet(D \cup C)
      /\ Cardinality(D \cup C) = Cardinality(D) + Cardinality(C) - Cardinality(D \cap C)
  BY <1>1, FS_Union
<1>4. /\ Cardinality(A) \in Nat /\ Cardinality(B) \in Nat /\ Cardinality(C) \in Nat
      /\ Cardinality(D) \in Nat /\ Cardinality(A \cap B) \in Nat
      /\ Cardinality(D \cap C) \in Nat
  BY <1>1, <1>2, FS_CardinalityType
<1> QED
  BY <1>1, <1>3, <1>4

(***************************************************************************)
(* Counters that wrap.                                                     *)
(***************************************************************************)

\* A remainder is a word of the counter.
LEMMA ModRange ==
  ASSUME NEW m \in Nat \ {0}, NEW a \in Int
  PROVE  a % m \in 0 .. m - 1
OBVIOUS

\* The quotient and the remainder of a division are determined by it.
LEMMA ModUnique ==
  ASSUME NEW m \in Nat \ {0}, NEW q \in Int, NEW r \in 0 .. m - 1
  PROVE  (m * q + r) % m = r
<1> DEFINE x == m * q + r
           p == x \div m
<1>0. x \in Int /\ p \in Int /\ x % m \in 0 .. m - 1
  OBVIOUS
<1>1. x = m * p + (x % m)
  BY <1>0
<1> QED
  BY <1>0, <1>1

\* Adding to a counter that wrapped is adding, then wrapping.
LEMMA ModAdd ==
  ASSUME NEW m \in Nat \ {0}, NEW a \in Int, NEW b \in Int
  PROVE  ((a % m) + b) % m = (a + b) % m
<1> DEFINE q == a \div m
           s == (a % m) + b
           p == s \div m
<1>0. q \in Int /\ a % m \in 0 .. m - 1 /\ a = m * q + (a % m)
  OBVIOUS
<1>1. s \in Int /\ p \in Int /\ s % m \in 0 .. m - 1 /\ s = m * p + (s % m)
  BY <1>0
<1>2. a + b = m * (q + p) + (s % m)
  BY <1>0, <1>1
<1>3. (m * (q + p) + (s % m)) % m = s % m
  <2>1. q + p \in Int /\ s % m \in 0 .. m - 1
    BY <1>0, <1>1
  <2> HIDE DEF q, s, p
  <2> QED
    BY <2>1, ModUnique
<1> QED
  BY <1>2, <1>3
=============================================================================
