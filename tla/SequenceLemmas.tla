--------------------------- MODULE SequenceLemmas ---------------------------
(***************************************************************************)
(* Facts about sequences that the proofs share.  A recursive function is   *)
(* known to the provers as a CHOOSE, so its existence and what it computes *)
(* are shown here from the least natural number at which they would fail.  *)
(***************************************************************************)
EXTENDS Naturals, Sequences, SequencesExt, SequenceTheorems, WellFoundedInduction, TLAPS

(***************************************************************************)
(* A non-empty set of naturals has a least element.                        *)
(***************************************************************************)
LEMMA LeastNat ==
    ASSUME NEW T, T \subseteq Nat, T # {}
    PROVE  \E x \in T : \A y \in T : x <= y
<1> DEFINE R == {ss \in Nat \X Nat : ss[1] < ss[2]}
<1>1. IsWellFoundedOn(R, Nat)
  BY NatLessThanWellFounded DEF OpToRel
<1>2. PICK x \in T : \A y \in T : ~(<<y, x>> \in R)
  <2> HIDE DEF R
  <2> QED
    BY <1>1, WFMin
<1>3. \A y \in T : ~(y < x)
  BY <1>2
<1>4. QED
  BY <1>3

(***************************************************************************)
(* Induction up to n.                                                      *)
(***************************************************************************)
LEMMA UpToInduction ==
    ASSUME NEW n \in Nat, NEW G, 0 \in G, \A i \in 1..n : i - 1 \in G => i \in G,
           NEW k \in 0..n
    PROVE  k \in G
<1> DEFINE Bad == {i \in 0..n : i \notin G}
<1> SUFFICES ASSUME k \notin G
             PROVE  FALSE
  OBVIOUS
<1>1. PICK i \in Bad : \A j \in Bad : i <= j
  <2>1. Bad \subseteq Nat /\ k \in Bad
    OBVIOUS
  <2> HIDE DEF Bad
  <2>2. QED
    BY <2>1, LeastNat
<1>2. i \in 1..n /\ i - 1 \in 0..n /\ i \notin G
  OBVIOUS
<1>3. i - 1 \in G
  BY <1>1, <1>2
<1>4. QED
  BY <1>2, <1>3

(***************************************************************************)
(* RemoveAt keeps the other elements and nothing else.                     *)
(***************************************************************************)
LEMMA RemoveAtProps ==
    ASSUME NEW S, NEW s \in Seq(S), NEW i \in 1..Len(s)
    PROVE  /\ RemoveAt(s, i) \in Seq(S)
           /\ Len(RemoveAt(s, i)) = Len(s) - 1
           /\ \A j \in 1..Len(RemoveAt(s, i)) : \E k \in 1..Len(s) : RemoveAt(s, i)[j] = s[k]
<1> DEFINE a == SubSeq(s, 1, i - 1)
           b == SubSeq(s, i + 1, Len(s))
<1>1. Len(s) \in Nat /\ i \in Int
  OBVIOUS
<1>2. a \in Seq(S) /\ Len(a) = i - 1 /\ \A j \in 1..(i - 1) : a[j] = s[j]
  <2>1. \A j \in 1..(i - 1) : s[j] \in S
    BY <1>1
  <2>2. /\ a \in Seq(S)
        /\ Len(a) = IF 1 <= i - 1 THEN (i - 1) - 1 + 1 ELSE 0
        /\ \A j \in 1..((i - 1) - 1 + 1) : a[j] = s[1 + j - 1]
    BY <1>1, <2>1, SubSeqProperties
  <2>3. QED
    BY <1>1, <2>2
<1>3. b \in Seq(S) /\ Len(b) = Len(s) - i /\ \A j \in 1..(Len(s) - i) : b[j] = s[i + j]
  <2>1. \A j \in (i + 1)..Len(s) : s[j] \in S
    BY <1>1
  <2>2. /\ b \in Seq(S)
        /\ Len(b) = IF i + 1 <= Len(s) THEN Len(s) - (i + 1) + 1 ELSE 0
        /\ \A j \in 1..(Len(s) - (i + 1) + 1) : b[j] = s[(i + 1) + j - 1]
    BY <1>1, <2>1, SubSeqProperties
  <2>3. QED
    BY <1>1, <2>2
<1>4. RemoveAt(s, i) = a \o b
  BY DEF RemoveAt
<1> HIDE DEF a, b
<1>5. /\ a \o b \in Seq(S)
      /\ Len(a \o b) = Len(s) - 1
      /\ \A j \in 1..(Len(s) - 1) : (a \o b)[j] = IF j <= i - 1 THEN a[j] ELSE b[j - (i - 1)]
  <2>1. /\ a \o b \in Seq(S)
        /\ Len(a \o b) = Len(a) + Len(b)
        /\ \A j \in 1..(Len(a) + Len(b)) :
             (a \o b)[j] = IF j <= Len(a) THEN a[j] ELSE b[j - Len(a)]
    BY <1>2, <1>3, ConcatProperties, Zenon
  <2>2. Len(a) = i - 1 /\ Len(a) + Len(b) = Len(s) - 1
    BY <1>1, <1>2, <1>3
  <2>3. QED
    BY <2>1, <2>2, Zenon
<1>6. \A j \in 1..(Len(s) - 1) : (a \o b)[j] = IF j <= i - 1 THEN s[j] ELSE s[j + 1]
  <2> SUFFICES ASSUME NEW j \in 1..(Len(s) - 1)
               PROVE  (a \o b)[j] = IF j <= i - 1 THEN s[j] ELSE s[j + 1]
    OBVIOUS
  <2>1. CASE j <= i - 1
    BY <1>1, <1>2, <1>5, <2>1
  <2>2. CASE ~(j <= i - 1)
    <3>1. j - (i - 1) \in 1..(Len(s) - i) /\ i + (j - (i - 1)) = j + 1
      BY <1>1, <2>2
    <3>2. QED
      BY <1>3, <1>5, <2>2, <3>1
  <2>3. QED
    BY <2>1, <2>2
<1>7. \A j \in 1..(Len(s) - 1) : \E k \in 1..Len(s) : (a \o b)[j] = s[k]
  <2> SUFFICES ASSUME NEW j \in 1..(Len(s) - 1)
               PROVE  \E k \in 1..Len(s) : (a \o b)[j] = s[k]
    OBVIOUS
  <2>1. j \in 1..Len(s) /\ j + 1 \in 1..Len(s)
    BY <1>1
  <2>2. QED
    BY <1>6, <2>1
<1>8. QED
  BY <1>4, <1>5, <1>7

(***************************************************************************)
(* Removing the only element leaves nothing.                               *)
(***************************************************************************)
LEMMA RemoveAtSingle ==
    ASSUME NEW S, NEW s \in Seq(S), Len(s) = 1, NEW i \in 1..Len(s)
    PROVE  RemoveAt(s, i) = <<>>
<1>1. RemoveAt(s, i) \in Seq(S) /\ Len(RemoveAt(s, i)) = 0
  BY RemoveAtProps
<1>2. QED
  BY <1>1, EmptySeq

(***************************************************************************)
(* Two sequences of one element make a pair.                               *)
(***************************************************************************)
LEMMA ConcatTwo ==
    ASSUME NEW S, NEW a \in S, NEW b \in S
    PROVE  <<a>> \o <<b>> = <<a, b>>
<1>1. <<a>> \in Seq(S) /\ <<b>> \in Seq(S) /\ Len(<<a>>) = 1 /\ Len(<<b>>) = 1
  OBVIOUS
<1>2. /\ <<a>> \o <<b>> \in Seq(S) /\ Len(<<a>> \o <<b>>) = 2
      /\ (<<a>> \o <<b>>)[1] = a /\ (<<a>> \o <<b>>)[2] = b
  BY <1>1, ConcatProperties
<1>3. <<a, b>> \in Seq(S) /\ Len(<<a, b>>) = 2
  OBVIOUS
<1>4. \A i \in 1..2 : i = 1 \/ i = 2
  OBVIOUS
<1>5. <<a, b>>[1] = a /\ <<a, b>>[2] = b
  OBVIOUS
<1>6. QED
  BY <1>2, <1>3, <1>4, <1>5, SeqEqual

\* Append to a sequence of one.
LEMMA AppendToOne ==
    ASSUME NEW S, NEW a \in S, NEW b \in S
    PROVE  Append(<<a>>, b) = <<a, b>>
<1>1. <<a>> \in Seq(S)
  OBVIOUS
<1>2. Append(<<a>>, b) = <<a>> \o <<b>>
  BY <1>1, AppendIsConcat
<1>3. QED
  BY <1>2, ConcatTwo

(***************************************************************************)
(* A sequence is a prefix of itself, with or without one more element.     *)
(***************************************************************************)
LEMMA PrefixOfAppend ==
    ASSUME NEW S, NEW s \in Seq(S)
    PROVE  /\ IsPrefix(s, s) /\ Len(s) <= Len(s) + 1
           /\ \A x \in S : IsPrefix(s, Append(s, x)) /\ Len(Append(s, x)) <= Len(s) + 1
<1>1. Len(s) \in Nat /\ IsPrefix(s, s)
  BY DEF IsPrefix
<1>2. ASSUME NEW x \in S
      PROVE  IsPrefix(s, Append(s, x)) /\ Len(Append(s, x)) = Len(s) + 1
  <2>1. /\ Append(s, x) \in Seq(S) /\ Len(Append(s, x)) = Len(s) + 1
        /\ \A i \in 1..Len(s) : Append(s, x)[i] = s[i]
    BY AppendProperties
  <2>2. /\ SubSeq(s, 1, Len(s)) = [i \in 1..Len(s) |-> s[i]]
        /\ SubSeq(Append(s, x), 1, Len(s)) = [i \in 1..Len(s) |-> Append(s, x)[i]]
    BY <1>1, <2>1
  <2>3. QED
    BY <1>1, <2>1, <2>2 DEF IsPrefix
<1>3. QED
  BY <1>1, <1>2

(***************************************************************************)
(* Concatenation under a name of its own: the provers replace \o by its    *)
(* elements wherever they see it, and keep Cat as it is.                   *)
(***************************************************************************)
Cat(a, b) == a \o b

\* Cat yields sequences; the empty one is neutral.
LEMMA CatSeq ==
    ASSUME NEW S, NEW a \in Seq(S), NEW b \in Seq(S)
    PROVE  Cat(a, b) \in Seq(S) /\ Cat(a, <<>>) = a /\ Cat(<<>>, b) = b
BY ConcatProperties, ConcatEmptySeq DEF Cat

\* Lengths add up.
LEMMA CatLength ==
    ASSUME NEW S, NEW a \in Seq(S), NEW b \in Seq(S)
    PROVE  Len(Cat(a, b)) = Len(a) + Len(b)
BY ConcatProperties DEF Cat

\* Cat is associative.
LEMMA CatAssociative ==
    ASSUME NEW S, NEW a \in Seq(S), NEW b \in Seq(S), NEW c \in Seq(S)
    PROVE  Cat(Cat(a, b), c) = Cat(a, Cat(b, c))
BY ConcatAssociative DEF Cat

(***************************************************************************)
(* Regrouping four sequences that are concatenated.                        *)
(***************************************************************************)
LEMMA Regroup ==
    ASSUME NEW S, NEW a \in Seq(S), NEW b \in Seq(S), NEW c \in Seq(S), NEW d \in Seq(S)
    PROVE  /\ Cat(Cat(a, b), Cat(c, d)) = Cat(Cat(a, Cat(b, c)), d)
           /\ Cat(Cat(a, b), Cat(c, d)) = Cat(Cat(Cat(a, b), c), d)
<1>1. Cat(a, b) \in Seq(S)
  BY CatSeq
<1>2. Cat(Cat(a, b), Cat(c, d)) = Cat(Cat(Cat(a, b), c), d)
  BY <1>1, CatAssociative
<1>3. Cat(Cat(a, b), c) = Cat(a, Cat(b, c))
  BY CatAssociative
<1>4. QED
  BY <1>2, <1>3

(***************************************************************************)
(* Only empty sequences are concatenated to the empty one.                 *)
(***************************************************************************)
LEMMA NothingInside ==
    ASSUME NEW S, NEW a \in Seq(S), NEW b \in Seq(S), Cat(a, b) = <<>>
    PROVE  a = <<>> /\ b = <<>>
<1>1. Len(a \o b) = Len(a) + Len(b) /\ Len(a \o b) = 0
  BY ConcatProperties DEF Cat
<1>2. Len(a) \in Nat /\ Len(b) \in Nat
  OBVIOUS
<1>3. Len(a) = 0 /\ Len(b) = 0
  BY <1>1, <1>2
<1>4. QED
  BY <1>3, EmptySeq

(***************************************************************************)
(* Moving the head of one sequence to the end of the one before it.        *)
(***************************************************************************)
LEMMA HandOver ==
    ASSUME NEW S, NEW a \in Seq(S), NEW b \in Seq(S), b # <<>>
    PROVE  Cat(Append(a, Head(b)), Tail(b)) = Cat(a, b)
<1> DEFINE x == Append(a, Head(b))
           t == Tail(b)
           h == Head(b)
<1>1. /\ h \in S /\ t \in Seq(S) /\ Len(b) \in Nat /\ Len(b) > 0 /\ Len(t) = Len(b) - 1
      /\ h = b[1] /\ \A i \in 1..Len(t) : t[i] = b[i + 1]
  BY HeadTailProperties
<1>2. /\ x \in Seq(S) /\ Len(x) = Len(a) + 1 /\ Len(a) \in Nat
      /\ \A i \in 1..Len(a) : x[i] = a[i]
      /\ x[Len(a) + 1] = h
  BY <1>1, AppendProperties
<1> HIDE DEF x, t, h
<1>3. /\ x \o t \in Seq(S) /\ Len(x \o t) = Len(x) + Len(t)
      /\ \A i \in 1..(Len(x) + Len(t)) : (x \o t)[i] = IF i <= Len(x) THEN x[i] ELSE t[i - Len(x)]
  BY <1>1, <1>2, ConcatProperties
<1>4. /\ a \o b \in Seq(S) /\ Len(a \o b) = Len(a) + Len(b)
      /\ \A i \in 1..(Len(a) + Len(b)) : (a \o b)[i] = IF i <= Len(a) THEN a[i] ELSE b[i - Len(a)]
  BY ConcatProperties
<1>5. Len(x) + Len(t) = Len(a) + Len(b)
  BY <1>1, <1>2
<1>6. \A i \in 1..(Len(a) + Len(b)) : (x \o t)[i] = (a \o b)[i]
  <2> TAKE i \in 1..(Len(a) + Len(b))
  <2>1. CASE i <= Len(a)
    BY <1>1, <1>2, <1>3, <1>4, <1>5, <2>1
  <2>2. CASE i = Len(a) + 1
    <3>1. i <= Len(x) /\ ~(i <= Len(a)) /\ i - Len(a) = 1 /\ x[i] = h
      BY <1>2, <2>2
    <3>2. QED
      BY <1>1, <1>3, <1>4, <1>5, <3>1
  <2>3. CASE ~(i <= Len(a)) /\ ~(i = Len(a) + 1)
    <3>1. /\ ~(i <= Len(x)) /\ ~(i <= Len(a)) /\ i - Len(x) \in 1..Len(t)
          /\ (i - Len(x)) + 1 = i - Len(a)
      BY <1>1, <1>2, <2>3
    <3>2. t[i - Len(x)] = b[i - Len(a)]
      BY <1>1, <3>1
    <3>3. QED
      BY <1>3, <1>4, <1>5, <3>1, <3>2
  <2>4. QED
    BY <2>1, <2>2, <2>3, Zenon
<1>7. x \o t = a \o b
  BY <1>3, <1>4, <1>5, <1>6, SeqEqual
<1>8. QED
  BY <1>7 DEF x, t, h, Cat

(***************************************************************************)
(* A concatenation starts with the head of its first part.                 *)
(***************************************************************************)
LEMMA HeadOfConcat ==
    ASSUME NEW S, NEW a \in Seq(S), NEW b \in Seq(S), a # <<>>
    PROVE  Head(Cat(a, b)) = Head(a) /\ Cat(a, b) # <<>>
<1>1. Len(a) \in Nat /\ Len(b) \in Nat /\ Len(a) # 0 /\ Head(a) = a[1]
  BY EmptySeq
<1>2. a \o b \in Seq(S) /\ Len(a \o b) = Len(a) + Len(b)
      /\ \A i \in 1..(Len(a) + Len(b)) : (a \o b)[i] = IF i <= Len(a) THEN a[i] ELSE b[i - Len(a)]
  BY ConcatProperties
<1>3. 1 \in 1..(Len(a) + Len(b)) /\ 1 <= Len(a)
  BY <1>1
<1>4. (a \o b)[1] = a[1]
  BY <1>2, <1>3
<1>5. a \o b # <<>>
  BY <1>1, <1>2, EmptySeq
<1>6. QED
  BY <1>1, <1>2, <1>4, <1>5 DEF Cat

-----------------------------------------------------------------------------
(* FlattenSeq. *)

\* f concatenates the first 1, 2, ..., n members of ss.
Flattens(f, ss, n) ==
    f = [i \in 1..n |-> IF i = 1 THEN ss[i] ELSE f[i - 1] \o ss[i]]

(***************************************************************************)
(* The function that FlattenSeq chooses exists.                            *)
(***************************************************************************)
LEMMA FlattensExists ==
    ASSUME NEW ss, NEW n \in Nat
    PROVE  \E f : Flattens(f, ss, n)
<1> DEFINE Bad == {k \in Nat : ~\E f : Flattens(f, ss, k)}
<1> SUFFICES ASSUME Bad # {}
             PROVE  FALSE
  OBVIOUS
<1>1. PICK k \in Bad : \A j \in Bad : k <= j
  <2>1. Bad \subseteq Nat
    OBVIOUS
  <2> HIDE DEF Bad
  <2>2. QED
    BY <2>1, LeastNat
<1>2. k # 0
  <2>1. [i \in 1..0 |-> IF i = 1 THEN ss[i] ELSE <<>>[i - 1] \o ss[i]] = <<>>
    OBVIOUS
  <2>2. Flattens(<<>>, ss, 0)
    BY <2>1 DEF Flattens
  <2>3. QED
    BY <2>2
<1>3. PICK f : Flattens(f, ss, k - 1)
  BY <1>1, <1>2
<1> DEFINE g == [i \in 1..k |-> IF i < k THEN f[i] ELSE IF k = 1 THEN ss[1] ELSE f[k - 1] \o ss[k]]
<1>4. \A i \in 1..k : g[i] = IF i = 1 THEN ss[i] ELSE g[i - 1] \o ss[i]
  <2> TAKE i \in 1..k
  <2>1. CASE i = k
    BY <1>2, <2>1
  <2>2. CASE i < k
    <3>1. i \in 1..(k - 1) /\ g[i] = f[i] /\ (i # 1 => g[i - 1] = f[i - 1])
      BY <2>2
    <3>2. f[i] = IF i = 1 THEN ss[i] ELSE f[i - 1] \o ss[i]
      BY <1>3, <3>1 DEF Flattens
    <3>3. QED
      BY <3>1, <3>2
  <2>3. QED
    BY <2>1, <2>2
<1>5. Flattens(g, ss, k)
  <2>1. g = [i \in 1..k |-> g[i]]
    OBVIOUS
  <2> HIDE DEF g
  <2>2. QED
    BY <1>4, <2>1 DEF Flattens
<1>6. QED
  BY <1>1, <1>5

(***************************************************************************)
(* What FlattenSeq is for a sequence that is not empty.                    *)
(***************************************************************************)
LEMMA FlattenIsLast ==
    ASSUME NEW S, NEW ss \in Seq(S), ss # <<>>
    PROVE  \E f : Flattens(f, ss, Len(ss)) /\ FlattenSeq(ss) = f[Len(ss)]
<1>1. Len(ss) \in Nat /\ Len(ss) # 0
  BY EmptySeq
<1> DEFINE F == CHOOSE f : f = [i \in 1..Len(ss) |-> IF i = 1 THEN ss[i] ELSE f[i - 1] \o ss[i]]
<1>2. FlattenSeq(ss) = F[Len(ss)]
  BY <1>1 DEF FlattenSeq
<1>3. \E f : f = [i \in 1..Len(ss) |-> IF i = 1 THEN ss[i] ELSE f[i - 1] \o ss[i]]
  <2>1. PICK f : Flattens(f, ss, Len(ss))
    BY <1>1, FlattensExists
  <2>2. f = [i \in 1..Len(ss) |-> IF i = 1 THEN ss[i] ELSE f[i - 1] \o ss[i]]
    BY <2>1, Zenon DEF Flattens
  <2>3. QED
    BY <2>2, Zenon
<1>4. F = [i \in 1..Len(ss) |-> IF i = 1 THEN ss[i] ELSE F[i - 1] \o ss[i]]
  BY <1>3, Zenon
<1>5. Flattens(F, ss, Len(ss))
  BY <1>4, Zenon DEF Flattens
<1>6. QED
  BY <1>2, <1>5

(***************************************************************************)
(* The value of such a function at a position, and its type.               *)
(***************************************************************************)
LEMMA FlattensStep ==
    ASSUME NEW f, NEW ss, NEW n \in Nat, Flattens(f, ss, n), NEW i \in 1..n
    PROVE  f[i] = IF i = 1 THEN ss[i] ELSE f[i - 1] \o ss[i]
BY DEF Flattens

\* A flattening of sequences over S is one.
LEMMA FlattensTyped ==
    ASSUME NEW S, NEW ss \in Seq(Seq(S)), NEW n \in 0..Len(ss),
           NEW f, Flattens(f, ss, n), NEW i \in 1..n
    PROVE  f[i] \in Seq(S)
<1> DEFINE Bad == {k \in 1..n : f[k] \notin Seq(S)}
<1> SUFFICES ASSUME Bad # {}
             PROVE  FALSE
  OBVIOUS
<1>1. PICK k \in Bad : \A j \in Bad : k <= j
  <2>1. Bad \subseteq Nat
    OBVIOUS
  <2> HIDE DEF Bad
  <2>2. QED
    BY <2>1, LeastNat
<1>2. ss[k] \in Seq(S) /\ n \in Nat
  OBVIOUS
<1>3. CASE k = 1
  BY <1>2, <1>3, FlattensStep
<1>4. CASE k # 1
  <2>1. k - 1 \in 1..n
    BY <1>4
  <2>2. f[k - 1] \in Seq(S)
    BY <1>1, <2>1
  <2>3. f[k - 1] \o ss[k] \in Seq(S)
    BY <1>2, <2>2, ConcatProperties
  <2>4. f[k] = f[k - 1] \o ss[k]
    BY <1>2, <1>4, FlattensStep
  <2>5. QED
    BY <2>3, <2>4
<1>5. QED
  BY <1>3, <1>4

(***************************************************************************)
(* Sequences that agree so far are flattened to the same so far.           *)
(***************************************************************************)
LEMMA FlattensAgree ==
    ASSUME NEW f, NEW ss, NEW n \in Nat, Flattens(f, ss, n),
           NEW g, NEW tt, NEW m \in Nat, Flattens(g, tt, m),
           n <= m, \A i \in 1..n : ss[i] = tt[i], NEW i \in 1..n
    PROVE  f[i] = g[i]
<1> DEFINE Bad == {k \in 1..n : f[k] # g[k]}
<1> SUFFICES ASSUME Bad # {}
             PROVE  FALSE
  OBVIOUS
<1>1. PICK k \in Bad : \A j \in Bad : k <= j
  <2>1. Bad \subseteq Nat
    OBVIOUS
  <2> HIDE DEF Bad
  <2>2. QED
    BY <2>1, LeastNat
<1>2. /\ f[k] = IF k = 1 THEN ss[k] ELSE f[k - 1] \o ss[k]
      /\ g[k] = IF k = 1 THEN tt[k] ELSE g[k - 1] \o tt[k]
  <2>1. k \in 1..n /\ k \in 1..m
    OBVIOUS
  <2>2. QED
    BY <2>1, FlattensStep
<1>3. k # 1 => f[k - 1] = g[k - 1]
  BY <1>1
<1>4. QED
  BY <1>2, <1>3

(***************************************************************************)
(* FlattenSeq of the empty sequence, and its type.                         *)
(***************************************************************************)
LEMMA FlattenEmpty == FlattenSeq(<<>>) = <<>>
BY EmptySeq DEF FlattenSeq

\* FlattenSeq of sequences over S is one.
LEMMA FlattenTyped ==
    ASSUME NEW S, NEW ss \in Seq(Seq(S))
    PROVE  FlattenSeq(ss) \in Seq(S)
<1>1. CASE ss = <<>>
  <2>1. FlattenSeq(ss) = <<>>
    BY <1>1, FlattenEmpty
  <2>2. QED
    BY <2>1, EmptySeq, Zenon
<1>2. CASE ss # <<>>
  <2>1. PICK f : Flattens(f, ss, Len(ss)) /\ FlattenSeq(ss) = f[Len(ss)]
    BY <1>2, FlattenIsLast
  <2>2. Len(ss) \in 1..Len(ss) /\ Len(ss) \in 0..Len(ss)
    BY <1>2
  <2>3. QED
    BY <2>1, <2>2, FlattensTyped
<1>3. QED
  BY <1>1, <1>2

(***************************************************************************)
(* Flattening after a sequence was added at the end.                       *)
(***************************************************************************)
LEMMA FlattenAppend ==
    ASSUME NEW S, NEW ss \in Seq(Seq(S)), NEW s \in Seq(S)
    PROVE  FlattenSeq(Append(ss, s)) = Cat(FlattenSeq(ss), s)
<1> DEFINE tt == Append(ss, s)
<1>1. /\ tt \in Seq(Seq(S)) /\ tt # <<>> /\ Len(tt) = Len(ss) + 1
      /\ \A i \in 1..Len(ss) : tt[i] = ss[i]
      /\ tt[Len(ss) + 1] = s
  BY AppendProperties
<1> HIDE DEF tt
<1>2. PICK g : Flattens(g, tt, Len(tt)) /\ FlattenSeq(tt) = g[Len(tt)]
  BY <1>1, FlattenIsLast
<1>3. Len(ss) \in Nat /\ Len(tt) \in Nat /\ Len(tt) \in 1..Len(tt)
  BY <1>1
<1>4. FlattenSeq(tt) = IF Len(tt) = 1 THEN tt[Len(tt)] ELSE g[Len(tt) - 1] \o tt[Len(tt)]
  <2>1. g[Len(tt)] = IF Len(tt) = 1 THEN tt[Len(tt)] ELSE g[Len(tt) - 1] \o tt[Len(tt)]
    BY <1>2, <1>3, FlattensStep
  <2>2. QED
    BY <1>2, <2>1
<1>5. CASE ss = <<>>
  <2>1. FlattenSeq(tt) = s
    BY <1>1, <1>4, <1>5
  <2>2. QED
    BY <1>5, <2>1, FlattenEmpty, ConcatEmptySeq DEF tt, Cat
<1>6. CASE ss # <<>>
  <2>1. PICK f : Flattens(f, ss, Len(ss)) /\ FlattenSeq(ss) = f[Len(ss)]
    BY <1>6, FlattenIsLast
  <2>2. Len(ss) \in 1..Len(ss) /\ Len(ss) <= Len(tt) /\ Len(tt) \in Nat /\ Len(tt) # 1
    BY <1>1, <1>3, <1>6
  <2>3. f[Len(ss)] = g[Len(ss)]
    <3>1. \A i \in 1..Len(ss) : ss[i] = tt[i]
      BY <1>1
    <3>2. \A i \in 1..Len(ss) : f[i] = g[i]
      <4> DEFINE m == Len(ss)
      <4>1. m \in Nat /\ Flattens(f, ss, m) /\ m <= Len(tt) /\ \A i \in 1..m : ss[i] = tt[i]
        BY <1>3, <2>1, <2>2, <3>1
      <4>2. Len(tt) \in Nat /\ Flattens(g, tt, Len(tt))
        BY <1>2, <1>3
      <4> HIDE DEF m
      <4>3. \A i \in 1..m : f[i] = g[i]
        BY <4>1, <4>2, FlattensAgree
      <4>4. QED
        BY <4>3 DEF m
    <3>3. QED
      BY <2>2, <3>2
  <2>4. FlattenSeq(tt) = g[Len(ss)] \o s
    <3>1. Len(tt) - 1 = Len(ss) /\ tt[Len(tt)] = s
      BY <1>1, <1>3
    <3>2. QED
      BY <1>4, <2>2, <3>1, Zenon
  <2>5. QED
    BY <2>1, <2>3, <2>4 DEF tt, Cat
<1>7. QED
  BY <1>5, <1>6

(***************************************************************************)
(* Flattening starts with the first sequence.                              *)
(***************************************************************************)
LEMMA FlattenHeadTail ==
    ASSUME NEW S, NEW ss \in Seq(Seq(S)), ss # <<>>
    PROVE  FlattenSeq(ss) = Cat(Head(ss), FlattenSeq(Tail(ss)))
<1> DEFINE tt == Tail(ss)
           n == Len(ss)
<1>1. /\ tt \in Seq(Seq(S)) /\ n \in Nat /\ n > 0 /\ Len(tt) = n - 1
      /\ \A i \in 1..(n - 1) : tt[i] = ss[i + 1]
      /\ Head(ss) = ss[1] /\ ss[1] \in Seq(S)
      /\ \A i \in 1..n : ss[i] \in Seq(S)
  BY HeadTailProperties
<1>2. PICK f : Flattens(f, ss, n) /\ FlattenSeq(ss) = f[n]
  BY FlattenIsLast
<1> HIDE DEF tt, n
<1>3. CASE n = 1
  <2>1. tt = <<>>
    BY <1>1, <1>3, EmptySeq
  <2>2. FlattenSeq(ss) = ss[1]
    BY <1>2, <1>3, FlattensStep
  <2>3. QED
    BY <1>1, <2>1, <2>2, FlattenEmpty, ConcatEmptySeq DEF tt, Cat
<1>4. CASE n # 1
  <2>1. tt # <<>> /\ n - 1 \in Nat /\ n - 1 \in 1..(n - 1) /\ n \in 2..n
    BY <1>1, <1>4
  <2>2. PICK g : Flattens(g, tt, n - 1) /\ FlattenSeq(tt) = g[n - 1]
    BY <1>1, <2>1, FlattenIsLast
  <2>3. \A i \in 2..n : f[i] = ss[1] \o g[i - 1]
    <3> DEFINE Bad == {k \in 2..n : f[k] # ss[1] \o g[k - 1]}
    <3> SUFFICES ASSUME Bad # {}
                 PROVE  FALSE
      OBVIOUS
    <3>1. PICK k \in Bad : \A j \in Bad : k <= j
      <4>0. n \in Nat
        BY <1>1
      <4>1. Bad \subseteq Nat
        <5>1. 2..n \subseteq Nat
          BY <4>0
        <5>2. QED
          BY <5>1
      <4> HIDE DEF Bad
      <4>2. QED
        BY <4>1, LeastNat
    <3>2. /\ k \in 2..n /\ f[k] # ss[1] \o g[k - 1]
          /\ \A j \in 2..n : j < k => f[j] = ss[1] \o g[j - 1]
      <4>1. k \in 2..n /\ f[k] # ss[1] \o g[k - 1]
        OBVIOUS
      <4>2. \A j \in 2..n : j < k => j \notin Bad
        <5>1. k \in Nat /\ \A j \in 2..n : j \in Nat
          BY <1>1, <4>1
        <5> HIDE DEF Bad
        <5>2. QED
          BY <3>1, <5>1
      <4>3. QED
        BY <4>1, <4>2
    <3> HIDE DEF Bad
    <3>3. /\ k \in 1..n /\ k # 1 /\ k \in Nat /\ k - 1 \in 1..n /\ k - 1 \in 1..(n - 1)
          /\ (k - 1) + 1 = k /\ (k - 1) - 1 = k - 2
      BY <1>1, <3>2
    <3>4. f[k] = f[k - 1] \o ss[k]
      <4>1. f[k] = IF k = 1 THEN ss[k] ELSE f[k - 1] \o ss[k]
        <5>1. n \in Nat /\ Flattens(f, ss, n) /\ k \in 1..n
          BY <1>1, <1>2, <3>3
        <5>2. QED
          BY <5>1, FlattensStep
      <4>2. QED
        BY <3>3, <4>1
    <3>5. g[k - 1] = IF k - 1 = 1 THEN tt[k - 1] ELSE g[k - 2] \o tt[k - 1]
      <4>1. n - 1 \in Nat
        BY <2>1
      <4>2. g[k - 1] = IF k - 1 = 1 THEN tt[k - 1] ELSE g[(k - 1) - 1] \o tt[k - 1]
        BY <2>2, <3>3, <4>1, FlattensStep
      <4>3. QED
        BY <3>3, <4>2
    <3>6. tt[k - 1] = ss[k] /\ ss[k] \in Seq(S)
      BY <1>1, <3>3
    <3>7. CASE k = 2
      <4>1. f[1] = ss[1]
        <5>1. 1 \in 1..n
          BY <1>1
        <5>2. QED
          BY <1>1, <1>2, <5>1, FlattensStep
      <4>2. k - 1 = 1
        BY <3>7
      <4>3. QED
        BY <3>2, <3>4, <3>5, <3>6, <4>1, <4>2, Zenon
    <3>8. CASE k # 2
      <4>1. k - 1 \in 2..n /\ k - 2 \in 1..(n - 1) /\ k - 1 < k /\ k - 1 # 1
        BY <1>1, <3>2, <3>8
      <4>2. f[k - 1] = ss[1] \o g[k - 2]
        BY <3>2, <3>3, <4>1
      <4>3. g[k - 2] \in Seq(S)
        <5>1. n - 1 \in 0..Len(tt)
          BY <1>1
        <5>2. QED
          BY <1>1, <2>2, <4>1, <5>1, FlattensTyped
      <4>4. (ss[1] \o g[k - 2]) \o ss[k] = ss[1] \o (g[k - 2] \o ss[k])
        <5>1. ss[1] \in Seq(S) /\ ss[k] \in Seq(S)
          BY <1>1, <3>6
        <5>2. QED
          <6>1. Cat(Cat(ss[1], g[k - 2]), ss[k]) = Cat(ss[1], Cat(g[k - 2], ss[k]))
            BY <4>3, <5>1, CatAssociative
          <6>2. QED
            BY <6>1, Zenon DEF Cat
      <4>5. g[k - 1] = g[k - 2] \o ss[k]
        BY <3>5, <3>6, <4>1
      <4>6. QED
        BY <3>2, <3>4, <4>2, <4>4, <4>5
    <3>9. QED
      BY <3>7, <3>8
  <2>4. f[n] = ss[1] \o g[n - 1]
    BY <2>1, <2>3
  <2>5. QED
    BY <1>1, <1>2, <2>2, <2>4 DEF tt, Cat
<1>5. QED
  BY <1>3, <1>4

(***************************************************************************)
(* Induction over sequences: a set of them that has the empty one and is   *)
(* closed under Append has them all.                                       *)
(***************************************************************************)
LEMMA SeqInduction ==
    ASSUME NEW S, NEW G, <<>> \in G,
           \A s \in Seq(S), x \in S : s \in G => Append(s, x) \in G,
           NEW t \in Seq(S)
    PROVE  t \in G
<1> DEFINE Bad == {k \in Nat : \E s \in Seq(S) : Len(s) = k /\ s \notin G}
<1> SUFFICES ASSUME t \notin G
             PROVE  FALSE
  OBVIOUS
<1>1. PICK k \in Bad : \A j \in Bad : k <= j
  <2>1. Bad \subseteq Nat /\ Len(t) \in Bad
    OBVIOUS
  <2> HIDE DEF Bad
  <2>2. QED
    BY <2>1, LeastNat
<1>2. PICK s \in Seq(S) : Len(s) = k /\ s \notin G
  OBVIOUS
<1>3. PICK r \in Seq(S), x \in S : s = Append(r, x)
  BY <1>2, SequenceEmptyOrAppend
<1>4. Len(r) \in Nat /\ Len(r) < k
  BY <1>2, <1>3, AppendProperties
<1>5. r \notin G
  BY <1>2, <1>3
<1>6. Len(r) \in Bad /\ k \in Nat
  BY <1>4, <1>5
<1>7. QED
  <2> HIDE DEF Bad
  <2>1. QED
    BY <1>1, <1>4, <1>6

-----------------------------------------------------------------------------
(* FlattenSeq of concatenations and of sequences with few members. *)

\* One sequence.
LEMMA FlattenOne ==
    ASSUME NEW S, NEW s \in Seq(S)
    PROVE  FlattenSeq(<<s>>) = s
<1>1. Append(<<>>, s) = <<s>> /\ <<>> \in Seq(Seq(S)) /\ <<>> \in Seq(S)
  OBVIOUS
<1>2. FlattenSeq(<<s>>) = Cat(FlattenSeq(<<>>), s)
  BY <1>1, FlattenAppend
<1>3. QED
  BY <1>1, <1>2, FlattenEmpty, CatSeq

\* Appending to the second of two sequences.
LEMMA CatAppend ==
    ASSUME NEW S, NEW a \in Seq(S), NEW b \in Seq(S), NEW x \in S
    PROVE  Cat(a, Append(b, x)) = Append(Cat(a, b), x)
<1>1. Append(b, x) = Cat(b, <<x>>) /\ <<x>> \in Seq(S) /\ Cat(a, b) \in Seq(S)
  BY CatSeq, AppendIsConcat DEF Cat
<1>2. Append(Cat(a, b), x) = Cat(Cat(a, b), <<x>>)
  BY <1>1, AppendIsConcat DEF Cat
<1>3. PICK t \in Seq(S) : t = <<x>>
  BY <1>1
<1>4. Cat(Cat(a, b), t) = Cat(a, Cat(b, t))
  BY CatAssociative
<1>5. QED
  BY <1>1, <1>2, <1>3, <1>4

\* Flattening distributes over concatenation.
LEMMA FlattenConcat ==
    ASSUME NEW S, NEW aa \in Seq(Seq(S)), NEW bb \in Seq(Seq(S))
    PROVE  FlattenSeq(Cat(aa, bb)) = Cat(FlattenSeq(aa), FlattenSeq(bb))
<1> DEFINE G == {ss \in Seq(Seq(S)) : FlattenSeq(Cat(aa, ss)) = Cat(FlattenSeq(aa), FlattenSeq(ss))}
<1>1. <<>> \in G
  <2>0. <<>> \in Seq(Seq(S)) /\ <<>> \in Seq(S)
    OBVIOUS
  <2>1. Cat(aa, <<>>) = aa /\ FlattenSeq(aa) \in Seq(S)
    <3>1. Cat(aa, <<>>) = aa
      BY <2>0, CatSeq
    <3>2. QED
      BY <3>1, FlattenTyped
  <2>2. Cat(FlattenSeq(aa), <<>>) = FlattenSeq(aa)
    BY <2>0, <2>1, CatSeq
  <2>3. QED
    BY <2>0, <2>1, <2>2, FlattenEmpty
<1>2. ASSUME NEW ss \in Seq(Seq(S)), NEW x \in Seq(S), ss \in G
      PROVE  Append(ss, x) \in G
  <2>1. Cat(aa, Append(ss, x)) = Append(Cat(aa, ss), x)
    BY CatAppend
  <2>2. FlattenSeq(Append(Cat(aa, ss), x)) = Cat(FlattenSeq(Cat(aa, ss)), x)
    BY CatSeq, FlattenAppend
  <2>3. FlattenSeq(Append(ss, x)) = Cat(FlattenSeq(ss), x)
    BY FlattenAppend
  <2>4. FlattenSeq(Cat(aa, ss)) = Cat(FlattenSeq(aa), FlattenSeq(ss))
    BY <1>2
  <2>5. Cat(Cat(FlattenSeq(aa), FlattenSeq(ss)), x) = Cat(FlattenSeq(aa), Cat(FlattenSeq(ss), x))
    BY CatAssociative, FlattenTyped
  <2>6. FlattenSeq(Cat(aa, Append(ss, x))) = Cat(FlattenSeq(aa), FlattenSeq(Append(ss, x)))
    BY <2>1, <2>2, <2>3, <2>4, <2>5
  <2>7. Append(ss, x) \in Seq(Seq(S))
    OBVIOUS
  <2>8. QED
    BY <2>6, <2>7
<1>3. bb \in G
  <2> HIDE DEF G
  <2>1. QED
    BY <1>1, <1>2, SeqInduction
<1>4. QED
  BY <1>3

\* Nothing but empty sequences.
LEMMA FlattenNone ==
    ASSUME NEW S, NEW ss \in Seq(Seq(S)), \A i \in 1..Len(ss) : ss[i] = <<>>
    PROVE  FlattenSeq(ss) = <<>>
<1> DEFINE G == {tt \in Seq(Seq(S)) : (\A i \in 1..Len(tt) : tt[i] = <<>>) => FlattenSeq(tt) = <<>>}
<1>1. <<>> \in G
  BY FlattenEmpty
<1>2. ASSUME NEW tt \in Seq(Seq(S)), NEW x \in Seq(S), tt \in G
      PROVE  Append(tt, x) \in G
  <2> SUFFICES ASSUME \A i \in 1..Len(Append(tt, x)) : Append(tt, x)[i] = <<>>
               PROVE  FlattenSeq(Append(tt, x)) = <<>>
    BY AppendProperties
  <2>1. x = <<>> /\ \A i \in 1..Len(tt) : tt[i] = <<>>
    <3>1. /\ Len(Append(tt, x)) = Len(tt) + 1 /\ Append(tt, x)[Len(tt) + 1] = x
          /\ \A i \in 1..Len(tt) : Append(tt, x)[i] = tt[i]
          /\ Len(tt) \in Nat
      BY AppendProperties
    <3>2. QED
      BY <3>1
  <2>2. FlattenSeq(Append(tt, x)) = Cat(FlattenSeq(tt), x)
    BY FlattenAppend
  <2>3. FlattenSeq(tt) = <<>>
    BY <1>2, <2>1
  <2>4. <<>> \in Seq(S)
    OBVIOUS
  <2>5. QED
    BY <2>1, <2>2, <2>3, <2>4, CatSeq
<1>3. ss \in G
  <2> HIDE DEF G
  <2>1. QED
    BY <1>1, <1>2, SeqInduction
<1>4. QED
  BY <1>3

\* A sequence around one of its elements.
LEMMA SplitAt ==
    ASSUME NEW S, NEW s \in Seq(S), NEW k \in 1..Len(s)
    PROVE  /\ SubSeq(s, 1, k - 1) \in Seq(S) /\ SubSeq(s, k + 1, Len(s)) \in Seq(S)
           /\ Len(SubSeq(s, 1, k - 1)) = k - 1
           /\ \A i \in 1..(k - 1) : SubSeq(s, 1, k - 1)[i] = s[i]
           /\ Len(SubSeq(s, k + 1, Len(s))) = Len(s) - k
           /\ \A i \in 1..(Len(s) - k) : SubSeq(s, k + 1, Len(s))[i] = s[k + i]
           /\ s = Cat(Cat(SubSeq(s, 1, k - 1), <<s[k]>>), SubSeq(s, k + 1, Len(s)))
<1> DEFINE n == Len(s)
<1>1. n \in Nat /\ k \in Int /\ k - 1 \in Int /\ k + 1 \in Int
  OBVIOUS
<1>2. /\ SubSeq(s, 1, k - 1) \in Seq(S) /\ Len(SubSeq(s, 1, k - 1)) = k - 1
      /\ \A i \in 1..(k - 1) : SubSeq(s, 1, k - 1)[i] = s[i]
  BY <1>1
<1>3. /\ SubSeq(s, k + 1, n) \in Seq(S) /\ Len(SubSeq(s, k + 1, n)) = n - k
      /\ \A i \in 1..(n - k) : SubSeq(s, k + 1, n)[i] = s[k + i]
  BY <1>1
<1>4. SubSeq(s, 1, k) = SubSeq(s, 1, k - 1) \o <<s[k]>>
  BY <1>1, SubSeqRecursiveSecond
<1>5. s = SubSeq(s, 1, k) \o SubSeq(s, k + 1, n)
  <2>1. SubSeq(s, 1, k) \o SubSeq(s, k + 1, n) = SubSeq(s, 1, n)
    BY <1>1, ConcatAdjacentSubSeq
  <2>2. QED
    BY <2>1, SubSeqFull
<1>6. QED
  <2>1. s = Cat(Cat(SubSeq(s, 1, k - 1), <<s[k]>>), SubSeq(s, k + 1, n))
    BY <1>4, <1>5, Zenon DEF Cat
  <2>2. QED
    BY <1>2, <1>3, <2>1

\* Flattening around one member.
LEMMA FlattenSplit ==
    ASSUME NEW S, NEW ss \in Seq(Seq(S)), NEW k \in 1..Len(ss)
    PROVE  FlattenSeq(ss) = Cat(Cat(FlattenSeq(SubSeq(ss, 1, k - 1)), ss[k]),
                                FlattenSeq(SubSeq(ss, k + 1, Len(ss))))
<1> DEFINE a == SubSeq(ss, 1, k - 1)
           b == SubSeq(ss, k + 1, Len(ss))
<1>1. a \in Seq(Seq(S)) /\ b \in Seq(Seq(S)) /\ ss = Cat(Cat(a, <<ss[k]>>), b)
  BY SplitAt
<1>2. ss[k] \in Seq(S) /\ <<ss[k]>> \in Seq(Seq(S))
  OBVIOUS
<1> HIDE DEF a, b
<1>3. Cat(a, <<ss[k]>>) \in Seq(Seq(S))
  BY <1>1, <1>2, CatSeq
<1>4. FlattenSeq(ss) = Cat(FlattenSeq(Cat(a, <<ss[k]>>)), FlattenSeq(b))
  BY <1>1, <1>3, FlattenConcat
<1>5. FlattenSeq(Cat(a, <<ss[k]>>)) = Cat(FlattenSeq(a), FlattenSeq(<<ss[k]>>))
  BY <1>1, <1>2, FlattenConcat
<1>6. FlattenSeq(<<ss[k]>>) = ss[k]
  BY <1>2, FlattenOne
<1>7. QED
  BY <1>4, <1>5, <1>6 DEF a, b

\* Only one member is not empty.
LEMMA FlattenOnly ==
    ASSUME NEW S, NEW ss \in Seq(Seq(S)), NEW k \in 1..Len(ss),
           \A i \in 1..Len(ss) : i # k => ss[i] = <<>>
    PROVE  FlattenSeq(ss) = ss[k]
<1> DEFINE a == SubSeq(ss, 1, k - 1)
           b == SubSeq(ss, k + 1, Len(ss))
<1>1. /\ a \in Seq(Seq(S)) /\ b \in Seq(Seq(S))
      /\ Len(a) = k - 1 /\ \A i \in 1..(k - 1) : a[i] = ss[i]
      /\ Len(b) = Len(ss) - k /\ \A i \in 1..(Len(ss) - k) : b[i] = ss[k + i]
  BY SplitAt
<1>2. FlattenSeq(ss) = Cat(Cat(FlattenSeq(a), ss[k]), FlattenSeq(b))
  BY FlattenSplit
<1> HIDE DEF a, b
<1>3. \A i \in 1..Len(a) : a[i] = <<>>
  <2> TAKE i \in 1..Len(a)
  <2>1. i \in 1..Len(ss) /\ i # k /\ i \in 1..(k - 1)
    BY <1>1
  <2>2. QED
    BY <1>1, <2>1
<1>4. \A i \in 1..Len(b) : b[i] = <<>>
  <2> TAKE i \in 1..Len(b)
  <2>1. k + i \in 1..Len(ss) /\ k + i # k /\ i \in 1..(Len(ss) - k)
    BY <1>1
  <2>2. QED
    BY <1>1, <2>1
<1>5. FlattenSeq(a) = <<>> /\ FlattenSeq(b) = <<>>
  BY <1>1, <1>3, <1>4, FlattenNone
<1>6. ss[k] \in Seq(S)
  OBVIOUS
<1>7. QED
  BY <1>2, <1>5, <1>6, CatSeq

\* Two members are both in the flattening.
LEMMA FlattenTwo ==
    ASSUME NEW S, NEW ss \in Seq(Seq(S)), NEW i \in 1..Len(ss), NEW k \in 1..Len(ss), i < k
    PROVE  Len(ss[i]) + Len(ss[k]) <= Len(FlattenSeq(ss))
<1> DEFINE a == SubSeq(ss, 1, k - 1)
           b == SubSeq(ss, k + 1, Len(ss))
<1>1. /\ a \in Seq(Seq(S)) /\ b \in Seq(Seq(S))
      /\ Len(a) = k - 1 /\ \A j \in 1..(k - 1) : a[j] = ss[j]
  BY SplitAt
<1>2. FlattenSeq(ss) = Cat(Cat(FlattenSeq(a), ss[k]), FlattenSeq(b))
  BY FlattenSplit
<1> HIDE DEF a, b
<1>3. ss[k] \in Seq(S) /\ FlattenSeq(a) \in Seq(S) /\ FlattenSeq(b) \in Seq(S)
  BY <1>1, FlattenTyped
<1>4. Len(FlattenSeq(ss)) = Len(FlattenSeq(a)) + Len(ss[k]) + Len(FlattenSeq(b))
  <2>1. Cat(FlattenSeq(a), ss[k]) \in Seq(S)
        /\ Len(Cat(FlattenSeq(a), ss[k])) = Len(FlattenSeq(a)) + Len(ss[k])
    BY <1>3, ConcatProperties DEF Cat
  <2>2. Len(Cat(Cat(FlattenSeq(a), ss[k]), FlattenSeq(b)))
          = Len(Cat(FlattenSeq(a), ss[k])) + Len(FlattenSeq(b))
    BY <1>3, <2>1, ConcatProperties DEF Cat
  <2>3. QED
    BY <1>2, <2>1, <2>2
<1>5. Len(ss[i]) <= Len(FlattenSeq(a))
  <2>1. i \in 1..Len(a) /\ a[i] = ss[i]
    BY <1>1
  <2> DEFINE c == SubSeq(a, 1, i - 1)
             d == SubSeq(a, i + 1, Len(a))
  <2>2. FlattenSeq(a) = Cat(Cat(FlattenSeq(c), a[i]), FlattenSeq(d))
    BY <1>1, <2>1, FlattenSplit
  <2>3. c \in Seq(Seq(S)) /\ d \in Seq(Seq(S))
    BY <1>1, <2>1, SplitAt
  <2> HIDE DEF c, d
  <2>4. FlattenSeq(c) \in Seq(S) /\ FlattenSeq(d) \in Seq(S) /\ a[i] \in Seq(S)
    BY <1>1, <2>1, <2>3, FlattenTyped
  <2>5. Cat(FlattenSeq(c), a[i]) \in Seq(S)
        /\ Len(Cat(FlattenSeq(c), a[i])) = Len(FlattenSeq(c)) + Len(a[i])
    BY <2>4, ConcatProperties DEF Cat
  <2>6. Len(FlattenSeq(a)) = Len(FlattenSeq(c)) + Len(a[i]) + Len(FlattenSeq(d))
    BY <2>2, <2>4, <2>5, ConcatProperties DEF Cat
  <2>7. Len(FlattenSeq(c)) \in Nat /\ Len(FlattenSeq(d)) \in Nat /\ Len(a[i]) \in Nat
    BY <2>4
  <2>8. QED
    BY <2>1, <2>6, <2>7
<1>6. PICK na \in Nat, nb \in Nat, nk \in Nat, ni \in Nat :
        /\ Len(FlattenSeq(a)) = na /\ Len(FlattenSeq(b)) = nb
        /\ Len(ss[k]) = nk /\ Len(ss[i]) = ni
  BY <1>3
<1>7. ni + nk <= na + nk + nb
  BY <1>5, <1>6
<1>8. QED
  BY <1>4, <1>6, <1>7

\* A flattening of at most one element comes from at most one member.
LEMMA FlattenAtMostOne ==
    ASSUME NEW S, NEW ss \in Seq(Seq(S)), Len(FlattenSeq(ss)) <= 1
    PROVE  \/ FlattenSeq(ss) = <<>> /\ \A i \in 1..Len(ss) : ss[i] = <<>>
           \/ \E k \in 1..Len(ss) : /\ FlattenSeq(ss) = ss[k] /\ ss[k] # <<>>
                                    /\ \A i \in 1..Len(ss) : i # k => ss[i] = <<>>
<1>1. CASE \A i \in 1..Len(ss) : ss[i] = <<>>
  BY <1>1, FlattenNone
<1>2. CASE ~\A i \in 1..Len(ss) : ss[i] = <<>>
  <2>1. PICK k \in 1..Len(ss) : ss[k] # <<>>
    BY <1>2
  <2>2. ASSUME NEW i \in 1..Len(ss), i # k
        PROVE  ss[i] = <<>>
    <3>1. ss[i] \in Seq(S) /\ ss[k] \in Seq(S) /\ FlattenSeq(ss) \in Seq(S)
      BY FlattenTyped
    <3>2. PICK ni \in Nat, nk \in Nat, n \in Nat :
            Len(ss[i]) = ni /\ Len(ss[k]) = nk /\ Len(FlattenSeq(ss)) = n
      BY <3>1
    <3>3. nk # 0
      BY <2>1, <3>1, <3>2, EmptySeq
    <3>4. ni + nk <= n
      <4>1. CASE i < k
        BY <3>2, <4>1, FlattenTwo
      <4>2. CASE k < i
        <5>1. nk + ni <= n
          BY <3>2, <4>2, FlattenTwo
        <5>2. QED
          BY <5>1
      <4>3. QED
        BY <2>2, <4>1, <4>2
    <3>5. ni = 0
      BY <3>2, <3>3, <3>4
    <3>6. QED
      BY <3>1, <3>2, <3>5, EmptySeq
  <2>3. FlattenSeq(ss) = ss[k]
    BY <2>2, FlattenOnly
  <2>4. QED
    BY <2>1, <2>2, <2>3
<1>3. QED
  BY <1>1, <1>2

-----------------------------------------------------------------------------
(* What a function makes of each element, flattened. *)

\* f makes a sequence over T of each element of S.
Maps(f, S, T) == f \in [S -> Seq(T)]

Each(f, s) == [i \in DOMAIN s |-> f[s[i]]]

Through(f, s) == FlattenSeq(Each(f, s))

\* What it makes of each element.
LEMMA EachMapped ==
    ASSUME NEW S, NEW T, NEW f, Maps(f, S, T), NEW s \in Seq(S)
    PROVE  /\ Each(f, s) \in Seq(Seq(T))
           /\ Len(Each(f, s)) = Len(s)
           /\ \A j \in 1..Len(s) : Each(f, s)[j] = f[s[j]]
<1>1. DOMAIN s = 1..Len(s) /\ Len(s) \in Nat
  OBVIOUS
<1>2. \A i \in 1..Len(s) : f[s[i]] \in Seq(T)
  BY DEF Maps
<1>3. QED
  BY <1>1, <1>2 DEF Each

\* Through yields sequences.
LEMMA ThroughTyped ==
    ASSUME NEW S, NEW T, NEW f, Maps(f, S, T), NEW s \in Seq(S)
    PROVE  Through(f, s) \in Seq(T)
<1> DEFINE m == Each(f, s)
<1>1. m \in Seq(Seq(T))
  BY EachMapped
<1> HIDE DEF m
<1>2. FlattenSeq(m) \in Seq(T)
  BY <1>1, FlattenTyped
<1>3. QED
  BY <1>2 DEF m, Through

\* Nothing comes of nothing.
LEMMA ThroughEmpty ==
    ASSUME NEW f
    PROVE  Through(f, <<>>) = <<>>
<1>1. Each(f, <<>>) = <<>>
  BY DEF Each
<1>2. QED
  BY <1>1, FlattenEmpty DEF Through

\* One element.
LEMMA ThroughOne ==
    ASSUME NEW S, NEW T, NEW f, Maps(f, S, T), NEW x \in S
    PROVE  Through(f, <<x>>) = f[x]
<1>1. Each(f, <<x>>) = <<f[x]>>
  BY DEF Each
<1>2. PICK y \in Seq(T) : y = f[x]
  BY DEF Maps
<1>3. FlattenSeq(<<y>>) = y
  BY FlattenOne
<1>4. QED
  BY <1>1, <1>2, <1>3 DEF Through

\* Each distributes over concatenation.
LEMMA EachCat ==
    ASSUME NEW S, NEW T, NEW f, Maps(f, S, T), NEW a \in Seq(S), NEW b \in Seq(S)
    PROVE  Each(f, Cat(a, b)) = Cat(Each(f, a), Each(f, b))
<1>1. PICK c \in Seq(S) : c = Cat(a, b)
  BY CatSeq
<1>2. /\ Len(c) = Len(a) + Len(b)
      /\ \A i \in 1..(Len(a) + Len(b)) : c[i] = IF i <= Len(a) THEN a[i] ELSE b[i - Len(a)]
  BY <1>1, ConcatProperties DEF Cat
<1>3. PICK fa \in Seq(Seq(T)), fb \in Seq(Seq(T)), fc \in Seq(Seq(T)) :
        fa = Each(f, a) /\ fb = Each(f, b) /\ fc = Each(f, c)
  BY EachMapped
<1>4. /\ Len(fa) = Len(a) /\ \A j \in 1..Len(a) : fa[j] = f[a[j]]
      /\ Len(fb) = Len(b) /\ \A j \in 1..Len(b) : fb[j] = f[b[j]]
      /\ Len(fc) = Len(c) /\ \A j \in 1..Len(c) : fc[j] = f[c[j]]
  BY <1>3, EachMapped
<1>5. PICK d \in Seq(Seq(T)) : d = Cat(fa, fb)
  BY CatSeq
<1>6. /\ Len(d) = Len(fa) + Len(fb)
      /\ \A i \in 1..(Len(fa) + Len(fb)) : d[i] = IF i <= Len(fa) THEN fa[i] ELSE fb[i - Len(fa)]
  BY <1>5, ConcatProperties DEF Cat
<1>7. fc = d
  <2>1. PICK na \in Nat, nb \in Nat : Len(a) = na /\ Len(b) = nb
    OBVIOUS
  <2>2. ASSUME NEW i \in 1..(na + nb)
        PROVE  fc[i] = d[i]
    <3>1. CASE i <= na
      <4>1. i \in 1..na /\ i \in 1..(na + nb)
        BY <3>1
      <4>2. c[i] = a[i] /\ Len(c) = na + nb
        BY <1>2, <2>1, <3>1
      <4>3. fc[i] = f[c[i]] /\ fa[i] = f[a[i]] /\ Len(fa) = na /\ Len(fb) = nb
        BY <1>4, <2>1, <4>1, <4>2
      <4>4. d[i] = fa[i]
        BY <1>6, <3>1, <4>3
      <4>5. QED
        BY <4>2, <4>3, <4>4
    <3>2. CASE ~(i <= na)
      <4>1. i - na \in 1..nb /\ i \in 1..(na + nb)
        BY <3>2
      <4>2. c[i] = b[i - na] /\ Len(c) = na + nb
        BY <1>2, <2>1, <3>2
      <4>3. fc[i] = f[c[i]] /\ fb[i - na] = f[b[i - na]] /\ Len(fa) = na /\ Len(fb) = nb
        BY <1>4, <2>1, <4>1, <4>2
      <4>4. d[i] = fb[i - na]
        BY <1>6, <3>2, <4>3
      <4>5. QED
        BY <4>2, <4>3, <4>4
    <3>3. QED
      BY <3>1, <3>2
  <2>3. Len(fc) = na + nb /\ Len(d) = na + nb
    BY <1>2, <1>4, <1>6, <2>1
  <2>4. QED
    BY <2>2, <2>3, SeqEqual
<1>8. QED
  BY <1>1, <1>3, <1>5, <1>7

\* Through distributes over concatenation.
LEMMA ThroughCat ==
    ASSUME NEW S, NEW T, NEW f, Maps(f, S, T), NEW a \in Seq(S), NEW b \in Seq(S)
    PROVE  Through(f, Cat(a, b)) = Cat(Through(f, a), Through(f, b))
<1>1. Each(f, a) \in Seq(Seq(T)) /\ Each(f, b) \in Seq(Seq(T))
  BY EachMapped
<1>2. FlattenSeq(Cat(Each(f, a), Each(f, b))) = Cat(FlattenSeq(Each(f, a)), FlattenSeq(Each(f, b)))
  BY <1>1, FlattenConcat
<1>3. QED
  BY <1>2, EachCat DEF Through

\* One more element.
LEMMA ThroughAppend ==
    ASSUME NEW S, NEW T, NEW f, Maps(f, S, T), NEW s \in Seq(S), NEW x \in S
    PROVE  Through(f, Append(s, x)) = Cat(Through(f, s), f[x])
<1>1. PICK t \in Seq(S) : t = <<x>>
  <2>1. <<x>> \in Seq(S)
    OBVIOUS
  <2>2. QED
    BY <2>1
<1>2. Append(s, x) = Cat(s, t)
  BY <1>1, AppendIsConcat DEF Cat
<1>3. Through(f, t) = f[x]
  BY <1>1, ThroughOne
<1>4. QED
  BY <1>2, <1>3, ThroughCat

\* The first element and the others.
LEMMA ThroughHeadTail ==
    ASSUME NEW S, NEW T, NEW f, Maps(f, S, T), NEW s \in Seq(S), s # <<>>
    PROVE  Through(f, s) = Cat(f[Head(s)], Through(f, Tail(s)))
<1>1. Head(s) \in S /\ Tail(s) \in Seq(S)
  BY HeadTailProperties
<1>2. PICK t \in Seq(S) : t = <<Head(s)>> /\ t = Append(<<>>, Head(s))
  <2>1. <<Head(s)>> \in Seq(S) /\ <<Head(s)>> = Append(<<>>, Head(s))
    BY <1>1
  <2>2. QED
    BY <2>1
<1>3. s = Cat(t, Tail(s))
  <2>0. <<>> \in Seq(S)
    OBVIOUS
  <2>1. PICK e \in Seq(S) : e = <<>>
    BY <2>0
  <2>2. Cat(Append(e, Head(s)), Tail(s)) = Cat(e, s)
    BY HandOver
  <2>3. QED
    BY <1>2, <2>1, <2>2, CatSeq
<1>4. Through(f, t) = f[Head(s)]
  BY <1>1, <1>2, ThroughOne
<1>5. PICK u \in Seq(S) : u = Tail(s)
  BY <1>1
<1>6. Through(f, Cat(t, u)) = Cat(Through(f, t), Through(f, u))
  BY ThroughCat
<1>7. QED
  BY <1>3, <1>4, <1>5, <1>6

\* Elements of which nothing is made.
LEMMA ThroughNone ==
    ASSUME NEW S, NEW T, NEW f, Maps(f, S, T), NEW s \in Seq(S),
           \A i \in 1..Len(s) : f[s[i]] = <<>>
    PROVE  Through(f, s) = <<>>
<1> DEFINE m == Each(f, s)
<1>1. m \in Seq(Seq(T)) /\ Len(m) = Len(s) /\ \A i \in 1..Len(s) : m[i] = f[s[i]]
  BY EachMapped
<1> HIDE DEF m
<1>2. FlattenSeq(m) = <<>>
  BY <1>1, FlattenNone
<1>3. QED
  BY <1>2 DEF m, Through

\* Functions that agree on the elements.
LEMMA ThroughAgree ==
    ASSUME NEW S, NEW s \in Seq(S), NEW f, NEW g, \A i \in 1..Len(s) : f[s[i]] = g[s[i]]
    PROVE  Through(f, s) = Through(g, s)
<1>1. DOMAIN s = 1..Len(s)
  OBVIOUS
<1>2. Each(f, s) = Each(g, s)
  BY <1>1 DEF Each
<1>3. QED
  BY <1>2, Zenon DEF Through

\* Through a flattened sequence: through each of its members.
LEMMA ThroughFlatten ==
    ASSUME NEW S, NEW T, NEW f, Maps(f, S, T), NEW ss \in Seq(Seq(S))
    PROVE  Through(f, FlattenSeq(ss)) = FlattenSeq([i \in DOMAIN ss |-> Through(f, ss[i])])
<1> DEFINE g == [s \in Seq(S) |-> Through(f, s)]
           G == {tt \in Seq(Seq(S)) : Through(f, FlattenSeq(tt)) = Through(g, tt)}
<1>1. Maps(g, Seq(S), T) /\ \A s \in Seq(S) : g[s] = Through(f, s)
  BY ThroughTyped DEF Maps
<1> HIDE DEF g
<1>2. <<>> \in G
  <2>1. Through(f, FlattenSeq(<<>>)) = <<>>
    BY FlattenEmpty, ThroughEmpty
  <2>2. Through(g, <<>>) = <<>>
    BY ThroughEmpty
  <2>3. QED
    BY <2>1, <2>2
<1>3. ASSUME NEW tt \in Seq(Seq(S)), NEW x \in Seq(S), tt \in G
      PROVE  Append(tt, x) \in G
  <2>1. FlattenSeq(Append(tt, x)) = Cat(FlattenSeq(tt), x) /\ FlattenSeq(tt) \in Seq(S)
    BY FlattenAppend, FlattenTyped
  <2>2. Through(f, Cat(FlattenSeq(tt), x)) = Cat(Through(f, FlattenSeq(tt)), Through(f, x))
    BY <2>1, ThroughCat
  <2>3. Through(g, Append(tt, x)) = Cat(Through(g, tt), g[x])
    BY <1>1, ThroughAppend
  <2>4. Through(f, FlattenSeq(tt)) = Through(g, tt) /\ g[x] = Through(f, x)
    BY <1>1, <1>3
  <2>5. Through(f, FlattenSeq(Append(tt, x))) = Through(g, Append(tt, x))
    BY <2>1, <2>2, <2>3, <2>4
  <2>6. Append(tt, x) \in Seq(Seq(S))
    OBVIOUS
  <2>7. QED
    BY <2>5, <2>6
<1>4. ss \in G
  <2> HIDE DEF G
  <2>1. QED
    BY <1>2, <1>3, SeqInduction
<1>5. Each(g, ss) = [i \in DOMAIN ss |-> Through(f, ss[i])]
  <2>1. \A i \in DOMAIN ss : ss[i] \in Seq(S)
    OBVIOUS
  <2>2. QED
    BY <1>1, <2>1 DEF Each
<1>6. QED
  BY <1>4, <1>5, Zenon DEF Through

\* All of this together.
LEMMA ThroughFacts ==
    ASSUME NEW S, NEW T, NEW f, Maps(f, S, T)
    PROVE  /\ \A s \in Seq(S) : Through(f, s) \in Seq(T)
           /\ Through(f, <<>>) = <<>>
           /\ \A x \in S : Through(f, <<x>>) = f[x]
           /\ \A a, b \in Seq(S) : Through(f, Cat(a, b)) = Cat(Through(f, a), Through(f, b))
           /\ \A s \in Seq(S), x \in S : Through(f, Append(s, x)) = Cat(Through(f, s), f[x])
           /\ \A s \in Seq(S) : s # <<>> =>
                Through(f, s) = Cat(f[Head(s)], Through(f, Tail(s)))
           /\ \A s \in Seq(S) : (\A i \in 1..Len(s) : f[s[i]] = <<>>) => Through(f, s) = <<>>
BY ThroughTyped, ThroughEmpty, ThroughOne, ThroughCat, ThroughAppend, ThroughHeadTail, ThroughNone

\* A sequence is its head and its tail.
LEMMA HeadFirst ==
    ASSUME NEW S, NEW s \in Seq(S), s # <<>>
    PROVE  /\ Head(s) \in S /\ Tail(s) \in Seq(S) /\ <<Head(s)>> \in Seq(S)
           /\ s = Cat(<<Head(s)>>, Tail(s))
<1>1. Head(s) \in S /\ Tail(s) \in Seq(S)
  BY HeadTailProperties
<1>2. PICK t \in Seq(S) : t = <<Head(s)>> /\ t = Append(<<>>, Head(s))
  <2>1. <<Head(s)>> \in Seq(S) /\ <<Head(s)>> = Append(<<>>, Head(s))
    BY <1>1
  <2>2. QED
    BY <2>1
<1>3. s = Cat(t, Tail(s))
  <2>0. <<>> \in Seq(S)
    OBVIOUS
  <2>1. PICK e \in Seq(S) : e = <<>>
    BY <2>0
  <2>2. Cat(Append(e, Head(s)), Tail(s)) = Cat(e, s)
    BY HandOver
  <2>3. QED
    BY <1>2, <2>1, <2>2, CatSeq
<1>4. QED
  BY <1>1, <1>2, <1>3

\* The head and the tail of what follows one element.
LEMMA AfterFirst ==
    ASSUME NEW S, NEW x \in S, NEW b \in Seq(S)
    PROVE  Cat(<<x>>, b) # <<>> /\ Head(Cat(<<x>>, b)) = x /\ Tail(Cat(<<x>>, b)) = b
<1>1. PICK a \in Seq(S) : a = <<x>> /\ Len(a) = 1 /\ a[1] = x
  <2>1. <<x>> \in Seq(S) /\ Len(<<x>>) = 1 /\ <<x>>[1] = x
    OBVIOUS
  <2>2. QED
    BY <2>1
<1>2. PICK c \in Seq(S) : c = Cat(a, b)
  BY CatSeq
<1>3. /\ Len(c) = Len(a) + Len(b)
      /\ \A i \in 1..(Len(a) + Len(b)) : c[i] = IF i <= Len(a) THEN a[i] ELSE b[i - Len(a)]
  BY <1>2, ConcatProperties DEF Cat
<1>4. PICK n \in Nat : n = Len(b)
  OBVIOUS
<1>5. Len(c) = n + 1 /\ c # <<>> /\ c[1] = x
  <2>1. Len(c) = n + 1 /\ Len(c) # 0
    BY <1>1, <1>3, <1>4
  <2>2. 1 \in 1..(1 + n) /\ Len(<<>>) = 0
    OBVIOUS
  <2>3. c[1] = a[1]
    BY <1>1, <1>3, <1>4, <2>2
  <2>4. QED
    BY <1>1, <2>1, <2>2, <2>3
<1>6. \A i \in 1..n : c[i + 1] = b[i]
  <2> TAKE i \in 1..n
  <2>1. i + 1 \in 1..(1 + n) /\ ~(i + 1 <= 1) /\ (i + 1) - 1 = i
    OBVIOUS
  <2>2. QED
    BY <1>1, <1>3, <1>4, <2>1
<1>7. PICK t \in Seq(S) : t = Tail(c) /\ Len(t) = n /\ \A i \in 1..n : t[i] = c[i + 1]
  <2>1. /\ Tail(c) \in Seq(S) /\ Len(Tail(c)) = Len(c) - 1
        /\ \A i \in 1..Len(Tail(c)) : Tail(c)[i] = c[i + 1]
    BY <1>5, HeadTailProperties
  <2>2. (n + 1) - 1 = n
    OBVIOUS
  <2>3. QED
    BY <1>5, <2>1, <2>2
<1>8. t = b
  <2>1. \A i \in 1..Len(t) : t[i] = b[i]
    BY <1>6, <1>7
  <2>2. QED
    BY <1>4, <1>7, <2>1, SeqEqual
<1>9. Head(c) = x
  BY <1>5
<1>10. QED
  BY <1>1, <1>2, <1>5, <1>7, <1>8, <1>9

=============================================================================
