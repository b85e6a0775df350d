-------------------------- MODULE LiveFeed_proofs --------------------------
(***************************************************************************)
(* Proofs about LiveFeed.  What is kept of a sequence and what a sequence  *)
(* of sequences flattens to are found by induction on its length; all that *)
(* follows uses that both distribute over concatenation.  The inductive    *)
(* invariant adds to the properties what the messages on the wire bring,   *)
(* and that the queue of the screen is behind the cursor.                  *)
(***************************************************************************)
EXTENDS LiveFeed, FiniteSetTheorems, SequenceTheorems, WellFoundedInduction, TLAPS

-----------------------------------------------------------------------------
(* Induction *)

LEMMA MinIsThere ==
  ASSUME NEW S \in SUBSET Nat, S # {}
  PROVE  Min(S) \in S /\ \A m \in S : Min(S) <= m
<1>1. PICK n \in S : \A m \in S : ~(<<m, n>> \in OpToRel(<, Nat))
  BY NatLessThanWellFounded, WFMin
<1>2. \A m \in S : ~(m < n)
  BY <1>1 DEF OpToRel
<1>3. \A m \in S : n <= m
  BY <1>2
<1> QED BY <1>3 DEF Min

LEMMA Induction ==
  ASSUME NEW S \in SUBSET Nat, 0 \in S, \A n \in S : n + 1 \in S
  PROVE  S = Nat
<1> SUFFICES ASSUME Nat \ S # {}
             PROVE  FALSE
  OBVIOUS
<1> DEFINE m == Min(Nat \ S)
<1>1. m \in Nat \ S /\ \A k \in Nat \ S : m <= k
  BY MinIsThere
<1> HIDE DEF m
<1>2. m # 0 /\ m - 1 \in Nat
  BY <1>1
<1>3. m - 1 \in S
  BY <1>1, <1>2
<1> QED BY <1>1, <1>2, <1>3

(* A set of sequences that has the empty one, and with one every longer one,  *)
(* has all.                                                                  *)
LEMMA SequenceInduction ==
  ASSUME NEW S, NEW P, <<>> \in P,
         \A s \in Seq(S), x \in S : s \in P => Append(s, x) \in P
  PROVE  Seq(S) \subseteq P
<1> DEFINE N == {n \in Nat : \A s \in Seq(S) : Len(s) = n => s \in P}
<1>1. 0 \in N
  BY EmptySeq
<1>2. ASSUME NEW n \in N
      PROVE  n + 1 \in N
  <2> SUFFICES ASSUME NEW s \in Seq(S), Len(s) = n + 1
               PROVE  s \in P
    OBVIOUS
  <2>1. s # <<>>
    BY EmptySeq
  <2>2. PICK f \in Seq(S), x \in S : s = Append(f, x)
    BY <2>1, SequenceEmptyOrAppend
  <2>3. Len(f) = n
    BY <2>2, AppendProperties
  <2> QED BY <2>2, <2>3
<1> HIDE DEF N
<1>3. N = Nat
  <2>1. N \in SUBSET Nat
    BY DEF N
  <2> QED BY <1>1, <1>2, <2>1, Induction
<1> QED BY <1>3 DEF N

-----------------------------------------------------------------------------
(* What is kept of a sequence *)

(* The function by which Kept is defined, up to a length.                    *)
IsKept(f, seq, set, m) ==
  f = [n \in 0..m |->
         IF n = 0 THEN <<>>
         ELSE IF seq[n] \in set THEN Append(f[n - 1], seq[n])
         ELSE f[n - 1]]

LEMMA KeptExists ==
  ASSUME NEW seq, NEW set, NEW m \in Nat
  PROVE  \E f : IsKept(f, seq, set, m)
<1> DEFINE N == {n \in Nat : \E f : IsKept(f, seq, set, n)}
<1>1. 0 \in N
  <2> DEFINE f == [n \in 0..0 |-> <<>>]
  <2>1. IsKept(f, seq, set, 0)
    BY DEF IsKept
  <2> QED BY <2>1
<1>2. ASSUME NEW n \in N
      PROVE  n + 1 \in N
  <2>1. PICK f : IsKept(f, seq, set, n)
    OBVIOUS
  <2> DEFINE x == IF seq[n + 1] \in set THEN Append(f[n], seq[n + 1]) ELSE f[n]
             g == [k \in 0..(n + 1) |-> IF k = n + 1 THEN x ELSE f[k]]
  <2> HIDE DEF x
  <2>2. \A k \in 0..(n + 1) :
          g[k] = IF k = 0 THEN <<>>
                 ELSE IF seq[k] \in set THEN Append(g[k - 1], seq[k])
                 ELSE g[k - 1]
    <3> SUFFICES ASSUME NEW k \in 0..(n + 1)
                 PROVE  g[k] = IF k = 0 THEN <<>>
                               ELSE IF seq[k] \in set THEN Append(g[k - 1], seq[k])
                               ELSE g[k - 1]
      OBVIOUS
    <3>1. CASE k = n + 1
      BY <3>1 DEF x
    <3>2. CASE k # n + 1
      <4>1. k \in 0..n /\ g[k] = f[k]
        BY <3>2
      <4>2. k # 0 => g[k - 1] = f[k - 1]
        BY <4>1
      <4> QED BY <2>1, <4>1, <4>2 DEF IsKept
    <3> QED BY <3>1, <3>2
  <2>3. IsKept(g, seq, set, n + 1)
    BY <2>2 DEF IsKept
  <2> QED BY <2>3
<1> HIDE DEF N
<1>3. N = Nat
  <2>1. N \in SUBSET Nat
    BY DEF N
  <2> QED BY <1>1, <1>2, <2>1, Induction
<1> QED BY <1>3 DEF N

LEMMA KeptUnfolds ==
  ASSUME NEW seq, NEW set, Len(seq) \in Nat
  PROVE  \E f : IsKept(f, seq, set, Len(seq)) /\ Kept(seq, set) = f[Len(seq)]
<1> DEFINE f == CHOOSE f : IsKept(f, seq, set, Len(seq))
<1>1. IsKept(f, seq, set, Len(seq))
  BY KeptExists
<1>2. Kept(seq, set) = f[Len(seq)]
  BY DEF Kept, IsKept
<1> QED BY <1>1, <1>2

LEMMA KeptRecurs ==
  ASSUME NEW f, NEW seq, NEW set, NEW m \in Nat, IsKept(f, seq, set, m),
         NEW k \in Nat, k < m
  PROVE  f[k + 1] = IF seq[k + 1] \in set THEN Append(f[k], seq[k + 1]) ELSE f[k]
<1> DEFINE j == k + 1
<1>1. j \in 0..m /\ j # 0 /\ j - 1 = k
  OBVIOUS
<1> HIDE DEF j
<1>2. f[j] = IF j = 0 THEN <<>>
             ELSE IF seq[j] \in set THEN Append(f[j - 1], seq[j])
             ELSE f[j - 1]
  BY <1>1 DEF IsKept
<1> QED BY <1>1, <1>2 DEF j

LEMMA KeptOfNothing ==
  ASSUME NEW set
  PROVE  Kept(<<>>, set) = <<>>
<1>1. PICK f : IsKept(f, <<>>, set, 0) /\ Kept(<<>>, set) = f[0]
  BY KeptUnfolds
<1> QED BY <1>1 DEF IsKept

LEMMA KeptOfAppend ==
  ASSUME NEW S, NEW s \in Seq(S), NEW x \in S, NEW set
  PROVE  Kept(Append(s, x), set) = IF x \in set THEN Append(Kept(s, set), x) ELSE Kept(s, set)
<1> DEFINE t == Append(s, x)
           n == Len(s)
<1>1. /\ n \in Nat /\ Len(t) = n + 1 /\ t[n + 1] = x
      /\ \A k \in 1..n : t[k] = s[k]
  BY AppendProperties
<1> HIDE DEF t, n
<1>2. PICK f : IsKept(f, s, set, n) /\ Kept(s, set) = f[n]
  BY <1>1, KeptUnfolds DEF n
<1>3. PICK g : IsKept(g, t, set, n + 1) /\ Kept(t, set) = g[n + 1]
  BY <1>1, KeptUnfolds
<1>4. \A k \in 0..n : g[k] = f[k]
  <2> DEFINE N == {k \in Nat : k <= n => g[k] = f[k]}
  <2>1. 0 \in N
    BY <1>1, <1>2, <1>3 DEF IsKept
  <2>2. ASSUME NEW k \in N
        PROVE  k + 1 \in N
    <3> SUFFICES ASSUME k + 1 <= n
                 PROVE  g[k + 1] = f[k + 1]
      OBVIOUS
    <3>1. k \in Nat /\ k + 1 \in 1..n /\ g[k] = f[k]
      BY <1>1
    <3>2. g[k + 1] = IF t[k + 1] \in set THEN Append(g[k], t[k + 1]) ELSE g[k]
      BY <1>1, <1>3, <3>1, KeptRecurs
    <3>3. f[k + 1] = IF s[k + 1] \in set THEN Append(f[k], s[k + 1]) ELSE f[k]
      BY <1>1, <1>2, <3>1, KeptRecurs
    <3> QED BY <1>1, <3>1, <3>2, <3>3
  <2> HIDE DEF N
  <2>3. N \in SUBSET Nat
    BY DEF N
  <2>4. N = Nat
    BY <2>1, <2>2, <2>3, Induction
  <2> QED BY <1>1, <2>4 DEF N
<1>5. g[n + 1] = IF t[n + 1] \in set THEN Append(g[n], t[n + 1]) ELSE g[n]
  BY <1>1, <1>3, KeptRecurs
<1>6. g[n] = f[n]
  BY <1>1, <1>4
<1> QED BY <1>1, <1>2, <1>3, <1>5, <1>6 DEF t

(* What is kept is a sequence of such elements, no longer than before.        *)
LEMMA KeptIsSequence ==
  ASSUME NEW S, NEW s \in Seq(S), NEW set
  PROVE  Kept(s, set) \in Seq(S \cap set) /\ Len(Kept(s, set)) <= Len(s)
<1> DEFINE P == {t \in Seq(S) : Kept(t, set) \in Seq(S \cap set) /\ Len(Kept(t, set)) <= Len(t)}
<1>1. <<>> \in P
  <2>1. <<>> \in Seq(S) /\ <<>> \in Seq(S \cap set) /\ Len(<<>>) = 0
    BY EmptySeq
  <2>2. Kept(<<>>, set) = <<>>
    BY KeptOfNothing
  <2>3. Kept(<<>>, set) \in Seq(S \cap set)
    BY <2>1, <2>2, Zenon
  <2>4. Len(Kept(<<>>, set)) = 0
    BY <2>1, <2>2, Zenon
  <2>5. Len(Kept(<<>>, set)) <= Len(<<>>)
    BY <2>1, <2>4
  <2> QED BY <2>1, <2>3, <2>5, Zenon
<1>2. ASSUME NEW t \in Seq(S), NEW x \in S, t \in P
      PROVE  Append(t, x) \in P
  <2>1. Kept(t, set) \in Seq(S \cap set) /\ Len(Kept(t, set)) <= Len(t)
    BY <1>2
  <2>2. Append(t, x) \in Seq(S) /\ Len(Append(t, x)) = Len(t) + 1
    BY AppendProperties
  <2>3. CASE x \in set
    <3>1. Kept(Append(t, x), set) = Append(Kept(t, set), x)
      BY <2>3, KeptOfAppend
    <3>2. Append(Kept(t, set), x) \in Seq(S \cap set)
            /\ Len(Append(Kept(t, set), x)) = Len(Kept(t, set)) + 1
      BY <2>1, <2>3, AppendProperties
    <3> QED BY <2>1, <2>2, <3>1, <3>2, LenProperties
  <2>4. CASE x \notin set
    <3>1. Kept(Append(t, x), set) = Kept(t, set)
      BY <2>4, KeptOfAppend
    <3> QED BY <2>1, <2>2, <3>1, LenProperties
  <2> QED BY <2>3, <2>4
<1> HIDE DEF P
<1>3. Seq(S) \subseteq P
  BY <1>1, <1>2, SequenceInduction
<1> QED BY <1>3 DEF P

LEMMA KeptOfConcat ==
  ASSUME NEW S, NEW s \in Seq(S), NEW t \in Seq(S), NEW set
  PROVE  Kept(s \o t, set) = Kept(s, set) \o Kept(t, set)
<1> DEFINE P == {u \in Seq(S) : Kept(s \o u, set) = Kept(s, set) \o Kept(u, set)}
<1>1. <<>> \in P
  <2>1. Kept(s, set) \in Seq(S \cap set)
    BY KeptIsSequence
  <2>2. Kept(s, set) \o <<>> = Kept(s, set) /\ s \o <<>> = s
    BY <2>1, ConcatEmptySeq
  <2>3. <<>> \in Seq(S) /\ Kept(<<>>, set) = <<>>
    BY KeptOfNothing, EmptySeq
  <2> QED BY <2>2, <2>3
<1>2. ASSUME NEW u \in Seq(S), NEW x \in S, u \in P
      PROVE  Append(u, x) \in P
  <2>1. Kept(s \o u, set) = Kept(s, set) \o Kept(u, set)
    BY <1>2
  <2>2. /\ Append(u, x) \in Seq(S) /\ s \o u \in Seq(S)
        /\ s \o Append(u, x) = Append(s \o u, x)
    <3>1. <<x>> \in Seq(S)
      OBVIOUS
    <3> QED BY <3>1, AppendIsConcat, ConcatAssociative, AppendProperties, ConcatProperties
  <2>3. Kept(s, set) \in Seq(S) /\ Kept(u, set) \in Seq(S)
    <3>1. Kept(s, set) \in Seq(S \cap set) /\ Kept(u, set) \in Seq(S \cap set)
      BY KeptIsSequence
    <3>2. S \cap set \subseteq S
      OBVIOUS
    <3> QED BY <3>1, <3>2, SeqMonotonic
  <2> DEFINE a == Kept(s, set)
             b == Kept(u, set)
             su == s \o u
  <2>4. /\ Kept(Append(su, x), set) = IF x \in set THEN Append(Kept(su, set), x) ELSE Kept(su, set)
        /\ Kept(Append(u, x), set) = IF x \in set THEN Append(b, x) ELSE b
    BY <2>2, KeptOfAppend
  <2>5. Append(a \o b, x) = a \o Append(b, x)
    <3> HIDE DEF a, b
    <3>1. <<x>> \in Seq(S) /\ a \in Seq(S) /\ b \in Seq(S)
      BY <2>3 DEF a, b
    <3>2. a \o b \in Seq(S) /\ a \o (b \o <<x>>) = (a \o b) \o <<x>>
      BY <3>1, ConcatProperties, ConcatAssociative
    <3>3. Append(a \o b, x) = (a \o b) \o <<x>> /\ Append(b, x) = b \o <<x>>
      BY <3>1, <3>2, AppendIsConcat
    <3> QED BY <3>2, <3>3
  <2>6. Kept(s \o Append(u, x), set) = a \o Kept(Append(u, x), set)
    <3> HIDE DEF a, b, su
    <3>1. Kept(su, set) = a \o b /\ s \o Append(u, x) = Append(su, x)
      BY <2>1, <2>2 DEF a, b, su
    <3> QED BY <2>4, <2>5, <3>1
  <2> QED BY <2>2, <2>6
<1> HIDE DEF P
<1>3. Seq(S) \subseteq P
  BY <1>1, <1>2, SequenceInduction
<1> QED BY <1>3 DEF P

LEMMA KeptWhole ==
  ASSUME NEW S, NEW s \in Seq(S), NEW set, S \subseteq set
  PROVE  Kept(s, set) = s
<1> DEFINE P == {t \in Seq(S) : Kept(t, set) = t}
<1>1. <<>> \in P
  BY KeptOfNothing, EmptySeq
<1>2. ASSUME NEW t \in Seq(S), NEW x \in S, t \in P
      PROVE  Append(t, x) \in P
  BY <1>2, KeptOfAppend, AppendProperties
<1> HIDE DEF P
<1>3. Seq(S) \subseteq P
  BY <1>1, <1>2, SequenceInduction
<1> QED BY <1>3 DEF P

LEMMA KeptNone ==
  ASSUME NEW S, NEW s \in Seq(S), NEW set, S \cap set = {}
  PROVE  Kept(s, set) = <<>>
<1> DEFINE P == {t \in Seq(S) : Kept(t, set) = <<>>}
<1>1. <<>> \in P
  BY KeptOfNothing, EmptySeq
<1>2. ASSUME NEW t \in Seq(S), NEW x \in S, t \in P
      PROVE  Append(t, x) \in P
  BY <1>2, KeptOfAppend, AppendProperties
<1> HIDE DEF P
<1>3. Seq(S) \subseteq P
  BY <1>1, <1>2, SequenceInduction
<1> QED BY <1>3 DEF P

-----------------------------------------------------------------------------
(* What a sequence of sequences flattens to *)

(* The function by which FlattenSeq is defined, up to a length.              *)
IsFlat(f, seqs, m) ==
  f = [i \in 1..m |-> IF i = 1 THEN seqs[i] ELSE f[i - 1] \o seqs[i]]

LEMMA FlatExists ==
  ASSUME NEW seqs, NEW m \in Nat
  PROVE  \E f : IsFlat(f, seqs, m)
<1> DEFINE N == {n \in Nat : \E f : IsFlat(f, seqs, n)}
<1>1. 0 \in N
  <2> DEFINE f == [i \in 1..0 |-> <<>>]
  <2>1. IsFlat(f, seqs, 0)
    BY DEF IsFlat
  <2> QED BY <2>1
<1>2. ASSUME NEW n \in N
      PROVE  n + 1 \in N
  <2>1. PICK f : IsFlat(f, seqs, n)
    OBVIOUS
  <2> DEFINE x == IF n = 0 THEN seqs[n + 1] ELSE f[n] \o seqs[n + 1]
             g == [i \in 1..(n + 1) |-> IF i = n + 1 THEN x ELSE f[i]]
  <2> HIDE DEF x
  <2>2. \A i \in 1..(n + 1) : g[i] = IF i = 1 THEN seqs[i] ELSE g[i - 1] \o seqs[i]
    <3> SUFFICES ASSUME NEW i \in 1..(n + 1)
                 PROVE  g[i] = IF i = 1 THEN seqs[i] ELSE g[i - 1] \o seqs[i]
      OBVIOUS
    <3>1. CASE i = n + 1
      BY <3>1 DEF x
    <3>2. CASE i # n + 1
      <4>1. i \in 1..n /\ g[i] = f[i]
        BY <3>2
      <4>2. i # 1 => g[i - 1] = f[i - 1]
        BY <4>1
      <4> QED BY <2>1, <4>1, <4>2 DEF IsFlat
    <3> QED BY <3>1, <3>2
  <2>3. IsFlat(g, seqs, n + 1)
    BY <2>2 DEF IsFlat
  <2> QED BY <2>3
<1> HIDE DEF N
<1>3. N = Nat
  <2>1. N \in SUBSET Nat
    BY DEF N
  <2> QED BY <1>1, <1>2, <2>1, Induction
<1> QED BY <1>3 DEF N

LEMMA FlatUnfolds ==
  ASSUME NEW seqs, Len(seqs) \in Nat, Len(seqs) # 0
  PROVE  \E f : IsFlat(f, seqs, Len(seqs)) /\ FlattenSeq(seqs) = f[Len(seqs)]
<1> DEFINE f == CHOOSE f : IsFlat(f, seqs, Len(seqs))
<1>1. IsFlat(f, seqs, Len(seqs))
  BY FlatExists
<1>2. FlattenSeq(seqs) = f[Len(seqs)]
  BY DEF FlattenSeq, IsFlat
<1> QED BY <1>1, <1>2

LEMMA FlatRecurs ==
  ASSUME NEW f, NEW seqs, NEW m \in Nat, IsFlat(f, seqs, m), NEW k \in Nat, k < m
  PROVE  f[k + 1] = IF k = 0 THEN seqs[k + 1] ELSE f[k] \o seqs[k + 1]
<1> DEFINE j == k + 1
<1>1. j \in 1..m /\ j - 1 = k /\ (j = 1 <=> k = 0)
  OBVIOUS
<1> HIDE DEF j
<1>2. f[j] = IF j = 1 THEN seqs[j] ELSE f[j - 1] \o seqs[j]
  BY <1>1 DEF IsFlat
<1> QED BY <1>1, <1>2 DEF j

LEMMA FlatOfNothing == FlattenSeq(<<>>) = <<>>
<1>1. Len(<<>>) = 0
  BY EmptySeq
<1> QED BY <1>1 DEF FlattenSeq

LEMMA FlatOfAppend ==
  ASSUME NEW S, NEW s \in Seq(Seq(S)), NEW x \in Seq(S)
  PROVE  FlattenSeq(Append(s, x)) = FlattenSeq(s) \o x
<1> DEFINE t == Append(s, x)
           n == Len(s)
<1>1. /\ n \in Nat /\ Len(t) = n + 1 /\ t[n + 1] = x
      /\ \A k \in 1..n : t[k] = s[k]
  BY AppendProperties
<1>2. n = 0 => s = <<>>
  BY EmptySeq
<1> HIDE DEF t, n
<1>3. PICK g : IsFlat(g, t, n + 1) /\ FlattenSeq(t) = g[n + 1]
  BY <1>1, FlatUnfolds
<1>4. g[n + 1] = IF n = 0 THEN x ELSE g[n] \o x
  <2>1. n + 1 \in Nat /\ n < n + 1
    BY <1>1
  <2>2. g[n + 1] = IF n = 0 THEN t[n + 1] ELSE g[n] \o t[n + 1]
    BY ONLY <1>1, <1>3, <2>1, FlatRecurs
  <2> QED BY <1>1, <2>2
<1>5. CASE n = 0
  <2>1. FlattenSeq(s) = <<>>
    BY <1>2, <1>5, FlatOfNothing
  <2>2. <<>> \o x = x
    BY ConcatEmptySeq
  <2> QED BY <1>3, <1>4, <1>5, <2>1, <2>2 DEF t
<1>6. CASE n # 0
  <2>1. PICK f : IsFlat(f, s, n) /\ FlattenSeq(s) = f[n]
    BY <1>1, <1>6, FlatUnfolds DEF n
  <2> DEFINE N == {k \in Nat : k + 1 <= n => g[k + 1] = f[k + 1]}
  <2>2. ASSUME NEW k \in Nat, k + 1 <= n
        PROVE  /\ g[k + 1] = IF k = 0 THEN t[k + 1] ELSE g[k] \o t[k + 1]
               /\ f[k + 1] = IF k = 0 THEN s[k + 1] ELSE f[k] \o s[k + 1]
               /\ t[k + 1] = s[k + 1]
    <3>1. n + 1 \in Nat /\ k < n + 1 /\ k < n /\ k + 1 \in 1..n
      BY <1>1, <2>2
    <3>2. g[k + 1] = IF k = 0 THEN t[k + 1] ELSE g[k] \o t[k + 1]
      BY ONLY <1>3, <2>2, <3>1, FlatRecurs
    <3>3. f[k + 1] = IF k = 0 THEN s[k + 1] ELSE f[k] \o s[k + 1]
      BY ONLY <1>1, <2>1, <2>2, <3>1, FlatRecurs
    <3> QED BY <1>1, <3>1, <3>2, <3>3
  <2>3. 0 \in N
    BY <2>2
  <2>4. ASSUME NEW k \in N
        PROVE  k + 1 \in N
    <3> DEFINE j == k + 1
    <3>1. j \in Nat /\ j # 0 /\ (j + 1 <= n => k + 1 <= n)
      BY <1>1
    <3>2. j + 1 <= n => g[j] = f[j]
      BY <3>1
    <3> HIDE DEF j
    <3>3. j + 1 <= n => g[j + 1] = f[j + 1]
      BY <2>2, <3>1, <3>2
    <3>4. j \in N
      BY <3>1, <3>3
    <3> QED BY <3>4 DEF j
  <2> HIDE DEF N
  <2>5. N \in SUBSET Nat
    BY DEF N
  <2>6. N = Nat
    BY <2>3, <2>4, <2>5, Induction
  <2>7. n - 1 \in Nat /\ (n - 1) + 1 = n
    BY <1>1, <1>6
  <2>8. g[n] = f[n]
    BY <2>6, <2>7 DEF N
  <2> QED BY <1>3, <1>4, <1>6, <2>1, <2>8 DEF t
<1> QED BY <1>5, <1>6

LEMMA FlatIsSequence ==
  ASSUME NEW S, NEW s \in Seq(Seq(S))
  PROVE  FlattenSeq(s) \in Seq(S)
<1> DEFINE P == {t \in Seq(Seq(S)) : FlattenSeq(t) \in Seq(S)}
<1>1. <<>> \in P
  <2>1. <<>> \in Seq(S) /\ <<>> \in Seq(Seq(S))
    BY EmptySeq
  <2> QED BY <2>1, FlatOfNothing, Zenon
<1>2. ASSUME NEW t \in Seq(Seq(S)), NEW x \in Seq(S), t \in P
      PROVE  Append(t, x) \in P
  <2>1. Append(t, x) \in Seq(Seq(S)) /\ FlattenSeq(Append(t, x)) = FlattenSeq(t) \o x
    BY FlatOfAppend, AppendProperties
  <2>2. FlattenSeq(t) \in Seq(S)
    BY <1>2
  <2>3. FlattenSeq(t) \o x \in Seq(S)
    BY <2>2, ConcatProperties
  <2> QED BY <2>1, <2>3
<1> HIDE DEF P
<1>3. Seq(Seq(S)) \subseteq P
  BY <1>1, <1>2, SequenceInduction
<1> QED BY <1>3 DEF P

LEMMA FlatOfConcat ==
  ASSUME NEW S, NEW s \in Seq(Seq(S)), NEW t \in Seq(Seq(S))
  PROVE  FlattenSeq(s \o t) = FlattenSeq(s) \o FlattenSeq(t)
<1> DEFINE P == {u \in Seq(Seq(S)) : FlattenSeq(s \o u) = FlattenSeq(s) \o FlattenSeq(u)}
<1>1. <<>> \in P
  <2>1. FlattenSeq(s) \o <<>> = FlattenSeq(s)
    BY FlatIsSequence, ConcatEmptySeq
  <2>2. <<>> \in Seq(Seq(S)) /\ FlattenSeq(<<>>) = <<>>
    BY FlatOfNothing, EmptySeq
  <2>3. s \o <<>> = s
    BY ConcatEmptySeq
  <2> QED BY <2>1, <2>2, <2>3
<1>2. ASSUME NEW u \in Seq(Seq(S)), NEW x \in Seq(S), u \in P
      PROVE  Append(u, x) \in P
  <2> DEFINE a == FlattenSeq(s)
             b == FlattenSeq(u)
             su == s \o u
  <2>1. FlattenSeq(su) = a \o b
    BY <1>2
  <2>2. /\ Append(u, x) \in Seq(Seq(S)) /\ su \in Seq(Seq(S))
        /\ s \o Append(u, x) = Append(su, x)
    <3>1. <<x>> \in Seq(Seq(S))
      OBVIOUS
    <3> QED BY <3>1, AppendIsConcat, ConcatAssociative, AppendProperties, ConcatProperties
  <2>3. a \in Seq(S) /\ b \in Seq(S)
    BY FlatIsSequence
  <2>4. FlattenSeq(Append(su, x)) = FlattenSeq(su) \o x /\ FlattenSeq(Append(u, x)) = b \o x
    BY <2>2, FlatOfAppend
  <2> HIDE DEF a, b, su
  <2>5. (a \o b) \o x = a \o (b \o x)
    BY <2>3, ConcatAssociative
  <2>6. FlattenSeq(s \o Append(u, x)) = a \o FlattenSeq(Append(u, x))
    BY <2>1, <2>2, <2>4, <2>5
  <2> QED BY <2>2, <2>6 DEF a
<1> HIDE DEF P
<1>3. Seq(Seq(S)) \subseteq P
  BY <1>1, <1>2, SequenceInduction
<1> QED BY <1>3 DEF P

-----------------------------------------------------------------------------
(* Events and their steps *)

Events(n) == [seq : 1..n, kind : Kinds]
StepsTo(n) == [seq : 0..n, stage : Nat, last : BOOLEAN, lasts : BOOLEAN]

LEMMA EventHasSteps ==
  ASSUME NEW n \in Nat, NEW e \in Events(n)
  PROVE  presentationStepsForEvent(e) \in Seq(StepsTo(n))
<1> DEFINE stages == definitionsForEvent(e.kind)
           steps == presentationStepsForEvent(e)
<1>1. e.seq \in 1..n
  BY DEF Events
<1>2. stages \in Seq(BOOLEAN)
  <2>1. \/ stages = <<TRUE, TRUE>> \/ stages = <<TRUE>> \/ stages = <<FALSE>> \/ stages = <<>>
    BY DEF definitionsForEvent
  <2>2. /\ <<TRUE, TRUE>> \in Seq(BOOLEAN) /\ <<TRUE>> \in Seq(BOOLEAN)
        /\ <<FALSE>> \in Seq(BOOLEAN) /\ <<>> \in Seq(BOOLEAN)
    OBVIOUS
  <2> QED BY <2>1, <2>2, Zenon
<1> HIDE DEF stages
<1>3. Len(stages) \in Nat /\ DOMAIN stages = 1..Len(stages)
        /\ \A i \in 1..Len(stages) : stages[i] \in BOOLEAN
  BY <1>2
<1>4. steps = [i \in 1..Len(stages) |->
                 [seq |-> e.seq, stage |-> i, last |-> i = Len(stages), lasts |-> stages[i]]]
  BY <1>3 DEF presentationStepsForEvent, stages
<1>5. \A i \in 1..Len(stages) :
        [seq |-> e.seq, stage |-> i, last |-> i = Len(stages), lasts |-> stages[i]]
          \in StepsTo(n)
  BY <1>1, <1>3 DEF StepsTo
<1>6. steps \in [1..Len(stages) -> StepsTo(n)]
  BY <1>4, <1>5
<1> HIDE DEF steps
<1>7. steps \in Seq(StepsTo(n))
  BY <1>3, <1>6
<1> QED BY <1>7 DEF steps

(* The sequence of the steps of each event.                                  *)
Stages(events) == [i \in DOMAIN events |-> presentationStepsForEvent(events[i])]

LEMMA EventsHaveSteps ==
  ASSUME NEW n \in Nat, NEW events \in Seq(Events(n))
  PROVE  /\ Stages(events) \in Seq(Seq(StepsTo(n))) /\ Len(Stages(events)) = Len(events)
         /\ StepsOf(events) \in Seq(StepsTo(n))
<1>1. /\ Len(events) \in Nat /\ DOMAIN events = 1..Len(events)
      /\ \A i \in 1..Len(events) : events[i] \in Events(n)
  OBVIOUS
<1>2. \A i \in 1..Len(events) : presentationStepsForEvent(events[i]) \in Seq(StepsTo(n))
  BY <1>1, EventHasSteps
<1>3. Stages(events) = [i \in 1..Len(events) |-> presentationStepsForEvent(events[i])]
  BY <1>1 DEF Stages
<1>4. Stages(events) \in Seq(Seq(StepsTo(n)))
  BY <1>1, <1>2, <1>3
<1>5. Len(Stages(events)) = Len(events)
  BY <1>1, <1>3, <1>4, LenProperties
<1> QED BY <1>4, <1>5, FlatIsSequence DEF StepsOf, Stages

LEMMA StepsOfNothing == StepsOf(<<>>) = <<>>
<1>1. Stages(<<>>) = <<>>
  BY DEF Stages
<1> QED BY <1>1, FlatOfNothing DEF StepsOf, Stages

LEMMA StepsOfConcat ==
  ASSUME NEW n \in Nat, NEW a \in Seq(Events(n)), NEW b \in Seq(Events(n))
  PROVE  StepsOf(a \o b) = StepsOf(a) \o StepsOf(b)
<1> DEFINE sa == Stages(a)
           sb == Stages(b)
           sab == Stages(a \o b)
<1>1. a \o b \in Seq(Events(n)) /\ Len(a \o b) = Len(a) + Len(b)
        /\ \A i \in 1..Len(a) + Len(b) :
             (a \o b)[i] = IF i <= Len(a) THEN a[i] ELSE b[i - Len(a)]
  BY ConcatProperties
<1>2. /\ sa \in Seq(Seq(StepsTo(n))) /\ Len(sa) = Len(a)
      /\ sb \in Seq(Seq(StepsTo(n))) /\ Len(sb) = Len(b)
      /\ sab \in Seq(Seq(StepsTo(n))) /\ Len(sab) = Len(a \o b)
  BY <1>1, EventsHaveSteps
<1>3. /\ sa \o sb \in Seq(Seq(StepsTo(n))) /\ Len(sa \o sb) = Len(sab)
      /\ \A i \in 1..Len(sab) :
           (sa \o sb)[i] = IF i <= Len(a) THEN sa[i] ELSE sb[i - Len(a)]
  <2> HIDE DEF sa, sb, sab
  <2>1. /\ sa \o sb \in Seq(Seq(StepsTo(n))) /\ Len(sa \o sb) = Len(sa) + Len(sb)
        /\ \A i \in 1..Len(sa) + Len(sb) :
             (sa \o sb)[i] = IF i <= Len(sa) THEN sa[i] ELSE sb[i - Len(sa)]
    BY ONLY <1>2, ConcatProperties
  <2>2. Len(sab) = Len(sa) + Len(sb)
    BY <1>1, <1>2
  <2> QED BY <1>2, <2>1, <2>2
<1>4. Len(a) \in Nat /\ Len(b) \in Nat /\ DOMAIN a = 1..Len(a) /\ DOMAIN b = 1..Len(b)
        /\ DOMAIN (a \o b) = 1..Len(sab)
  BY <1>1, <1>2
<1>5. \A i \in 1..Len(sab) : sab[i] = (sa \o sb)[i]
  <2> SUFFICES ASSUME NEW i \in 1..Len(sab)
               PROVE  sab[i] = (sa \o sb)[i]
    OBVIOUS
  <2>1. sab[i] = presentationStepsForEvent((a \o b)[i])
    BY <1>4 DEF Stages
  <2>2. CASE i <= Len(a)
    <3>1. i \in DOMAIN a /\ (a \o b)[i] = a[i]
      BY <1>1, <1>2, <1>4, <2>2
    <3>2. sa[i] = presentationStepsForEvent(a[i])
      BY <3>1 DEF Stages
    <3> QED BY <1>3, <2>1, <2>2, <3>1, <3>2
  <2>3. CASE ~(i <= Len(a))
    <3>1. i - Len(a) \in DOMAIN b /\ (a \o b)[i] = b[i - Len(a)]
      BY <1>1, <1>2, <1>4, <2>3
    <3>2. sb[i - Len(a)] = presentationStepsForEvent(b[i - Len(a)])
      BY <3>1 DEF Stages
    <3> QED BY <1>3, <2>1, <2>3, <3>1, <3>2
  <2> QED BY <2>2, <2>3
<1>6. sab = sa \o sb
  BY <1>2, <1>3, <1>5, SeqEqual
<1>7. StepsOf(a \o b) = FlattenSeq(sab) /\ StepsOf(a) = FlattenSeq(sa)
        /\ StepsOf(b) = FlattenSeq(sb)
  BY DEF StepsOf, Stages
<1> HIDE DEF sa, sb, sab
<1> QED BY <1>2, <1>6, <1>7, FlatOfConcat

-----------------------------------------------------------------------------
(* The queue *)

QueueTyped(q) ==
  /\ DOMAIN q = DOMAIN createPresentationQueue
  /\ q.lastQueued \in Nat
  /\ q.active \in StepsTo(q.lastQueued) \cup {None}
  /\ q.pending \in Seq(StepsTo(q.lastQueued))
  /\ q.shown \in Seq(PresentationSteps)
  /\ q.lastCompleted \in 0..q.lastQueued

(* What was played, is played and will be.                                   *)
Played(q) == q.shown \o Steps(q)

(* One queue goes on from another without an event in between.               *)
GoesOn(q, w) ==
  /\ QueueTyped(w)
  /\ Played(w) = Played(q) /\ w.lastQueued = q.lastQueued

LEMMA MaxIsThere ==
  ASSUME NEW n \in Nat, NEW S \in SUBSET (0..n), S # {}
  PROVE  Max(S) \in S
<1> DEFINE B == {m \in Nat : \A x \in S : x <= m}
           m == Min(B)
<1>1. m \in B /\ \A k \in B : m <= k
  <2>1. n \in B /\ B \in SUBSET Nat
    OBVIOUS
  <2> HIDE DEF B
  <2> QED BY <2>1, MinIsThere
<1> HIDE DEF m
<1>2. m \in S
  <2> SUFFICES ASSUME m \notin S
               PROVE  FALSE
    OBVIOUS
  <2>1. m \in Nat /\ \A x \in S : x \in Nat /\ x < m
    BY <1>1
  <2>2. PICK y \in S : y \in Nat /\ y < m
    BY <2>1
  <2>4. m - 1 \in Nat
    BY <2>1, <2>2
  <2>5. \A x \in S : x <= m - 1
    BY <2>1, <2>4
  <2>3. m - 1 \in B
    BY <2>4, <2>5
  <2> QED BY <1>1, <2>1, <2>3
<1> QED BY <1>1, <1>2 DEF Max

LEMMA StepsAreSteps ==
  ASSUME NEW n \in Nat
  PROVE  StepsTo(n) \subseteq PresentationSteps /\ None \notin StepsTo(n)
BY NoneAssumption DEF StepsTo, PresentationSteps

LEMMA NewQueue ==
  /\ QueueTyped(createPresentationQueue) /\ Played(createPresentationQueue) = <<>>
  /\ createPresentationQueue.lastQueued = 0 /\ createPresentationQueue.concealed = {}
<1> DEFINE q == createPresentationQueue
<1>1. /\ q.active = None /\ q.pending = <<>> /\ q.shown = <<>>
      /\ q.lastQueued = 0 /\ q.lastCompleted = 0 /\ q.concealed = {}
  BY DEF createPresentationQueue
<1>2. QueueTyped(q)
  <2> HIDE DEF q
  <2>1. <<>> \in Seq(StepsTo(0)) /\ <<>> \in Seq(PresentationSteps)
    BY EmptySeq
  <2> QED BY <1>1, <2>1 DEF QueueTyped, q
<1>3. Played(q) = <<>>
  <2> HIDE DEF q
  <2>1. <<>> \o <<>> = <<>>
    OBVIOUS
  <2> QED BY <1>1, <2>1 DEF Played, Steps
<1> QED BY <1>1, <1>2, <1>3

LEMMA StepsRegroup ==
  \A x, y, z \in Seq(PresentationSteps) : (x \o y) \o z = x \o (y \o z)
BY ConcatAssociative

LEMMA CompletingTypes ==
  ASSUME NEW q, QueueTyped(q), NEW steps \in Seq(StepsTo(q.lastQueued))
  PROVE  LET w == Completed(q, steps) IN
         /\ DOMAIN w = DOMAIN createPresentationQueue
         /\ w.shown = q.shown \o steps /\ w.shown \in Seq(PresentationSteps)
         /\ w.active = q.active /\ w.pending = q.pending /\ w.concealed = q.concealed
         /\ w.lastQueued = q.lastQueued /\ w.lastCompleted \in 0..q.lastQueued
<1> DEFINE n == q.lastQueued
           S == {q.lastCompleted} \cup {s.seq : s \in {x \in ToSet(steps) : x.last}}
           w == Completed(q, steps)
<1>1. n \in Nat /\ q.lastCompleted \in 0..n
  BY DEF QueueTyped
<1>2. S \in SUBSET (0..n) /\ S # {}
  <2>1. \A x \in ToSet(steps) : x \in StepsTo(n)
    BY DEF ToSet
  <2> QED BY <1>1, <2>1 DEF StepsTo
<1>3. Max(S) \in 0..n
  <2> HIDE DEF S, n
  <2> QED BY <1>1, <1>2, MaxIsThere
<1>4. /\ DOMAIN w = DOMAIN q
      /\ w.shown = q.shown \o steps /\ w.lastCompleted = Max(S)
      /\ w.active = q.active /\ w.pending = q.pending /\ w.concealed = q.concealed
      /\ w.lastQueued = q.lastQueued
  <2> HIDE DEF S
  <2>1. w = [q EXCEPT !.lastCompleted = Max(S), !.shown = q.shown \o steps]
    BY DEF Completed, S
  <2> HIDE DEF w
  <2> QED BY <2>1 DEF QueueTyped, createPresentationQueue
<1>5. q.shown \o steps \in Seq(PresentationSteps)
  <2>1. steps \in Seq(PresentationSteps)
    BY <1>1, StepsAreSteps, SeqMonotonic
  <2> QED BY <2>1, ConcatProperties DEF QueueTyped
<1> HIDE DEF w
<1> QED BY <1>3, <1>4, <1>5 DEF QueueTyped, w

LEMMA CompletingActive ==
  ASSUME NEW q, QueueTyped(q)
  PROVE  LET w == completeActiveStep(q) IN
         GoesOn(q, w) /\ w.active = None /\ w.concealed = q.concealed
<1> DEFINE w == completeActiveStep(q)
<1>1. CASE q.active = None
  BY <1>1 DEF completeActiveStep, GoesOn
<1>2. CASE q.active # None
  <2> DEFINE n == q.lastQueued
             a == <<q.active>>
             c == Completed(q, a)
  <2>1. q.active \in StepsTo(n) /\ n \in Nat
    BY <1>2 DEF QueueTyped
  <2>2. a \in Seq(StepsTo(n))
    BY <2>1
  <2>3. /\ DOMAIN c = DOMAIN createPresentationQueue
        /\ c.shown = q.shown \o a /\ c.shown \in Seq(PresentationSteps)
        /\ c.pending = q.pending /\ c.concealed = q.concealed
        /\ c.lastQueued = n /\ c.lastCompleted \in 0..n
    BY <2>2, CompletingTypes
  <2>4. w = [c EXCEPT !.active = None]
    BY <1>2 DEF completeActiveStep
  <2> HIDE DEF c, w, a
  <2>5. /\ DOMAIN w = DOMAIN createPresentationQueue /\ w.active = None
        /\ w.shown = q.shown \o a /\ w.shown \in Seq(PresentationSteps)
        /\ w.pending = q.pending /\ w.concealed = q.concealed
        /\ w.lastQueued = n /\ w.lastCompleted \in 0..n
    BY <2>3, <2>4 DEF createPresentationQueue
  <2>6. QueueTyped(w)
    BY <2>5 DEF QueueTyped
  <2>7. Played(w) = Played(q)
    <3>1. /\ q.shown \in Seq(PresentationSteps) /\ a \in Seq(PresentationSteps)
          /\ q.pending \in Seq(PresentationSteps)
      BY <2>1, <2>2, StepsAreSteps, SeqMonotonic DEF QueueTyped
    <3>2. <<>> \o q.pending = q.pending
      BY <3>1, ConcatEmptySeq
    <3>3. Played(w) = (q.shown \o a) \o q.pending
      BY <2>5, <3>2 DEF Played, Steps
    <3>4. Played(q) = q.shown \o (a \o q.pending)
      BY <1>2 DEF Played, Steps, a
    <3>5. (q.shown \o a) \o q.pending = q.shown \o (a \o q.pending)
      BY <3>1, StepsRegroup, Zenon
    <3> QED BY <3>3, <3>4, <3>5
  <2> QED BY <2>5, <2>6, <2>7 DEF GoesOn, w
<1> QED BY <1>1, <1>2

LEMMA SplitAt ==
  ASSUME NEW S, NEW p \in Seq(S), NEW i \in 1..Len(p)
  PROVE  /\ SubSeq(p, 1, i - 1) \in Seq(S) /\ SubSeq(p, i + 1, Len(p)) \in Seq(S)
         /\ <<p[i]>> \in Seq(S) /\ p[i] \in S
         /\ p = SubSeq(p, 1, i - 1) \o (<<p[i]>> \o SubSeq(p, i + 1, Len(p)))
<1> DEFINE n == Len(p)
           a == SubSeq(p, 1, i - 1)
           b == SubSeq(p, i + 1, n)
           x == <<p[i]>>
<1>1. n \in Nat /\ i \in Nat /\ 1 <= i /\ i <= n /\ \A k \in 1..n : p[k] \in S
  BY LenProperties
<1>2. /\ a \in Seq(S) /\ Len(a) = i - 1
      /\ \A k \in 1..(i - 1) : a[k] = p[k]
  <2>1. i - 1 \in Int /\ \A k \in 1..(i - 1) : p[k] \in S
    BY <1>1
  <2>2. /\ a \in Seq(S) /\ Len(a) = (IF 1 <= i - 1 THEN (i - 1) - 1 + 1 ELSE 0)
        /\ \A k \in 1..((i - 1) - 1 + 1) : a[k] = p[1 + k - 1]
    BY <2>1, SubSeqProperties
  <2>3. \A k \in 1..(i - 1) : 1 + k - 1 = k /\ k \in 1..((i - 1) - 1 + 1)
    BY <1>1
  <2> HIDE DEF a
  <2> QED BY <1>1, <2>2, <2>3
<1>3. /\ b \in Seq(S) /\ Len(b) = n - i
      /\ \A k \in 1..(n - i) : b[k] = p[i + k]
  <2>1. i + 1 \in Int /\ n \in Int /\ \A k \in (i + 1)..n : p[k] \in S
    BY <1>1
  <2>2. /\ b \in Seq(S) /\ Len(b) = (IF i + 1 <= n THEN n - (i + 1) + 1 ELSE 0)
        /\ \A k \in 1..(n - (i + 1) + 1) : b[k] = p[(i + 1) + k - 1]
    BY <2>1, SubSeqProperties
  <2>3. \A k \in 1..(n - i) : (i + 1) + k - 1 = i + k /\ k \in 1..(n - (i + 1) + 1)
    BY <1>1
  <2> HIDE DEF b, n
  <2> QED BY <1>1, <2>2, <2>3
<1>4. x \in Seq(S) /\ Len(x) = 1 /\ x[1] = p[i] /\ p[i] \in S
  BY <1>1
<1> HIDE DEF a, b, x, n
<1>5. /\ x \o b \in Seq(S) /\ Len(x \o b) = 1 + (n - i)
      /\ \A k \in 1..(1 + (n - i)) : (x \o b)[k] = IF k <= 1 THEN x[k] ELSE b[k - 1]
  <2>1. /\ x \o b \in Seq(S) /\ Len(x \o b) = Len(x) + Len(b)
        /\ \A k \in 1..(Len(x) + Len(b)) :
             (x \o b)[k] = IF k <= Len(x) THEN x[k] ELSE b[k - Len(x)]
    BY <1>3, <1>4, ConcatProperties
  <2> QED BY <1>1, <1>3, <1>4, <2>1
<1>6. /\ a \o (x \o b) \in Seq(S) /\ Len(a \o (x \o b)) = n
      /\ \A k \in 1..n : (a \o (x \o b))[k] = IF k <= i - 1 THEN a[k] ELSE (x \o b)[k - (i - 1)]
  <2>1. /\ a \o (x \o b) \in Seq(S) /\ Len(a \o (x \o b)) = Len(a) + Len(x \o b)
        /\ \A k \in 1..(Len(a) + Len(x \o b)) :
             (a \o (x \o b))[k] = IF k <= Len(a) THEN a[k] ELSE (x \o b)[k - Len(a)]
    BY <1>2, <1>5, ConcatProperties
  <2>2. Len(a) + Len(x \o b) = n
    BY <1>1, <1>2, <1>5
  <2> QED BY <1>2, <2>1, <2>2
<1>7. \A k \in 1..n : p[k] = (a \o (x \o b))[k]
  <2> SUFFICES ASSUME NEW k \in 1..n
               PROVE  p[k] = (a \o (x \o b))[k]
    OBVIOUS
  <2>1. CASE k <= i - 1
    BY <1>1, <1>2, <1>6, <2>1
  <2>2. CASE k = i
    <3>1. k - (i - 1) = 1 /\ ~(k <= i - 1) /\ 1 \in 1..(1 + (n - i))
      BY <1>1, <2>2
    <3>2. (x \o b)[1] = x[1]
      BY <1>5, <3>1
    <3> QED BY <1>4, <1>6, <2>2, <3>1, <3>2
  <2>3. CASE k > i
    <3> DEFINE j == k - (i - 1)
    <3>1. j \in 1..(1 + (n - i)) /\ ~(j <= 1) /\ j - 1 \in 1..(n - i) /\ i + (j - 1) = k
            /\ ~(k <= i - 1)
      BY <1>1, <2>3
    <3>2. (a \o (x \o b))[k] = (x \o b)[j]
      BY <1>6, <3>1
    <3> HIDE DEF j
    <3>3. (x \o b)[j] = b[j - 1]
      BY <1>5, <3>1
    <3>4. b[j - 1] = p[i + (j - 1)]
      BY <1>3, <3>1
    <3> QED BY <3>1, <3>2, <3>3, <3>4
  <2>4. k <= i - 1 \/ k = i \/ k > i
    BY <1>1
  <2> QED BY <2>1, <2>2, <2>3, <2>4
<1>8. p = a \o (x \o b)
  BY <1>1, <1>6, <1>7, SeqEqual DEF n
<1> QED BY <1>2, <1>3, <1>4, <1>8 DEF a, b, x, n

LEMMA WholeAndRest ==
  ASSUME NEW S, NEW p \in Seq(S)
  PROVE  SubSeq(p, 1, Len(p)) = p /\ SubSeq(p, Len(p) + 2, Len(p)) = <<>>
<1> DEFINE n == Len(p)
           a == SubSeq(p, 1, n)
           b == SubSeq(p, n + 2, n)
<1>1. n \in Nat /\ \A k \in 1..n : p[k] \in S
  BY LenProperties
<1>2. /\ a \in Seq(S) /\ Len(a) = (IF 1 <= n THEN n - 1 + 1 ELSE 0)
      /\ \A k \in 1..(n - 1 + 1) : a[k] = p[1 + k - 1]
  BY <1>1, SubSeqProperties
<1>3. b \in Seq(S) /\ Len(b) = (IF n + 2 <= n THEN n - (n + 2) + 1 ELSE 0)
  BY <1>1, SubSeqProperties
<1> HIDE DEF a, b
<1>4. Len(a) = n /\ Len(b) = 0
  BY <1>1, <1>2, <1>3
<1>5. \A k \in 1..n : a[k] = p[k]
  <2>1. \A k \in 1..n : k \in 1..(n - 1 + 1) /\ 1 + k - 1 = k
    BY <1>1
  <2> QED BY <1>2, <2>1
<1>6. a = p
  BY <1>2, <1>4, <1>5, SeqEqual
<1>7. b = <<>>
  BY <1>3, <1>4, EmptySeq
<1> QED BY <1>6, <1>7 DEF a, b

(* The step that is started is there: the first that lasts, or one past the   *)
(* last.                                                                     *)
LEMMA NextIsThere ==
  ASSUME NEW p, Len(p) \in Nat
  PROVE  LET n == Len(p)
             next == CHOOSE i \in 1..(n + 1) :
                       /\ \A j \in 1..(i - 1) : ~p[j].lasts
                       /\ i <= n => p[i].lasts
         IN next \in 1..(n + 1)
<1> DEFINE n == Len(p)
           E == {i \in 1..n : p[i].lasts} \cup {n + 1}
           m == Min(E)
<1>1. E \in SUBSET Nat /\ E # {} /\ \A i \in E : i \in 1..(n + 1)
  OBVIOUS
<1>2. m \in E /\ \A i \in E : m <= i
  <2> HIDE DEF E
  <2> QED BY <1>1, MinIsThere
<1>3. m \in 1..(n + 1)
  BY <1>1, <1>2
<1> HIDE DEF m
<1>4. \A j \in 1..(m - 1) : ~p[j].lasts
  <2> SUFFICES ASSUME NEW j \in 1..(m - 1), p[j].lasts
               PROVE  FALSE
    OBVIOUS
  <2>1. j \in 1..n /\ j < m
    BY <1>3
  <2>2. j \in E
    BY <2>1
  <2> QED BY <1>2, <1>3, <2>1, <2>2
<1>5. m <= n => p[m].lasts
  BY <1>2, <1>3
<1> QED BY <1>3, <1>4, <1>5

LEMMA StartingNext ==
  ASSUME NEW q, QueueTyped(q)
  PROVE  GoesOn(q, startNextStep(q)) /\ startNextStep(q).concealed = q.concealed
<1> DEFINE p == q.pending
           n == Len(p)
           T == StepsTo(q.lastQueued)
           next == CHOOSE i \in 1..(n + 1) :
                     /\ \A j \in 1..(i - 1) : ~p[j].lasts
                     /\ i <= n => p[i].lasts
           w == startNextStep(q)
<1>1. /\ p \in Seq(T) /\ n \in Nat /\ q.lastQueued \in Nat
      /\ p \in Seq(PresentationSteps) /\ q.shown \in Seq(PresentationSteps)
  <2>1. p \in Seq(T) /\ q.lastQueued \in Nat /\ q.shown \in Seq(PresentationSteps)
    BY DEF QueueTyped
  <2> QED BY <2>1, StepsAreSteps, SeqMonotonic, LenProperties
<1>2. CASE q.active # None \/ n = 0
  BY <1>2 DEF startNextStep, GoesOn
<1>3. CASE q.active = None /\ n # 0
  <2> DEFINE a == SubSeq(p, 1, next - 1)
             b == SubSeq(p, next + 1, n)
             c == Completed(q, a)
             x == IF next > n THEN None ELSE p[next]
  <2>1. next \in 1..(n + 1)
    BY <1>1, NextIsThere
  <2>2. w = [c EXCEPT !.active = x, !.pending = b]
    BY <1>3 DEF startNextStep
  <2> HIDE DEF next
  <2>3. /\ a \in Seq(T) /\ b \in Seq(T) /\ x \in T \cup {None}
        /\ p = a \o ((IF x = None THEN <<>> ELSE <<x>>) \o b)
    <3>1. CASE next > n
      <4>1. next = n + 1 /\ next - 1 = n /\ next + 1 = n + 2
        BY <1>1, <2>1, <3>1
      <4>2. a = p /\ b = <<>>
        BY <1>1, <4>1, WholeAndRest
      <4>3. x = None
        BY <3>1
      <4>4. <<>> \in Seq(T) /\ p \o <<>> = p /\ <<>> \o <<>> = <<>>
        BY <1>1, EmptySeq, ConcatEmptySeq
      <4> HIDE DEF a, b, x, p
      <4> QED BY <1>1, <4>2, <4>3, <4>4
    <3>2. CASE ~(next > n)
      <4>1. next \in 1..n
        BY <1>1, <2>1, <3>2
      <4>2. /\ a \in Seq(T) /\ b \in Seq(T) /\ p[next] \in T
            /\ p = a \o (<<p[next]>> \o b)
        BY <1>1, <4>1, SplitAt
      <4>3. x = p[next] /\ x # None
        BY <1>1, <3>2, <4>2, StepsAreSteps
      <4> HIDE DEF a, b, x, p
      <4> QED BY <4>2, <4>3
    <3> QED BY <3>1, <3>2
  <2>4. /\ DOMAIN c = DOMAIN createPresentationQueue
        /\ c.shown = q.shown \o a /\ c.shown \in Seq(PresentationSteps)
        /\ c.concealed = q.concealed
        /\ c.lastQueued = q.lastQueued /\ c.lastCompleted \in 0..q.lastQueued
    BY <2>3, CompletingTypes
  <2> HIDE DEF a, b, c, x, w
  <2>5. /\ DOMAIN w = DOMAIN createPresentationQueue
        /\ w.active = x /\ w.pending = b
        /\ w.shown = q.shown \o a /\ w.shown \in Seq(PresentationSteps)
        /\ w.concealed = q.concealed
        /\ w.lastQueued = q.lastQueued /\ w.lastCompleted \in 0..q.lastQueued
    BY <2>2, <2>4 DEF createPresentationQueue
  <2>6. QueueTyped(w)
    BY <1>1, <2>3, <2>5 DEF QueueTyped
  <2>7. Played(w) = Played(q)
    <3> DEFINE rest == (IF x = None THEN <<>> ELSE <<x>>) \o b
    <3>1. rest \in Seq(PresentationSteps) /\ a \in Seq(PresentationSteps)
      <4>1. (IF x = None THEN <<>> ELSE <<x>>) \in Seq(T)
        <5> HIDE DEF T
        <5>1. <<>> \in Seq(T) /\ (x # None => <<x>> \in Seq(T))
          BY <2>3
        <5> QED BY <5>1
      <4>2. rest \in Seq(T)
        BY <2>3, <4>1, ConcatProperties
      <4> QED BY <1>1, <2>3, <4>2, StepsAreSteps, SeqMonotonic
    <3>2. Played(w) = (q.shown \o a) \o rest
      BY <2>5 DEF Played, Steps
    <3>3. <<>> \o p = p
      BY <1>1, ConcatEmptySeq
    <3>4. Played(q) = q.shown \o p
      BY <1>3, <3>3 DEF Played, Steps
    <3> HIDE DEF rest
    <3>5. (q.shown \o a) \o rest = q.shown \o (a \o rest)
      BY <1>1, <3>1, StepsRegroup, Zenon
    <3>6. p = a \o rest
      BY <2>3 DEF rest
    <3> QED BY <3>2, <3>4, <3>5, <3>6
  <2> QED BY <2>5, <2>6, <2>7 DEF GoesOn, w
<1> QED BY <1>2, <1>3

LEMMA Revealing ==
  ASSUME NEW q, QueueTyped(q)
  PROVE  LET w == revealConcealedCardsWhenSettled(q) IN
         /\ GoesOn(q, w) /\ w.active = q.active /\ w.pending = q.pending
         /\ w.concealed # {} => ~isPresentationSettled(w) /\ w.concealed = q.concealed
<1> DEFINE w == revealConcealedCardsWhenSettled(q)
<1>1. CASE isPresentationSettled(q)
  <2>1. w = [q EXCEPT !.concealed = {}]
    BY <1>1 DEF revealConcealedCardsWhenSettled
  <2> HIDE DEF w
  <2>2. /\ DOMAIN w = DOMAIN createPresentationQueue
        /\ w.active = q.active /\ w.pending = q.pending /\ w.shown = q.shown
        /\ w.concealed = {} /\ w.lastQueued = q.lastQueued
        /\ w.lastCompleted = q.lastCompleted
    BY <2>1 DEF QueueTyped, createPresentationQueue
  <2>3. QueueTyped(w) /\ Played(w) = Played(q)
    BY <2>2 DEF QueueTyped, Played, Steps
  <2> QED BY <2>2, <2>3 DEF GoesOn, w
<1>2. CASE ~isPresentationSettled(q)
  BY <1>2 DEF revealConcealedCardsWhenSettled, GoesOn
<1> QED BY <1>1, <1>2

LEMMA GoesOnFurther ==
  ASSUME NEW q, NEW w, NEW v, GoesOn(q, w), GoesOn(w, v)
  PROVE  GoesOn(q, v)
BY DEF GoesOn

LEMMA Advancing ==
  ASSUME NEW q, QueueTyped(q), NEW timeIsUp \in BOOLEAN
  PROVE  LET w == advancePresentationClock(q, timeIsUp) IN
         GoesOn(q, w) /\ (w.concealed # {} => ~isPresentationSettled(w))
<1> DEFINE v == IF q.active = None THEN startNextStep(q)
                ELSE IF timeIsUp THEN startNextStep(completeActiveStep(q))
                ELSE q
<1>1. GoesOn(q, v)
  <2>1. GoesOn(q, completeActiveStep(q)) /\ QueueTyped(completeActiveStep(q))
    BY CompletingActive DEF GoesOn
  <2>2. GoesOn(completeActiveStep(q), startNextStep(completeActiveStep(q)))
    BY <2>1, StartingNext
  <2>3. GoesOn(q, startNextStep(completeActiveStep(q)))
    BY <2>1, <2>2, GoesOnFurther
  <2>4. GoesOn(q, startNextStep(q)) /\ GoesOn(q, q)
    BY StartingNext DEF GoesOn
  <2> QED BY <2>3, <2>4
<1>2. advancePresentationClock(q, timeIsUp) = revealConcealedCardsWhenSettled(v)
  BY DEF advancePresentationClock
<1> HIDE DEF v
<1>3. QueueTyped(v)
  BY <1>1 DEF GoesOn
<1> QED BY <1>1, <1>2, <1>3, Revealing, GoesOnFurther

(* Later events come after earlier ones.                                      *)
Rising(events) ==
  \A i, j \in 1..Len(events) : i < j => events[i].seq < events[j].seq

LEMMA WiderEvents ==
  ASSUME NEW m \in Nat, NEW n \in Nat, m <= n
  PROVE  Seq(Events(m)) \subseteq Seq(Events(n)) /\ Seq(StepsTo(m)) \subseteq Seq(StepsTo(n))
<1>1. Events(m) \subseteq Events(n) /\ StepsTo(m) \subseteq StepsTo(n)
  BY DEF Events, StepsTo
<1> QED BY <1>1, SeqMonotonic

LEMMA LastIsLatest ==
  ASSUME NEW n \in Nat, NEW events \in Seq(Events(n)), Rising(events), events # <<>>
  PROVE  Last(events).seq \in 1..n /\ events \in Seq(Events(Last(events).seq))
<1> DEFINE k == Len(events)
           l == Last(events).seq
<1>1. k \in Nat /\ k # 0 /\ \A i \in 1..k : events[i] \in Events(n)
  BY EmptySeq, LenProperties
<1>2. k \in 1..k /\ l = events[k].seq
  BY <1>1 DEF Last
<1>3. l \in 1..n
  BY <1>1, <1>2 DEF Events
<1>4. \A i \in 1..k : events[i] \in Events(l)
  <2> SUFFICES ASSUME NEW i \in 1..k
               PROVE  events[i] \in Events(l)
    OBVIOUS
  <2>1. i < k \/ i = k
    BY <1>1
  <2>2. events[i] \in [seq : 1..n, kind : Kinds]
    BY <1>1 DEF Events
  <2>3. i < k => events[i].seq < events[k].seq
    BY <1>2 DEF Rising
  <2>4. events[i].seq \in Nat /\ events[i].seq >= 1 /\ events[i].seq <= l
    BY <1>2, <1>3, <2>1, <2>2, <2>3
  <2> HIDE DEF l
  <2> QED BY <1>3, <2>2, <2>4 DEF Events
<1>5. events = [i \in 1..k |-> events[i]]
  BY <1>1
<1> HIDE DEF l
<1>6. events \in [1..k -> Events(l)]
  BY <1>4, <1>5
<1>7. events \in Seq(Events(l))
  BY <1>1, <1>6
<1> QED BY <1>3, <1>7 DEF l

(* What is enqueued goes to the end of all that is played.                    *)
LEMMA Enqueuing ==
  ASSUME NEW q, QueueTyped(q), NEW timeIsUp \in BOOLEAN,
         NEW n \in Nat, q.lastQueued <= n,
         NEW events \in Seq([seq : (q.lastQueued + 1)..n, kind : Kinds]), Rising(events)
  PROVE  LET w == enqueuePresentationEvents(q, events, timeIsUp) IN
         /\ QueueTyped(w) /\ Played(w) = Played(q) \o StepsOf(events)
         /\ w.lastQueued <= n
         /\ w.concealed # {} => ~isPresentationSettled(w)
<1> DEFINE v == advancePresentationClock(q, timeIsUp)
           new == Kept(events, Later(v.lastQueued))
           pending == v.pending \o StepsOf(new)
           granted == {e.seq : e \in {x \in ToSet(new) : x.kind = "GRANT"}}
           hidden == v.concealed \cup IF v.active # None \/ pending # <<>> THEN granted ELSE {}
           last == IF new = <<>> THEN v.lastQueued ELSE Last(new).seq
           u == [v EXCEPT !.pending = pending, !.concealed = hidden, !.lastQueued = last]
           w == enqueuePresentationEvents(q, events, timeIsUp)
<1>1. GoesOn(q, v) /\ QueueTyped(v) /\ v.lastQueued = q.lastQueued /\ q.lastQueued \in Nat
      /\ Played(v) = Played(q)
  BY Advancing DEF GoesOn, QueueTyped
<1>2. w = revealConcealedCardsWhenSettled(startNextStep(u))
  BY DEF enqueuePresentationEvents
<1> HIDE DEF v
<1>3. new = events
  <2> DEFINE S == [seq : (q.lastQueued + 1)..n, kind : Kinds]
             K == Later(v.lastQueued)
  <2>1. S \subseteq K
    BY <1>1 DEF Later
  <2>2. events \in Seq(S)
    OBVIOUS
  <2> HIDE DEF S, K
  <2>3. Kept(events, K) = events
    BY <2>1, <2>2, KeptWhole
  <2> QED BY <2>3 DEF K
<1> HIDE DEF new
<1>4. events \in Seq(Events(n))
  <2>1. [seq : (q.lastQueued + 1)..n, kind : Kinds] \subseteq Events(n)
    BY <1>1 DEF Events
  <2> QED BY <2>1, SeqMonotonic
<1>5. last \in Nat /\ v.lastQueued <= last /\ last <= n /\ events \in Seq(Events(last))
  <2>1. CASE events = <<>>
    <3>1. <<>> \in Seq(Events(last))
      BY EmptySeq
    <3> QED BY <1>1, <1>3, <2>1, <3>1
  <2>2. CASE events # <<>>
    <3>1. last = Last(events).seq
      BY <1>3, <2>2
    <3>2. Last(events).seq \in 1..n /\ events \in Seq(Events(Last(events).seq))
      BY <1>4, <2>2, LastIsLatest
    <3>3. Last(events).seq >= q.lastQueued + 1
      <4> DEFINE k == Len(events)
                 S == [seq : (q.lastQueued + 1)..n, kind : Kinds]
      <4>1. k \in Nat /\ k # 0 /\ \A i \in 1..k : events[i] \in S
        BY <2>2, EmptySeq, LenProperties
      <4>2. k \in 1..k /\ events[k] \in S
        BY <4>1
      <4>3. Last(events) = events[k]
        BY DEF Last
      <4>4. events[k].seq \in (q.lastQueued + 1)..n
        BY <4>2
      <4> HIDE DEF k, S
      <4> QED BY <1>1, <4>3, <4>4
    <3> QED BY <1>1, <3>1, <3>2, <3>3
  <2> QED BY <2>1, <2>2
<1>6. StepsOf(events) \in Seq(StepsTo(last))
  BY <1>5, EventsHaveSteps
<1> HIDE DEF last
<1>7. pending \in Seq(StepsTo(last)) /\ pending = v.pending \o StepsOf(events)
  <2>1. v.pending \in Seq(StepsTo(last))
    BY <1>1, <1>5, WiderEvents DEF QueueTyped
  <2>2. pending = v.pending \o StepsOf(events)
    BY <1>3
  <2> HIDE DEF pending
  <2> QED BY <1>6, <2>1, <2>2, ConcatProperties
<1> HIDE DEF pending, granted, hidden
<1>8. /\ DOMAIN u = DOMAIN createPresentationQueue
      /\ u.active = v.active /\ u.pending = pending /\ u.shown = v.shown
      /\ u.lastQueued = last /\ u.lastCompleted = v.lastCompleted
  <2>1. DOMAIN v = DOMAIN createPresentationQueue
    BY <1>1 DEF QueueTyped
  <2> QED BY <2>1 DEF createPresentationQueue
<1> HIDE DEF u
<1>9. QueueTyped(u)
  <2>1. StepsTo(v.lastQueued) \subseteq StepsTo(last) /\ v.lastCompleted \in 0..last
    BY <1>1, <1>5 DEF StepsTo, QueueTyped
  <2> QED BY <1>1, <1>5, <1>7, <1>8, <2>1 DEF QueueTyped
<1>10. Played(u) = Played(q) \o StepsOf(events)
  <2> DEFINE a == IF v.active = None THEN <<>> ELSE <<v.active>>
             z == StepsOf(events)
             b == v.pending
             s == v.shown
             T == PresentationSteps
  <2>1. a \in Seq(T) /\ b \in Seq(T) /\ z \in Seq(T) /\ s \in Seq(T)
    <3> DEFINE V == StepsTo(v.lastQueued)
    <3>1. V \subseteq T /\ Seq(V) \subseteq Seq(T)
      BY <1>1, StepsAreSteps, SeqMonotonic
    <3>2. v.active \in V \cup {None} /\ b \in Seq(V) /\ s \in Seq(T)
      BY <1>1 DEF QueueTyped
    <3>3. z \in Seq(T)
      BY <1>5, <1>6, StepsAreSteps, SeqMonotonic
    <3> HIDE DEF T, V, z, b, s
    <3>4. <<>> \in Seq(T) /\ (v.active # None => <<v.active>> \in Seq(T))
      BY <3>1, <3>2
    <3> QED BY <3>1, <3>2, <3>3, <3>4
  <2>2. Played(u) = s \o (a \o (b \o z)) /\ Played(v) = s \o (a \o b)
    BY <1>7, <1>8 DEF Played, Steps
  <2> HIDE DEF a, z, b, s, T
  <2>3. a \o b \in Seq(T)
    BY <2>1, ConcatProperties
  <2>4. a \o (b \o z) = (a \o b) \o z
    BY <2>1, StepsRegroup, Zenon DEF T
  <2>5. s \o ((a \o b) \o z) = (s \o (a \o b)) \o z
    BY <2>1, <2>3, StepsRegroup, Zenon DEF T
  <2>6. Played(u) = Played(q) \o z
    BY <1>1, <2>2, <2>4, <2>5
  <2> QED BY <2>6 DEF z
<1> DEFINE x == startNextStep(u)
<1>11. GoesOn(u, x) /\ QueueTyped(x)
  BY <1>9, StartingNext DEF GoesOn
<1> HIDE DEF x
<1>12. w = revealConcealedCardsWhenSettled(x)
  BY <1>2 DEF x
<1> HIDE DEF w
<1>13. GoesOn(x, w) /\ (w.concealed # {} => ~isPresentationSettled(w))
  BY <1>11, <1>12, Revealing
<1> QED BY <1>5, <1>8, <1>10, <1>11, <1>13 DEF GoesOn, w

LEMMA Replacing ==
  ASSUME NEW n \in Nat, NEW events \in Seq(Events(n)), Rising(events),
         NEW over \in BOOLEAN, NEW timeIsUp \in BOOLEAN
  PROVE  LET w == replacePresentationFromSnapshot(events, over, timeIsUp) IN
         /\ QueueTyped(w) /\ Played(w) = StepsOf(IF over THEN <<>> ELSE events)
         /\ w.lastQueued <= n
         /\ w.concealed # {} => ~isPresentationSettled(w)
<1> DEFINE c == createPresentationQueue
           S == {0} \cup {e.seq : e \in ToSet(events)}
           l == Max(S)
           w == replacePresentationFromSnapshot(events, over, timeIsUp)
<1>1. QueueTyped(c) /\ Played(c) = <<>> /\ c.lastQueued = 0
  BY NewQueue
<1>2. l \in 0..n
  <2>1. \A e \in ToSet(events) : e \in Events(n)
    BY DEF ToSet
  <2>2. S \in SUBSET (0..n) /\ S # {}
    BY <2>1 DEF Events
  <2> HIDE DEF S
  <2> QED BY <2>2, MaxIsThere
<1> HIDE DEF l
<1>3. CASE over
  <2>1. w = [c EXCEPT !.lastQueued = l, !.lastCompleted = l]
    BY <1>3 DEF replacePresentationFromSnapshot, l
  <2> HIDE DEF w
  <2>2. /\ DOMAIN w = DOMAIN createPresentationQueue
        /\ w.active = None /\ w.pending = <<>> /\ w.shown = <<>> /\ w.concealed = {}
        /\ w.lastQueued = l /\ w.lastCompleted = l
    BY <2>1 DEF createPresentationQueue
  <2>3. QueueTyped(w)
    <3>1. <<>> \in Seq(StepsTo(l)) /\ <<>> \in Seq(PresentationSteps)
      BY EmptySeq
    <3>2. l \in Nat /\ l \in 0..l
      BY <1>2
    <3> QED BY <2>2, <3>1, <3>2 DEF QueueTyped
  <2>4. Played(w) = <<>>
    <3>1. <<>> \o <<>> = <<>>
      OBVIOUS
    <3> QED BY <2>2, <3>1 DEF Played, Steps
  <2>5. StepsOf(IF over THEN <<>> ELSE events) = <<>>
    BY <1>3, StepsOfNothing
  <2>6. w.lastQueued <= n
    BY <1>2, <2>2
  <2> QED BY <2>2, <2>3, <2>4, <2>5, <2>6 DEF w
<1>4. CASE ~over
  <2> HIDE DEF c
  <2>1. w = enqueuePresentationEvents(c, events, timeIsUp)
    BY <1>4 DEF replacePresentationFromSnapshot, c
  <2>2. c.lastQueued <= n /\ events \in Seq([seq : (c.lastQueued + 1)..n, kind : Kinds])
    BY <1>1 DEF Events
  <2> HIDE DEF w
  <2>3. /\ QueueTyped(w) /\ Played(w) = Played(c) \o StepsOf(events)
        /\ w.lastQueued <= n
        /\ w.concealed # {} => ~isPresentationSettled(w)
    BY <1>1, <2>1, <2>2, Enqueuing
  <2>4. <<>> \o StepsOf(events) = StepsOf(events)
    BY EventsHaveSteps, ConcatEmptySeq
  <2> QED BY <1>1, <1>4, <2>3, <2>4 DEF w
<1> QED BY <1>3, <1>4

-----------------------------------------------------------------------------
(* The events of a log *)

LEMMA RisingKept ==
  ASSUME NEW n \in Nat, NEW events \in Seq(Events(n)), Rising(events), NEW set
  PROVE  Rising(Kept(events, set))
<1> DEFINE S == Events(n)
           P == {t \in Seq(S) : Rising(t) => Rising(Kept(t, set))}
<1>1. <<>> \in P
  <2>1. Kept(<<>>, set) = <<>> /\ Rising(<<>>) /\ <<>> \in Seq(S)
    BY KeptOfNothing, EmptySeq DEF Rising
  <2> QED BY <2>1
<1>2. ASSUME NEW t \in Seq(S), NEW x \in S, t \in P
      PROVE  Append(t, x) \in P
  <2> DEFINE a == Append(t, x)
             k == Kept(t, set)
             m == Len(t)
  <2> SUFFICES ASSUME Rising(a)
               PROVE  Rising(Kept(a, set))
    <3>1. Append(t, x) \in Seq(S)
      BY AppendProperties
    <3> QED BY <3>1
  <2>1. /\ m \in Nat /\ Len(a) = m + 1 /\ a[m + 1] = x
        /\ \A i \in 1..m : a[i] = t[i]
    BY AppendProperties
  <2>2. Kept(a, set) = IF x \in set THEN Append(k, x) ELSE k
    BY KeptOfAppend
  <2> HIDE DEF a
  <2>3. Rising(t)
    BY <2>1 DEF Rising
  <2>4. Rising(k)
    BY <1>2, <2>3
  <2>5. \A i \in 1..m : t[i].seq < x.seq
    BY <2>1 DEF Rising
  <2>6. CASE x \in set
    <3> DEFINE R == {t[i] : i \in 1..m}
               l == Len(k)
               b == Append(k, x)
    <3>1. t \in Seq(R) /\ R \subseteq S
      <4>1. t = [i \in 1..m |-> t[i]] /\ \A i \in 1..m : t[i] \in S
        OBVIOUS
      <4>2. t \in [1..m -> R]
        BY <4>1
      <4> QED BY <2>1, <4>1, <4>2
    <3> HIDE DEF R
    <3>2. k \in Seq(R \cap set)
      BY <3>1, KeptIsSequence
    <3>3. R \cap set \subseteq S
      BY <3>1
    <3>4. k \in Seq(S) /\ l \in Nat /\ \A i \in 1..l : k[i] \in R
      BY <3>2, <3>3, SeqMonotonic, LenProperties
    <3>5. \A i \in 1..l : k[i].seq < x.seq
      BY <2>5, <3>4 DEF R
    <3>6. Len(b) = l + 1 /\ b[l + 1] = x /\ \A i \in 1..l : b[i] = k[i]
      BY <3>4, AppendProperties
    <3> HIDE DEF b, k
    <3>7. Rising(b)
      <4> SUFFICES ASSUME NEW i \in 1..(l + 1), NEW j \in 1..(l + 1), i < j
                   PROVE  b[i].seq < b[j].seq
        BY <3>6 DEF Rising
      <4>1. i \in 1..l
        BY <3>4
      <4>2. CASE j = l + 1
        BY <3>5, <3>6, <4>1, <4>2
      <4>3. CASE j # l + 1
        <5>1. j \in 1..l
          BY <3>4, <4>3
        <5>2. k[i].seq < k[j].seq
          BY <2>4, <4>1, <5>1 DEF Rising
        <5> QED BY <3>6, <4>1, <5>1, <5>2
      <4> QED BY <4>2, <4>3
    <3> QED BY <2>2, <2>6, <3>7 DEF b, k
  <2>7. CASE x \notin set
    BY <2>2, <2>4, <2>7
  <2> QED BY <2>6, <2>7
<1> HIDE DEF P
<1>3. Seq(S) \subseteq P
  BY <1>1, <1>2, SequenceInduction
<1> QED BY <1>3 DEF P

LEMMA EventsOfLog ==
  ASSUME NEW kinds \in Seq(Kinds), NEW from \in Nat, NEW upto \in Nat,
         from <= upto, upto <= Len(kinds)
  PROVE  LET events == EventsOf(kinds, from, upto) IN
         /\ events \in Seq([seq : (from + 1)..upto, kind : Kinds])
         /\ Len(events) = upto - from /\ Rising(events)
         /\ \A i \in 1..(upto - from) :
              events[i] = [seq |-> from + i, kind |-> kinds[from + i]]
<1> DEFINE events == EventsOf(kinds, from, upto)
           m == upto - from
           S == [seq : (from + 1)..upto, kind : Kinds]
<1>1. /\ m \in Nat /\ Len(kinds) \in Nat
      /\ events = [i \in 1..m |-> [seq |-> from + i, kind |-> kinds[from + i]]]
  BY LenProperties DEF EventsOf, Event
<1>2. \A i \in 1..m : [seq |-> from + i, kind |-> kinds[from + i]] \in S
  <2> SUFFICES ASSUME NEW i \in 1..m
               PROVE  [seq |-> from + i, kind |-> kinds[from + i]] \in S
    OBVIOUS
  <2>1. from + i \in 1..Len(kinds) /\ from + i \in (from + 1)..upto
    BY <1>1
  <2>2. kinds[from + i] \in Kinds
    BY <2>1
  <2> QED BY <2>1, <2>2
<1> HIDE DEF m, S
<1>3. events \in [1..m -> S]
  BY <1>1, <1>2
<1> HIDE DEF events
<1>4. events \in Seq(S)
  <2>1. m \in Nat
    BY <1>1
  <2> QED BY <1>3, <2>1
<1>5. Len(events) = m
  BY <1>1, <1>3, <1>4, LenProperties
<1>6. \A i \in 1..m : events[i] = [seq |-> from + i, kind |-> kinds[from + i]]
  BY <1>1
<1>7. Rising(events)
  BY <1>1, <1>5, <1>6 DEF Rising
<1> QED BY <1>4, <1>5, <1>6, <1>7 DEF events, m, S

LEMMA EventsOfGrown ==
  ASSUME NEW kinds \in Seq(Kinds), NEW more \in Seq(Kinds), NEW from \in Nat,
         NEW upto \in Nat, from <= upto, upto <= Len(kinds)
  PROVE  EventsOf(kinds \o more, from, upto) = EventsOf(kinds, from, upto)
<1> DEFINE m == upto - from
<1>1. m \in Nat /\ \A i \in 1..m : from + i \in 1..Len(kinds)
  BY LenProperties
<1>2. \A j \in 1..Len(kinds) : (kinds \o more)[j] = kinds[j]
  BY ConcatProperties, LenProperties
<1>3. \A i \in 1..m : (kinds \o more)[from + i] = kinds[from + i]
  BY <1>1, <1>2
<1> QED BY <1>3 DEF EventsOf, Event

LEMMA EventsOfJoin ==
  ASSUME NEW kinds \in Seq(Kinds), NEW from \in Nat, NEW mid \in Nat, NEW upto \in Nat,
         from <= mid, mid <= upto, upto <= Len(kinds)
  PROVE  EventsOf(kinds, from, upto) = EventsOf(kinds, from, mid) \o EventsOf(kinds, mid, upto)
<1> DEFINE x == EventsOf(kinds, from, upto)
           a == EventsOf(kinds, from, mid)
           b == EventsOf(kinds, mid, upto)
           S == [seq : Nat, kind : Kinds]
<1>1. Len(kinds) \in Nat /\ mid <= Len(kinds) /\ from <= upto
  BY LenProperties
<1>2. /\ x \in Seq(S) /\ Len(x) = upto - from
      /\ \A i \in 1..(upto - from) : x[i] = [seq |-> from + i, kind |-> kinds[from + i]]
  <2>1. [seq : (from + 1)..upto, kind : Kinds] \subseteq S
    OBVIOUS
  <2>2. /\ x \in Seq([seq : (from + 1)..upto, kind : Kinds]) /\ Len(x) = upto - from
        /\ \A i \in 1..(upto - from) : x[i] = [seq |-> from + i, kind |-> kinds[from + i]]
    BY <1>1, EventsOfLog
  <2> HIDE DEF x, S
  <2> QED BY <2>1, <2>2, SeqMonotonic
<1>3. /\ a \in Seq(S) /\ Len(a) = mid - from
      /\ \A i \in 1..(mid - from) : a[i] = [seq |-> from + i, kind |-> kinds[from + i]]
  <2>1. [seq : (from + 1)..mid, kind : Kinds] \subseteq S
    OBVIOUS
  <2>2. /\ a \in Seq([seq : (from + 1)..mid, kind : Kinds]) /\ Len(a) = mid - from
        /\ \A i \in 1..(mid - from) : a[i] = [seq |-> from + i, kind |-> kinds[from + i]]
    BY <1>1, EventsOfLog
  <2> HIDE DEF a, S
  <2> QED BY <2>1, <2>2, SeqMonotonic
<1>4. /\ b \in Seq(S) /\ Len(b) = upto - mid
      /\ \A i \in 1..(upto - mid) : b[i] = [seq |-> mid + i, kind |-> kinds[mid + i]]
  <2>1. [seq : (mid + 1)..upto, kind : Kinds] \subseteq S
    OBVIOUS
  <2>2. /\ b \in Seq([seq : (mid + 1)..upto, kind : Kinds]) /\ Len(b) = upto - mid
        /\ \A i \in 1..(upto - mid) : b[i] = [seq |-> mid + i, kind |-> kinds[mid + i]]
    BY <1>1, EventsOfLog
  <2> HIDE DEF b, S
  <2> QED BY <2>1, <2>2, SeqMonotonic
<1> HIDE DEF x, a, b, S
<1>5. /\ a \o b \in Seq(S) /\ Len(a \o b) = Len(a) + Len(b)
      /\ \A i \in 1..(Len(a) + Len(b)) :
           (a \o b)[i] = IF i <= Len(a) THEN a[i] ELSE b[i - Len(a)]
  BY <1>3, <1>4, ConcatProperties
<1>6. Len(a \o b) = Len(x)
  BY <1>2, <1>3, <1>4, <1>5
<1>7. \A i \in 1..Len(x) : x[i] = (a \o b)[i]
  <2> SUFFICES ASSUME NEW i \in 1..(upto - from)
               PROVE  x[i] = (a \o b)[i]
    BY <1>2
  <2>1. i \in 1..(Len(a) + Len(b))
    BY <1>3, <1>4
  <2>2. CASE i <= mid - from
    <3>1. i \in 1..(mid - from) /\ i <= Len(a)
      BY <1>3, <2>2
    <3> QED BY <1>2, <1>3, <1>5, <2>1, <3>1
  <2>3. CASE ~(i <= mid - from)
    <3> DEFINE j == i - (mid - from)
    <3>1. j \in 1..(upto - mid) /\ ~(i <= Len(a)) /\ i - Len(a) = j /\ mid + j = from + i
      BY <1>3, <2>3
    <3> HIDE DEF j
    <3>2. (a \o b)[i] = b[j]
      BY <1>5, <2>1, <3>1
    <3> QED BY <1>2, <1>4, <3>1, <3>2
  <2> QED BY <2>2, <2>3
<1> QED BY <1>2, <1>5, <1>6, <1>7, SeqEqual DEF x, a, b

LEMMA LastOnesAreLast ==
  ASSUME NEW S, NEW events \in Seq(S), Rising(events), NEW n \in Nat
  PROVE  LET w == LastOnes(events, n) IN
         w \in Seq(S) /\ Rising(w) /\ Len(w) <= n
<1> DEFINE l == Len(events)
           k == IF l > n THEN l - n + 1 ELSE 1
           w == LastOnes(events, n)
<1>1. l \in Nat /\ \A i \in 1..l : events[i] \in S
  BY LenProperties
<1>2. k \in Nat /\ k >= 1 /\ l - k + 1 <= n /\ k <= l + 1
  BY <1>1
<1>3. w = SubSeq(events, k, l)
  BY DEF LastOnes
<1> HIDE DEF k, w, l
<1>4. /\ w \in Seq(S) /\ Len(w) = (IF k <= l THEN l - k + 1 ELSE 0)
      /\ \A i \in 1..(l - k + 1) : w[i] = events[k + i - 1]
  <2>1. k \in Int /\ l \in Int /\ \A i \in k..l : events[i] \in S
    BY <1>1, <1>2
  <2> QED BY <1>3, <2>1, SubSeqProperties
<1>5. Len(w) <= n /\ Len(w) = l - k + 1
  BY <1>1, <1>2, <1>4
<1>6. Rising(w)
  <2> SUFFICES ASSUME NEW i \in 1..(l - k + 1), NEW j \in 1..(l - k + 1), i < j
               PROVE  w[i].seq < w[j].seq
    BY <1>5 DEF Rising
  <2>1. k + i - 1 \in 1..l /\ k + j - 1 \in 1..l /\ k + i - 1 < k + j - 1
    BY <1>1, <1>2
  <2>2. events[k + i - 1].seq < events[k + j - 1].seq
    BY <2>1 DEF Rising, l
  <2> QED BY <1>4, <2>2
<1> QED BY <1>4, <1>5, <1>6 DEF w

(* The events that a player may see.                                         *)
Visible(from, upto) == [seq : (from + 1)..upto, kind : Kinds \ {"SECRET"}]

LEMMA Projecting ==
  ASSUME NEW from \in Nat, NEW upto \in Nat,
         NEW events \in Seq([seq : (from + 1)..upto, kind : Kinds]), Rising(events)
  PROVE  LET w == projectEvents(events) IN
         w \in Seq(Visible(from, upto)) /\ Len(w) <= Len(events) /\ Rising(w)
<1> DEFINE S == [seq : (from + 1)..upto, kind : Kinds]
           V == [seq : Nat, kind : Kinds \ {"SECRET"}]
           w == projectEvents(events)
<1>1. w = Kept(events, V)
  BY DEF projectEvents
<1>2. S \cap V \subseteq Visible(from, upto) /\ S \subseteq Events(upto)
  BY DEF Visible, Events
<1>3. events \in Seq(S)
  OBVIOUS
<1> HIDE DEF S, V, w
<1>4. w \in Seq(S \cap V) /\ Len(w) <= Len(events)
  BY <1>1, <1>3, KeptIsSequence
<1>5. events \in Seq(Events(upto))
  BY <1>2, <1>3, SeqMonotonic
<1>6. Rising(w)
  BY <1>1, <1>5, RisingKept
<1>7. w \in Seq(Visible(from, upto))
  BY <1>2, <1>4, SeqMonotonic
<1> QED BY <1>4, <1>6, <1>7 DEF w

-----------------------------------------------------------------------------
(* The invariant *)

Messages ==
  [type : {"EVENT_BATCH", "FULL_SNAPSHOT"}, after : {None} \cup Nat, upto : Nat,
   events : Seq([seq : Nat, kind : Kinds]), controller : {"HUMAN", "CPU"}, ended : BOOLEAN]

(* A message brings events of the log that the player may see, in order; a    *)
(* batch brings all of them from its start on.                               *)
MessageOK(m, kinds) ==
  /\ m.upto \in 1..Len(kinds)
  /\ m.events \in Seq(Visible(0, m.upto)) /\ Rising(m.events)
  /\ m.type = "EVENT_BATCH"
       => m.after \in 1..m.upto /\ m.events = projectEvents(EventsOf(kinds, m.after, m.upto))
  /\ m.type = "FULL_SNAPSHOT" => Len(m.events) <= RecentImportantEventLimit

TrueMessages(kinds) == {m \in Messages : MessageOK(m, kinds)}

LogTyped ==
  /\ match \in 1..MaxMatches /\ drops \in 0..MaxDrops
  /\ log \in Seq(Kinds) /\ Len(log) \in 1..MaxEvents
  /\ ended \in BOOLEAN /\ controller \in {"HUMAN", "CPU"}

(* Nothing is on its way while a page asks where the match stands, nor to or   *)
(* from a page that is not connected.                                        *)
WireTyped ==
  /\ link \in {"UP", "DOWN"} /\ wire \in Seq(TrueMessages(log)) /\ Len(wire) <= MaxWire
  /\ subscriber \in {None} \cup 1..MaxEvents
  /\ asking \in {<<>>, <<lastEventSeq>>}
  /\ link = "DOWN" \/ asking # <<>> => subscriber = None /\ wire = <<>>
  /\ link = "DOWN" => asking = <<>>

Cursor == IF lastEventSeq = None THEN 0 ELSE lastEventSeq

PageTyped ==
  /\ page \in {"BATTLE", "START"} /\ selfHumanControlled \in BOOLEAN
  /\ page = "START" => link = "DOWN" /\ lastEventSeq # None
  /\ lastEventSeq \in {None} \cup 1..MaxEvents
  /\ QueueTyped(presentation) /\ presentation.lastQueued <= Cursor
  /\ due \in Seq(Events(MaxEvents))

IInv ==
  /\ LogTyped /\ WireTyped /\ PageTyped
  /\ BatchesJoin /\ EveryEventPlays /\ SettledHidesNothing

-----------------------------------------------------------------------------
(* The messages *)

LEMMA Batching ==
  ASSUME NEW kinds \in Seq(Kinds), NEW upto \in 1..Len(kinds), NEW after \in 1..upto,
         NEW control \in {"HUMAN", "CPU"}, NEW over \in BOOLEAN
  PROVE  LET m == eventBatch(after, upto, EventsOf(kinds, after, upto), control, over) IN
         m \in TrueMessages(kinds) /\ m.type = "EVENT_BATCH" /\ m.after = after /\ m.upto = upto
<1> DEFINE events == EventsOf(kinds, after, upto)
           shown == projectEvents(events)
           m == eventBatch(after, upto, events, control, over)
<1>1. after \in Nat /\ upto \in Nat /\ after <= upto /\ upto <= Len(kinds) /\ 1 <= after
  BY LenProperties
<1>2. events \in Seq([seq : (after + 1)..upto, kind : Kinds]) /\ Rising(events)
  BY <1>1, EventsOfLog
<1> HIDE DEF events
<1>3. shown \in Seq(Visible(after, upto)) /\ Rising(shown)
  BY <1>1, <1>2, Projecting
<1>4. m = [type |-> "EVENT_BATCH", after |-> after, upto |-> upto, events |-> shown,
           controller |-> control, ended |-> over]
  BY DEF eventBatch
<1> HIDE DEF shown, m
<1>5. shown \in Seq(Visible(0, upto)) /\ shown \in Seq([seq : Nat, kind : Kinds])
  <2>1. Visible(after, upto) \subseteq Visible(0, upto)
          /\ Visible(after, upto) \subseteq [seq : Nat, kind : Kinds]
    BY <1>1 DEF Visible
  <2> QED BY <1>3, <2>1, SeqMonotonic
<1>6. m \in Messages
  BY <1>1, <1>4, <1>5 DEF Messages
<1>7. /\ m.type = "EVENT_BATCH" /\ m.after = after /\ m.upto = upto /\ m.events = shown
  BY <1>4
<1>8. MessageOK(m, kinds)
  BY <1>3, <1>5, <1>7 DEF MessageOK, shown, events
<1> QED BY <1>6, <1>7, <1>8 DEF TrueMessages, m, events

LEMMA TrimmedLog ==
  ASSUME LogTyped
  PROVE  LET n == Len(log)
             from == IF n > EventHistoryLimit THEN n - EventHistoryLimit ELSE 0
         IN /\ n \in Nat \ {0} /\ from \in Nat /\ from < n
            /\ Trimmed(log) = EventsOf(log, from, n)
            /\ Trimmed(log) \in Seq([seq : (from + 1)..n, kind : Kinds])
            /\ Rising(Trimmed(log)) /\ Head(Trimmed(log)).seq = from + 1
<1> DEFINE n == Len(log)
           from == IF n > EventHistoryLimit THEN n - EventHistoryLimit ELSE 0
           events == Trimmed(log)
<1>1. n \in Nat \ {0} /\ from \in Nat /\ from < n
  BY FeedAssumption DEF LogTyped
<1>2. events = EventsOf(log, from, n) /\ from <= n /\ n <= Len(log) /\ log \in Seq(Kinds)
  BY <1>1 DEF Trimmed, LogTyped
<1> HIDE DEF from, events, n
<1>3. /\ events \in Seq([seq : (from + 1)..n, kind : Kinds])
      /\ Len(events) = n - from /\ Rising(events)
      /\ \A i \in 1..(n - from) : events[i] = [seq |-> from + i, kind |-> log[from + i]]
  BY <1>1, <1>2, EventsOfLog
<1>4. Head(events) = events[1] /\ 1 \in 1..(n - from)
  <2>1. events # <<>>
    BY <1>1, <1>3, EmptySeq
  <2> QED BY <1>1, <1>3, <2>1, HeadTailProperties
<1>5. Head(events).seq = from + 1
  BY <1>3, <1>4
<1> QED BY <1>1, <1>2, <1>3, <1>5 DEF from, events, n

LEMMA Snapshotting ==
  ASSUME LogTyped
  PROVE  fullSnapshot \in TrueMessages(log) /\ fullSnapshot.type = "FULL_SNAPSHOT"
           /\ fullSnapshot.upto = Len(log)
<1> DEFINE n == Len(log)
           from == IF n > EventHistoryLimit THEN n - EventHistoryLimit ELSE 0
           S == [seq : (from + 1)..n, kind : Kinds]
           K == [seq : Nat, kind : {"CARD", "GRANT", "INSTANT"}]
           t == Trimmed(log)
           a == importantReplayEvents(t)
           b == LastOnes(a, RecentImportantEventLimit)
           c == projectEvents(b)
           m == fullSnapshot
<1>1. n \in Nat \ {0} /\ from \in Nat /\ from < n /\ t \in Seq(S) /\ Rising(t)
  BY TrimmedLog
<1>2. m = [type |-> "FULL_SNAPSHOT", after |-> None, upto |-> n, events |-> c,
           controller |-> controller, ended |-> ended]
  BY DEF fullSnapshot
<1>3. a = Kept(t, K)
  BY DEF importantReplayEvents
<1> HIDE DEF from, t, m
<1>4. S \subseteq Events(n) /\ t \in Seq(Events(n))
  <2>1. S \subseteq Events(n)
    BY <1>1 DEF Events
  <2> QED BY <1>1, <2>1, SeqMonotonic
<1> HIDE DEF S, K, a, n
<1>5. a \in Seq(S)
  <2>1. a \in Seq(S \cap K) /\ S \cap K \subseteq S
    BY <1>1, <1>3, KeptIsSequence
  <2> QED BY <2>1, SeqMonotonic
<1>6. Rising(a)
  BY <1>1, <1>3, <1>4, RisingKept
<1> HIDE DEF b
<1>7. b \in Seq(S) /\ Rising(b) /\ Len(b) <= RecentImportantEventLimit
  BY <1>5, <1>6, FeedAssumption, LastOnesAreLast DEF b
<1> HIDE DEF c
<1>8. c \in Seq(Visible(from, n)) /\ Len(c) <= Len(b) /\ Rising(c)
  BY <1>1, <1>7, Projecting DEF c, S
<1>9. c \in Seq(Visible(0, n)) /\ c \in Seq([seq : Nat, kind : Kinds])
  <2>1. Visible(from, n) \subseteq Visible(0, n)
          /\ Visible(from, n) \subseteq [seq : Nat, kind : Kinds]
    BY <1>1 DEF Visible
  <2> QED BY <1>8, <2>1, SeqMonotonic
<1>10. Len(c) <= RecentImportantEventLimit
  BY <1>7, <1>8, <1>9, FeedAssumption, LenProperties
<1>11. m \in Messages
  BY <1>1, <1>2, <1>9 DEF Messages, LogTyped
<1>12. m.type = "FULL_SNAPSHOT" /\ m.upto = n /\ m.events = c
  BY <1>2
<1>13. MessageOK(m, log)
  BY <1>1, <1>8, <1>9, <1>10, <1>12 DEF MessageOK, n
<1> QED BY <1>11, <1>12, <1>13 DEF TrueMessages, m, n

(* The answer to a page brings what the page does not have.                   *)
LEMMA Synchronizing ==
  ASSUME LogTyped, NEW cursor \in {None} \cup (Nat \ {0})
  PROVE  LET m == synchronize(cursor) IN
         /\ m \in TrueMessages(log) /\ m.upto = Len(log)
         /\ m.type = "EVENT_BATCH" => m.after = cursor
<1> DEFINE n == Len(log)
           from == IF n > EventHistoryLimit THEN n - EventHistoryLimit ELSE 0
           t == Trimmed(log)
           m == synchronize(cursor)
<1>1. /\ n \in Nat \ {0} /\ from \in Nat /\ from < n
      /\ t = EventsOf(log, from, n) /\ Head(t).seq = from + 1
  BY TrimmedLog
<1>2. log # <<>> /\ log \in Seq(Kinds)
  BY <1>1, EmptySeq DEF LogTyped
<1>3. CASE m = fullSnapshot
  <2>1. fullSnapshot.type # "EVENT_BATCH"
    BY Snapshotting
  <2> QED BY <1>3, <2>1, Snapshotting
<1>4. CASE m # fullSnapshot
  <2> DEFINE S1 == [seq : (from + 1)..cursor, kind : Kinds]
             S2 == [seq : (cursor + 1)..n, kind : Kinds]
             K == Later(cursor)
             e1 == EventsOf(log, from, cursor)
             e2 == EventsOf(log, cursor, n)
             kept == Kept(t, K)
  <2>1. /\ cursor \in Nat \ {0} /\ from <= cursor /\ cursor <= n
        /\ m = eventBatch(cursor, n, kept, controller, ended)
    <3>1. cursor # None /\ ~(cursor > n) /\ ~(cursor < (from + 1) - 1)
            /\ m = eventBatch(cursor, n, kept, controller, ended)
      BY <1>1, <1>2, <1>4 DEF synchronize
    <3> HIDE DEF m, from
    <3> QED BY <1>1, <3>1
  <2> HIDE DEF from, n, m
  <2>2. e1 \in Seq(S1) /\ e2 \in Seq(S2) /\ t = e1 \o e2
    <3>1. cursor <= Len(log) /\ n <= Len(log)
      BY <1>1, <2>1 DEF n
    <3> QED BY <1>1, <1>2, <2>1, <3>1, EventsOfLog, EventsOfJoin
  <2>3. S1 \cap K = {} /\ S2 \subseteq K
    BY <2>1 DEF Later
  <2>4. S1 \subseteq [seq : Nat, kind : Kinds] /\ S2 \subseteq [seq : Nat, kind : Kinds]
    BY <1>1, <2>1
  <2> HIDE DEF S1, S2, K, e1, e2, t
  <2>5. Kept(e1, K) = <<>> /\ Kept(e2, K) = e2
    BY <2>2, <2>3, KeptNone, KeptWhole
  <2>6. kept = <<>> \o e2
    <3>1. e1 \in Seq([seq : Nat, kind : Kinds]) /\ e2 \in Seq([seq : Nat, kind : Kinds])
      BY <2>2, <2>4, SeqMonotonic
    <3>2. Kept(e1 \o e2, K) = Kept(e1, K) \o Kept(e2, K)
      BY <3>1, KeptOfConcat
    <3> QED BY <2>2, <2>5, <3>2
  <2>7. kept = e2
    BY <2>2, <2>6, ConcatEmptySeq
  <2>8. m = eventBatch(cursor, n, EventsOf(log, cursor, n), controller, ended)
    BY <2>1, <2>7 DEF e2
  <2>9. n \in 1..Len(log) /\ cursor \in 1..n
    BY <1>1, <2>1 DEF n
  <2>10. m \in TrueMessages(log) /\ m.after = cursor /\ m.upto = n
    BY <1>2, <2>8, <2>9, Batching DEF LogTyped
  <2> QED BY <2>10 DEF m, n
<1> QED BY <1>3, <1>4

LEMMA TrueMessagesStayTrue ==
  ASSUME NEW kinds \in Seq(Kinds), NEW more \in Seq(Kinds)
  PROVE  TrueMessages(kinds) \subseteq TrueMessages(kinds \o more)
<1> SUFFICES ASSUME NEW m \in TrueMessages(kinds)
             PROVE  m \in TrueMessages(kinds \o more)
  OBVIOUS
<1>1. m \in Messages /\ MessageOK(m, kinds)
  BY DEF TrueMessages
<1>2. Len(kinds) \in Nat /\ Len(kinds \o more) \in Nat /\ Len(kinds) <= Len(kinds \o more)
  BY ConcatProperties, LenProperties
<1>3. m.upto \in 1..Len(kinds) /\ m.upto \in 1..Len(kinds \o more)
  BY <1>1, <1>2 DEF MessageOK
<1>4. m.type = "EVENT_BATCH" =>
        EventsOf(kinds \o more, m.after, m.upto) = EventsOf(kinds, m.after, m.upto)
  <2> SUFFICES ASSUME m.type = "EVENT_BATCH"
               PROVE  EventsOf(kinds \o more, m.after, m.upto) = EventsOf(kinds, m.after, m.upto)
    OBVIOUS
  <2>1. m.after \in 1..m.upto
    BY <1>1 DEF MessageOK
  <2>2. m.after \in Nat /\ m.upto \in Nat /\ m.after <= m.upto /\ m.upto <= Len(kinds)
    BY <1>2, <1>3, <2>1
  <2> QED BY <2>2, EventsOfGrown
<1>5. MessageOK(m, kinds \o more)
  BY <1>1, <1>3, <1>4 DEF MessageOK
<1> QED BY <1>1, <1>5 DEF TrueMessages

-----------------------------------------------------------------------------
(* What the steps have in common *)

(* The joints of BatchesJoin, as facts about the positions of a sequence.     *)
Joined(w, cursor, sub, n) ==
  /\ \A i \in 1..Len(w) : w[i].type = "EVENT_BATCH"
       => w[i].after = IF i = 1 THEN cursor ELSE w[i - 1].upto
  /\ sub # None => sub = n /\ n = (IF w = <<>> THEN cursor ELSE w[Len(w)].upto)

LEMMA JoinedMeansJoin ==
  ASSUME NEW S, wire \in Seq(S)
  PROVE  BatchesJoin <=> Joined(wire, lastEventSeq, subscriber, Len(log))
<1>1. Len(wire) \in Nat /\ DOMAIN wire = 1..Len(wire) /\ (wire = <<>> <=> Len(wire) = 0)
  BY EmptySeq, LenProperties
<1>2. \A i \in 1..Len(wire) : i - 1 = 0 <=> i = 1
  BY <1>1
<1> QED BY <1>1, <1>2 DEF BatchesJoin, Joined

LEMMA JoinedMeansJoinNext ==
  ASSUME NEW S, wire' \in Seq(S)
  PROVE  BatchesJoin' <=> Joined(wire', lastEventSeq', subscriber', Len(log'))
<1>1. Len(wire') \in Nat /\ DOMAIN wire' = 1..Len(wire') /\ (wire' = <<>> <=> Len(wire') = 0)
  BY EmptySeq, LenProperties
<1>2. \A i \in 1..Len(wire') : i - 1 = 0 <=> i = 1
  BY <1>1
<1> QED BY <1>1, <1>2 DEF BatchesJoin, Joined

LEMMA SendingJoins ==
  ASSUME NEW S, NEW w \in Seq(S), NEW m \in S, NEW cursor, NEW sub, NEW n, NEW k,
         Joined(w, cursor, sub, n),
         m.type = "EVENT_BATCH" => m.after = IF w = <<>> THEN cursor ELSE w[Len(w)].upto,
         m.upto = k
  PROVE  Joined(Append(w, m), cursor, k, k)
<1> DEFINE l == Len(w)
           a == Append(w, m)
<1>1. /\ l \in Nat /\ Len(a) = l + 1 /\ a[l + 1] = m /\ (w = <<>> <=> l = 0)
      /\ \A i \in 1..l : a[i] = w[i]
  BY AppendProperties, EmptySeq, LenProperties
<1>2. a # <<>>
  BY <1>1, EmptySeq
<1> HIDE DEF a
<1>3. \A i \in 1..(l + 1) : a[i].type = "EVENT_BATCH"
        => a[i].after = IF i = 1 THEN cursor ELSE a[i - 1].upto
  <2> SUFFICES ASSUME NEW i \in 1..(l + 1), a[i].type = "EVENT_BATCH"
               PROVE  a[i].after = IF i = 1 THEN cursor ELSE a[i - 1].upto
    OBVIOUS
  <2>1. CASE i = l + 1
    <3>1. i = 1 <=> w = <<>>
      BY <1>1, <2>1
    <3>2. i # 1 => a[i - 1] = w[l]
      BY <1>1, <2>1
    <3> QED BY <1>1, <2>1, <3>1, <3>2
  <2>2. CASE i # l + 1
    <3>1. i \in 1..l /\ a[i] = w[i]
      BY <1>1, <2>2
    <3>2. i # 1 => a[i - 1] = w[i - 1]
      BY <1>1, <3>1
    <3>3. w[i].after = IF i = 1 THEN cursor ELSE w[i - 1].upto
      BY <3>1 DEF Joined
    <3> QED BY <3>1, <3>2, <3>3
  <2> QED BY <2>1, <2>2
<1> QED BY <1>1, <1>2, <1>3 DEF Joined, a

LEMMA ReceivingJoins ==
  ASSUME NEW S, NEW w \in Seq(S), w # <<>>, NEW cursor, NEW sub, NEW n,
         Joined(w, cursor, sub, n)
  PROVE  Joined(Tail(w), Head(w).upto, sub, n)
<1> DEFINE l == Len(w)
           t == Tail(w)
<1>1. /\ l \in Nat /\ l # 0 /\ Head(w) = w[1] /\ t \in Seq(S) /\ Len(t) = l - 1
      /\ \A i \in 1..(l - 1) : t[i] = w[i + 1]
  BY HeadTailProperties, EmptySeq, LenProperties
<1>2. t = <<>> <=> l = 1
  BY <1>1, EmptySeq
<1> HIDE DEF t
<1>3. \A i \in 1..(l - 1) : t[i].type = "EVENT_BATCH"
        => t[i].after = IF i = 1 THEN w[1].upto ELSE t[i - 1].upto
  <2> SUFFICES ASSUME NEW i \in 1..(l - 1), t[i].type = "EVENT_BATCH"
               PROVE  t[i].after = IF i = 1 THEN w[1].upto ELSE t[i - 1].upto
    OBVIOUS
  <2> DEFINE j == i + 1
  <2>1. j \in 1..l /\ j # 1 /\ j - 1 = i /\ t[i] = w[j]
    BY <1>1
  <2>2. i # 1 => t[i - 1] = w[i]
    <3> SUFFICES ASSUME i # 1
                 PROVE  t[i - 1] = w[i]
      OBVIOUS
    <3>1. i - 1 \in 1..(l - 1) /\ (i - 1) + 1 = i
      BY <1>1
    <3> QED BY <1>1, <3>1
  <2> HIDE DEF j
  <2>3. w[j].after = w[i].upto
    BY <2>1 DEF Joined
  <2> QED BY <2>1, <2>2, <2>3
<1>4. sub # None => sub = n /\ n = (IF t = <<>> THEN w[1].upto ELSE t[Len(t)].upto)
  <2> SUFFICES ASSUME sub # None
               PROVE  sub = n /\ n = (IF t = <<>> THEN w[1].upto ELSE t[Len(t)].upto)
    OBVIOUS
  <2>1. sub = n /\ n = w[l].upto
    BY DEF Joined
  <2>2. l # 1 => t[Len(t)] = w[l]
    BY <1>1
  <2> QED BY <1>2, <2>1, <2>2
<1> QED BY <1>1, <1>3, <1>4 DEF Joined, t

LEMMA Publishing ==
  ASSUME IInv, NEW burst \in Seq(Kinds), NEW control \in {"HUMAN", "CPU"}, NEW over \in BOOLEAN,
         Publish(burst, control, over), drops' = drops, lastEventSeq' = lastEventSeq
  PROVE  LogTyped' /\ WireTyped' /\ BatchesJoin'
<1> DEFINE grown == log \o burst
           n == Len(log)
           k == Len(grown)
           m == eventBatch(subscriber, k, EventsOf(grown, n, k), control, over)
<1>1. /\ log' = grown /\ controller' = control /\ ended' = over
      /\ k <= MaxEvents /\ (subscriber # None => Len(wire) < MaxWire)
      /\ wire' = (IF subscriber = None THEN wire ELSE Append(wire, m))
      /\ subscriber' = IF subscriber = None THEN None ELSE k
      /\ match' = match /\ asking' = asking /\ link' = link
  BY DEF Publish, SubscriberAt
<1>2. /\ log \in Seq(Kinds) /\ n \in Nat /\ n \in 1..MaxEvents /\ MaxEvents \in Nat
      /\ MaxWire \in Nat
  BY FeedAssumption, LenProperties DEF IInv, LogTyped
<1>3. grown \in Seq(Kinds) /\ k \in Nat /\ n <= k /\ k \in 1..MaxEvents
  <2>1. grown \in Seq(Kinds) /\ k = n + Len(burst) /\ Len(burst) \in Nat
    BY <1>2, ConcatProperties, LenProperties
  <2> HIDE DEF grown, n
  <2> QED BY <1>1, <1>2, <2>1, LenProperties
<1>4. wire \in Seq(TrueMessages(log)) /\ Len(wire) \in Nat /\ Len(wire) <= MaxWire
  BY LenProperties DEF IInv, WireTyped
<1>5. wire \in Seq(TrueMessages(grown))
  BY <1>2, <1>4, TrueMessagesStayTrue, SeqMonotonic
<1>6. Joined(wire, lastEventSeq, subscriber, n)
  BY <1>4, JoinedMeansJoin DEF IInv
<1>7. LogTyped'
  BY <1>1, <1>3 DEF IInv, LogTyped
<1>8. subscriber # None =>
        /\ m \in TrueMessages(grown) /\ m.type = "EVENT_BATCH" /\ m.upto = k
        /\ m.after = IF wire = <<>> THEN lastEventSeq ELSE wire[Len(wire)].upto
  <2> SUFFICES ASSUME subscriber # None
               PROVE  /\ m \in TrueMessages(grown) /\ m.type = "EVENT_BATCH" /\ m.upto = k
                      /\ m.after = IF wire = <<>> THEN lastEventSeq ELSE wire[Len(wire)].upto
    OBVIOUS
  <2>1. subscriber = n /\ n = IF wire = <<>> THEN lastEventSeq ELSE wire[Len(wire)].upto
    BY <1>6 DEF Joined
  <2>2. k \in 1..Len(grown) /\ n \in 1..k
    BY <1>2, <1>3
  <2> HIDE DEF grown, n, k
  <2>3. m = eventBatch(n, k, EventsOf(grown, n, k), control, over)
    BY <2>1
  <2>4. m \in TrueMessages(grown) /\ m.type = "EVENT_BATCH" /\ m.after = n /\ m.upto = k
    BY <1>3, <2>2, <2>3, Batching
  <2> QED BY <2>1, <2>4
<1> HIDE DEF m, grown, n, k
<1>9. wire' \in Seq(TrueMessages(grown)) /\ Len(wire') <= MaxWire
  <2>1. CASE subscriber = None
    BY <1>1, <1>4, <1>5, <2>1
  <2>2. CASE subscriber # None
    <3>1. wire' = Append(wire, m) /\ m \in TrueMessages(grown)
      BY <1>1, <1>8, <2>2
    <3>2. wire' \in Seq(TrueMessages(grown)) /\ Len(wire') = Len(wire) + 1
      BY <1>5, <3>1, AppendProperties
    <3> QED BY <1>1, <1>2, <1>4, <2>2, <3>2
  <2> QED BY <2>1, <2>2
<1>10. Joined(wire', lastEventSeq', subscriber', Len(log'))
  <2>1. CASE subscriber = None
    BY <1>1, <1>6, <2>1 DEF Joined
  <2>2. CASE subscriber # None
    <3>1. wire' = Append(wire, m) /\ m \in TrueMessages(grown) /\ m.upto = k
            /\ m.after = (IF wire = <<>> THEN lastEventSeq ELSE wire[Len(wire)].upto)
            /\ subscriber' = k /\ Len(log') = k
      BY <1>1, <1>8, <2>2 DEF k
    <3>2. Joined(Append(wire, m), lastEventSeq, k, k)
      BY <1>5, <1>6, <3>1, SendingJoins
    <3> QED BY <3>1, <3>2
  <2> QED BY <2>1, <2>2
<1>11. BatchesJoin'
  BY <1>9, <1>10, JoinedMeansJoinNext
<1>12. WireTyped'
  <2>1. wire' \in Seq(TrueMessages(log'))
    BY <1>1, <1>9
  <2>2. subscriber' \in {None} \cup 1..MaxEvents
    BY <1>1, <1>3
  <2>3. /\ link \in {"UP", "DOWN"} /\ asking \in {<<>>, <<lastEventSeq>>}
        /\ link = "DOWN" \/ asking # <<>> => subscriber = None /\ wire = <<>>
        /\ link = "DOWN" => asking = <<>>
    BY DEF IInv, WireTyped
  <2> QED BY <1>1, <1>9, <2>1, <2>2, <2>3 DEF WireTyped
<1> QED BY <1>7, <1>11, <1>12

LEMMA LosingTheLink ==
  ASSUME Disconnected, lastEventSeq' \in {None} \cup 1..MaxEvents
  PROVE  WireTyped' /\ BatchesJoin'
<1>1. /\ subscriber' = None /\ wire' = <<>> /\ asking' = <<>> /\ link' = "DOWN"
      /\ MaxWire \in Nat
  BY FeedAssumption DEF Disconnected
<1>2. wire' \in Seq(TrueMessages(log')) /\ Len(wire') = 0
  BY <1>1, EmptySeq
<1>3. WireTyped'
  BY <1>1, <1>2 DEF WireTyped
<1>4. BatchesJoin'
  BY <1>1 DEF BatchesJoin
<1> QED BY <1>3, <1>4

LEMMA StartingOver ==
  ASSUME presentation' = createPresentationQueue, due' = <<>>
  PROVE  /\ QueueTyped(presentation') /\ presentation'.lastQueued = 0
         /\ due' \in Seq(Events(MaxEvents))
         /\ EveryEventPlays' /\ SettledHidesNothing'
<1>1. /\ QueueTyped(createPresentationQueue) /\ Played(createPresentationQueue) = <<>>
      /\ createPresentationQueue.lastQueued = 0 /\ createPresentationQueue.concealed = {}
  BY NewQueue
<1>2. EveryEventPlays'
  <2>1. StepsOf(due') = Played(presentation')
    BY <1>1, StepsOfNothing
  <2> QED BY <2>1 DEF EveryEventPlays, Played
<1>3. SettledHidesNothing'
  BY <1>1 DEF SettledHidesNothing
<1>4. due' \in Seq(Events(MaxEvents))
  BY EmptySeq
<1> QED BY <1>1, <1>2, <1>3, <1>4

LEMMA Mounting ==
  ASSUME IInv, NEW human \in BOOLEAN, Mounted(human), lastEventSeq' = lastEventSeq
  PROVE  PageTyped' /\ EveryEventPlays' /\ SettledHidesNothing'
<1>1. /\ page' = "BATTLE" /\ selfHumanControlled' = human
      /\ presentation' = createPresentationQueue /\ due' = <<>>
  BY DEF Mounted
<1>2. lastEventSeq' \in {None} \cup 1..MaxEvents /\ 0 <= Cursor'
  BY NoneAssumption DEF IInv, PageTyped, Cursor
<1> QED BY <1>1, <1>2, StartingOver DEF PageTyped

LEMMA InitHolds == Init => IInv
<1> SUFFICES ASSUME Init
             PROVE  IInv
  OBVIOUS
<1>1. LogTyped
  <2>1. log \in Seq(Kinds) /\ Len(log) \in 1..MaxEvents
    BY BurstsAssumption DEF Init
  <2>2. 1 \in 1..MaxMatches /\ 0 \in 0..MaxDrops
    BY FeedAssumption
  <2> QED BY <2>1, <2>2 DEF Init, LogTyped
<1>2. WireTyped
  <2>1. wire \in Seq(TrueMessages(log)) /\ Len(wire) = 0
    BY EmptySeq DEF Init
  <2> QED BY <2>1, FeedAssumption DEF Init, WireTyped
<1>3. BatchesJoin
  BY DEF Init, BatchesJoin
<1>4. /\ presentation = createPresentationQueue /\ due = <<>>
      /\ QueueTyped(createPresentationQueue) /\ Played(createPresentationQueue) = <<>>
      /\ createPresentationQueue.lastQueued = 0 /\ createPresentationQueue.concealed = {}
  BY NewQueue DEF Init
<1>5. PageTyped
  <2>1. due \in Seq(Events(MaxEvents))
    BY <1>4, EmptySeq
  <2>2. Cursor = 0
    BY DEF Init, Cursor
  <2> QED BY <1>4, <2>1, <2>2 DEF Init, PageTyped
<1>6. EveryEventPlays
  <2>1. StepsOf(due) = Played(presentation)
    BY <1>4, StepsOfNothing
  <2> QED BY <2>1 DEF EveryEventPlays, Played
<1>7. SettledHidesNothing
  BY <1>4 DEF SettledHidesNothing
<1> QED BY <1>1, <1>2, <1>3, <1>5, <1>6, <1>7 DEF IInv

(* What a message does to the screen.                                        *)
LEMMA Presenting ==
  ASSUME IInv, wire # <<>>, NEW timeIsUp \in BOOLEAN,
         presentation' = applyRealtimePresentationMessage(presentation, Head(wire), timeIsUp),
         due' = DueWith(Head(wire)), lastEventSeq' = Head(wire).upto
  PROVE  /\ QueueTyped(presentation') /\ presentation'.lastQueued <= lastEventSeq'
         /\ due' \in Seq(Events(MaxEvents))
         /\ EveryEventPlays' /\ SettledHidesNothing'
<1> DEFINE m == Head(wire)
           k == m.upto
           q == presentation
           w == applyRealtimePresentationMessage(q, m, timeIsUp)
<1>1. wire \in Seq(TrueMessages(log)) /\ m = wire[1] /\ 1 \in 1..Len(wire)
  <2>1. wire \in Seq(TrueMessages(log)) /\ Len(wire) \in Nat /\ Len(wire) # 0
    BY EmptySeq, LenProperties DEF IInv, WireTyped
  <2> QED BY <2>1, HeadTailProperties
<1>2. m \in Messages /\ MessageOK(m, log)
  BY <1>1 DEF TrueMessages
<1>3. /\ m.type \in {"EVENT_BATCH", "FULL_SNAPSHOT"} /\ m.ended \in BOOLEAN
      /\ k \in 1..Len(log) /\ m.events \in Seq(Visible(0, k)) /\ Rising(m.events)
      /\ m.type = "EVENT_BATCH" => m.after \in 1..k /\ m.events = projectEvents(EventsOf(log, m.after, k))
  BY <1>2 DEF Messages, MessageOK
<1>4. /\ k \in Nat /\ k <= MaxEvents /\ MaxEvents \in Nat /\ log \in Seq(Kinds)
      /\ Len(log) \in Nat /\ k <= Len(log)
  BY <1>3, FeedAssumption, LenProperties DEF IInv, LogTyped
<1>5. m.events \in Seq(Events(k)) /\ m.events \in Seq(Events(MaxEvents))
  <2>1. Visible(0, k) \subseteq Events(k)
    BY DEF Visible, Events
  <2> QED BY <1>3, <1>4, <2>1, WiderEvents, SeqMonotonic
<1>6. /\ QueueTyped(q) /\ q.lastQueued <= Cursor /\ due \in Seq(Events(MaxEvents))
      /\ StepsOf(due) = Played(q)
  BY DEF IInv, PageTyped, EveryEventPlays, Played
<1>7. CASE m.type = "EVENT_BATCH"
  <2>1. m.after = lastEventSeq /\ lastEventSeq \in Nat /\ lastEventSeq <= k /\ 1 <= lastEventSeq
    <3>1. Joined(wire, lastEventSeq, subscriber, Len(log))
      BY <1>1, JoinedMeansJoin DEF IInv
    <3>2. m.after = lastEventSeq
      BY <1>1, <1>7, <3>1 DEF Joined
    <3> QED BY <1>3, <1>4, <1>7, <3>2
  <2>2. Cursor = lastEventSeq /\ q.lastQueued <= lastEventSeq /\ q.lastQueued \in Nat
    BY <1>6, <2>1, NoneAssumption DEF Cursor, QueueTyped
  <2> DEFINE e == EventsOf(log, lastEventSeq, k)
             p == projectEvents(e)
  <2>3. m.events = p
    BY <1>3, <1>7, <2>1
  <2>4. e \in Seq([seq : (lastEventSeq + 1)..k, kind : Kinds]) /\ Rising(e)
    BY <1>4, <2>1, EventsOfLog
  <2> HIDE DEF e
  <2>5. p \in Seq(Visible(lastEventSeq, k)) /\ Rising(p)
    BY <1>4, <2>1, <2>4, Projecting
  <2>6. p \in Seq([seq : (q.lastQueued + 1)..k, kind : Kinds])
    <3>1. Visible(lastEventSeq, k) \subseteq [seq : (q.lastQueued + 1)..k, kind : Kinds]
      BY <1>4, <2>1, <2>2 DEF Visible
    <3> HIDE DEF p, q, k
    <3> QED BY <2>5, <3>1, SeqMonotonic
  <2>7. w = enqueuePresentationEvents(q, p, timeIsUp)
    BY <1>7, <2>3 DEF applyRealtimePresentationMessage
  <2>8. due' = due \o p
    BY <1>7 DEF DueWith, e
  <2>9. presentation' = w
    OBVIOUS
  <2>10. p \in Seq(Events(MaxEvents))
    BY <1>5, <2>3
  <2> HIDE DEF p, w, q, k, m
  <2>11. q.lastQueued <= k
    BY <1>4, <2>1, <2>2
  <2>12. /\ QueueTyped(w) /\ Played(w) = Played(q) \o StepsOf(p) /\ w.lastQueued <= k
         /\ w.concealed # {} => ~isPresentationSettled(w)
    BY <1>4, <1>6, <2>5, <2>6, <2>7, <2>11, Enqueuing
  <2>13. due' \in Seq(Events(MaxEvents)) /\ StepsOf(due') = Played(w)
    <3>1. due' \in Seq(Events(MaxEvents))
      BY <1>6, <2>8, <2>10, ConcatProperties
    <3>2. StepsOf(due \o p) = StepsOf(due) \o StepsOf(p)
      BY <1>4, <1>6, <2>10, StepsOfConcat
    <3> QED BY <1>6, <2>8, <2>12, <3>1, <3>2
  <2>14. EveryEventPlays'
    BY <2>9, <2>13 DEF EveryEventPlays, Played
  <2>15. SettledHidesNothing'
    BY <2>9, <2>12 DEF SettledHidesNothing
  <2> QED BY <2>9, <2>12, <2>13, <2>14, <2>15 DEF k, m
<1>8. CASE m.type = "FULL_SNAPSHOT"
  <2> DEFINE d == IF m.ended THEN <<>> ELSE m.events
  <2>1. w = replacePresentationFromSnapshot(m.events, m.ended, timeIsUp)
    BY <1>8 DEF applyRealtimePresentationMessage
  <2>2. due' = d /\ d \in Seq(Events(MaxEvents))
    <3>1. due' = d
      BY <1>8 DEF DueWith
    <3>2. <<>> \in Seq(Events(MaxEvents))
      BY EmptySeq
    <3> QED BY <1>5, <3>1, <3>2
  <2>3. presentation' = w
    OBVIOUS
  <2> HIDE DEF w, k, m
  <2>4. /\ QueueTyped(w) /\ Played(w) = StepsOf(d) /\ w.lastQueued <= k
        /\ w.concealed # {} => ~isPresentationSettled(w)
    BY <1>3, <1>4, <1>5, <2>1, Replacing
  <2> HIDE DEF d
  <2>5. EveryEventPlays'
    BY <2>2, <2>3, <2>4 DEF EveryEventPlays, Played
  <2>6. SettledHidesNothing'
    BY <2>3, <2>4 DEF SettledHidesNothing
  <2> QED BY <2>2, <2>3, <2>4, <2>5, <2>6 DEF k, m
<1> QED BY <1>3, <1>7, <1>8

-----------------------------------------------------------------------------
(* The steps *)

(* A step of the match leaves the page alone.                                 *)
LEMMA PageStays ==
  ASSUME IInv, UNCHANGED pageVars, link' = link
  PROVE  PageTyped' /\ EveryEventPlays' /\ SettledHidesNothing'
<1>1. PageTyped'
  BY DEF IInv, PageTyped, pageVars, Cursor
<1> QED BY <1>1 DEF IInv, EveryEventPlays, SettledHidesNothing, pageVars, Steps, isPresentationSettled

LEMMA MovingOn ==
  ASSUME IInv, MoveOn
  PROVE  IInv'
<1>1. PICK burst \in Bursts : Publish(burst, controller, FALSE)
  BY DEF MoveOn
<1>2. burst \in Seq(Kinds) /\ controller \in {"HUMAN", "CPU"} /\ UNCHANGED pageVars
      /\ drops' = drops /\ lastEventSeq' = lastEventSeq /\ link' = link
  BY <1>1, BurstsAssumption DEF MoveOn, Publish, pageVars, IInv, LogTyped
<1> QED BY <1>1, <1>2, Publishing, PageStays DEF IInv

LEMMA TakingOver ==
  ASSUME IInv, TakeOver
  PROVE  IInv'
<1>1. <<"INSTANT">> \in Seq(Kinds)
  BY DEF Kinds
<1>2. /\ Publish(<<"INSTANT">>, "CPU", FALSE) /\ UNCHANGED pageVars
      /\ drops' = drops /\ lastEventSeq' = lastEventSeq /\ link' = link
  BY DEF TakeOver, Publish, pageVars
<1> QED BY <1>1, <1>2, Publishing, PageStays DEF IInv

LEMMA Ending ==
  ASSUME IInv, End
  PROVE  IInv'
<1>1. LastBurst \in Seq(Kinds) /\ controller \in {"HUMAN", "CPU"}
  BY BurstsAssumption DEF IInv, LogTyped
<1>2. /\ Publish(LastBurst, controller, TRUE) /\ UNCHANGED pageVars
      /\ drops' = drops /\ lastEventSeq' = lastEventSeq /\ link' = link
  BY DEF End, Publish, pageVars
<1> QED BY <1>1, <1>2, Publishing, PageStays DEF IInv

LEMMA LogStays ==
  ASSUME IInv, UNCHANGED matchVars, drops' \in 0..MaxDrops
  PROVE  LogTyped'
BY DEF IInv, LogTyped, matchVars

LEMMA Connecting ==
  ASSUME IInv, Connect
  PROVE  IInv'
<1>1. /\ page = "BATTLE" /\ link = "DOWN" /\ link' = "UP" /\ asking' = <<lastEventSeq>>
      /\ UNCHANGED matchVars /\ UNCHANGED pageVars
      /\ subscriber' = subscriber /\ wire' = wire /\ drops' = drops
      /\ log' = log /\ lastEventSeq' = lastEventSeq /\ page' = page
  BY DEF Connect, matchVars, pageVars
<1>2. LogTyped'
  BY <1>1, LogStays DEF IInv, LogTyped
<1>3. WireTyped'
  BY <1>1 DEF IInv, WireTyped
<1>4. BatchesJoin'
  BY <1>1 DEF IInv, BatchesJoin
<1>5. PageTyped'
  BY <1>1 DEF IInv, PageTyped, pageVars, Cursor
<1>6. EveryEventPlays' /\ SettledHidesNothing'
  BY <1>1 DEF IInv, EveryEventPlays, SettledHidesNothing, pageVars, Steps, isPresentationSettled
<1> QED BY <1>2, <1>3, <1>4, <1>5, <1>6 DEF IInv

LEMMA Subscribing ==
  ASSUME IInv, Subscribe
  PROVE  IInv'
<1> DEFINE m == synchronize(Head(asking))
<1>1. /\ asking # <<>> /\ Len(wire) < MaxWire
      /\ wire' = Append(wire, m) /\ subscriber' = m.upto /\ asking' = Tail(asking)
      /\ UNCHANGED matchVars /\ UNCHANGED pageVars
      /\ link' = link /\ drops' = drops
      /\ log' = log /\ lastEventSeq' = lastEventSeq /\ page' = page
  BY DEF Subscribe, Subscribed, matchVars, pageVars
<1>2. asking = <<lastEventSeq>> /\ wire = <<>> /\ link = "UP"
  BY <1>1 DEF IInv, WireTyped
<1>3. Head(asking) = lastEventSeq /\ Tail(asking) = <<>>
  BY <1>2
<1>4. lastEventSeq \in {None} \cup (Nat \ {0}) /\ LogTyped
  BY DEF IInv, PageTyped
<1>5. /\ m \in TrueMessages(log) /\ m.upto = Len(log)
      /\ m.type = "EVENT_BATCH" => m.after = lastEventSeq
  <2>1. m = synchronize(lastEventSeq)
    BY <1>3
  <2> HIDE DEF m
  <2> QED BY <1>4, <2>1, Synchronizing
<1> HIDE DEF m
<1>6. /\ wire \in Seq(TrueMessages(log)) /\ Joined(wire, lastEventSeq, subscriber, Len(log))
      /\ Len(wire) \in Nat
  <2>1. wire \in Seq(TrueMessages(log))
    BY DEF IInv, WireTyped
  <2> QED BY <2>1, JoinedMeansJoin, LenProperties DEF IInv
<1>7. /\ wire' \in Seq(TrueMessages(log')) /\ Len(wire') = Len(wire) + 1
      /\ Joined(wire', lastEventSeq', subscriber', Len(log'))
  <2>1. Append(wire, m) \in Seq(TrueMessages(log)) /\ Len(Append(wire, m)) = Len(wire) + 1
    BY <1>5, <1>6, AppendProperties
  <2>2. Joined(Append(wire, m), lastEventSeq, Len(log), Len(log))
    BY <1>2, <1>5, <1>6, SendingJoins
  <2> QED BY <1>1, <1>5, <2>1, <2>2
<1>8. BatchesJoin'
  BY <1>7, JoinedMeansJoinNext
<1>9. WireTyped'
  <2>1. Len(wire') <= MaxWire
    BY <1>1, <1>6, <1>7, FeedAssumption
  <2>2. subscriber' \in {None} \cup 1..MaxEvents
    BY <1>1, <1>4, <1>5 DEF LogTyped
  <2>3. link' = "UP" /\ asking' = <<>>
    BY <1>1, <1>2, <1>3
  <2> QED BY <1>7, <2>1, <2>2, <2>3 DEF WireTyped
<1>10. LogTyped'
  BY <1>1, LogStays DEF IInv, LogTyped
<1>11. PageTyped' /\ EveryEventPlays' /\ SettledHidesNothing'
  BY <1>1, PageStays
<1> QED BY <1>8, <1>9, <1>10, <1>11 DEF IInv

LEMMA Delivering ==
  ASSUME IInv, Deliver
  PROVE  IInv'
<1> DEFINE m == Head(wire)
<1>1. /\ wire # <<>> /\ lastEventSeq' = m.upto /\ UNCHANGED matchVars /\ drops' = drops
      /\ log' = log
  BY DEF Deliver, matchVars
<1>2. /\ wire \in Seq(TrueMessages(log)) /\ Joined(wire, lastEventSeq, subscriber, Len(log))
      /\ Len(wire) \in Nat /\ Len(wire) <= MaxWire
  <2>1. wire \in Seq(TrueMessages(log)) /\ Len(wire) <= MaxWire
    BY DEF IInv, WireTyped
  <2> QED BY <2>1, JoinedMeansJoin, LenProperties DEF IInv
<1>3. m \in TrueMessages(log) /\ Tail(wire) \in Seq(TrueMessages(log))
      /\ Len(Tail(wire)) = Len(wire) - 1
  BY <1>1, <1>2, HeadTailProperties
<1>4. /\ m.upto \in 1..Len(log) /\ m.upto \in 1..MaxEvents /\ m.upto \in Nat
      /\ m.controller \in {"HUMAN", "CPU"}
  <2>1. m.upto \in 1..Len(log) /\ m.controller \in {"HUMAN", "CPU"}
    BY <1>3 DEF TrueMessages, MessageOK, Messages
  <2>2. Len(log) \in 1..MaxEvents
    BY DEF IInv, LogTyped
  <2> HIDE DEF m
  <2>3. MaxEvents \in Nat
    BY FeedAssumption
  <2> QED BY <2>1, <2>2, <2>3
<1>5. link = "UP" /\ asking = <<>>
  BY <1>1 DEF IInv, WireTyped
<1>6. LogTyped'
  BY <1>1, LogStays DEF IInv, LogTyped
<1>7. lastEventSeq' \in {None} \cup 1..MaxEvents /\ lastEventSeq' # None /\ Cursor' = lastEventSeq'
  BY <1>1, <1>4, NoneAssumption DEF Cursor
<1>8. CASE ReturnsToStart(m) /\ page' = "START" /\ presentation' = createPresentationQueue
             /\ due' = <<>> /\ Disconnected /\ UNCHANGED selfHumanControlled
  <2> HIDE DEF m
  <2>1. WireTyped' /\ BatchesJoin'
    BY <1>7, <1>8, LosingTheLink
  <2>2. /\ QueueTyped(presentation') /\ presentation'.lastQueued = 0
        /\ due' \in Seq(Events(MaxEvents))
        /\ EveryEventPlays' /\ SettledHidesNothing'
    BY <1>8, StartingOver
  <2>3. presentation'.lastQueued <= Cursor' /\ link' = "DOWN"
    BY <1>1, <1>4, <1>7, <1>8, <2>2 DEF Disconnected
  <2>4. PageTyped'
    BY <1>7, <1>8, <2>2, <2>3 DEF IInv, PageTyped
  <2> QED BY <1>6, <2>1, <2>2, <2>4 DEF IInv
<1>9. CASE /\ selfHumanControlled' = (selfHumanControlled \/ m.controller = "HUMAN")
           /\ \E timeIsUp \in BOOLEAN :
                presentation' = applyRealtimePresentationMessage(presentation, m, timeIsUp)
           /\ due' = DueWith(m)
           /\ wire' = Tail(wire)
           /\ UNCHANGED <<page, subscriber, asking, link>>
  <2>1. /\ QueueTyped(presentation') /\ presentation'.lastQueued <= lastEventSeq'
        /\ due' \in Seq(Events(MaxEvents))
        /\ EveryEventPlays' /\ SettledHidesNothing'
    BY <1>1, <1>9, Presenting
  <2>2. Joined(wire', lastEventSeq', subscriber', Len(log'))
    <3>1. Joined(Tail(wire), m.upto, subscriber, Len(log))
      BY <1>1, <1>2, ReceivingJoins
    <3> QED BY <1>1, <1>9, <3>1
  <2> HIDE DEF m
  <2>3. wire' \in Seq(TrueMessages(log')) /\ Len(wire') <= MaxWire
    BY <1>1, <1>2, <1>3, <1>9, FeedAssumption
  <2>4. BatchesJoin'
    BY <2>2, <2>3, JoinedMeansJoinNext
  <2>5. WireTyped'
    BY <1>5, <1>9, <2>3 DEF IInv, WireTyped
  <2>6. page = "BATTLE" /\ selfHumanControlled' \in BOOLEAN
    BY <1>5, <1>9 DEF IInv, PageTyped
  <2>7. PageTyped'
    BY <1>7, <1>9, <2>1, <2>6 DEF PageTyped
  <2> QED BY <1>6, <2>1, <2>4, <2>5, <2>7 DEF IInv
<1> QED BY <1>8, <1>9 DEF Deliver

LEMMA Playing ==
  ASSUME IInv, Play
  PROVE  IInv'
<1> DEFINE w == advancePresentationClock(presentation, TRUE)
<1>1. /\ presentation' = w
      /\ UNCHANGED matchVars /\ UNCHANGED linkVars /\ UNCHANGED page
      /\ UNCHANGED lastEventSeq /\ UNCHANGED selfHumanControlled /\ UNCHANGED due
      /\ drops' = drops /\ log' = log /\ link' = link
      /\ wire' = wire /\ subscriber' = subscriber /\ asking' = asking
  BY DEF Play, matchVars, linkVars
<1>2. QueueTyped(presentation) /\ StepsOf(due) = Played(presentation)
  BY DEF IInv, PageTyped, EveryEventPlays, Played
<1>3. GoesOn(presentation, w) /\ (w.concealed # {} => ~isPresentationSettled(w))
  BY <1>2, Advancing
<1> HIDE DEF w
<1>4. LogTyped'
  BY <1>1, LogStays DEF IInv, LogTyped
<1>5. WireTyped' /\ BatchesJoin'
  BY <1>1 DEF IInv, WireTyped, BatchesJoin
<1>6. PageTyped'
  BY <1>1, <1>3 DEF IInv, PageTyped, GoesOn, Cursor
<1>7. EveryEventPlays'
  <2>1. StepsOf(due') = Played(presentation')
    BY <1>1, <1>2, <1>3 DEF GoesOn
  <2> QED BY <2>1 DEF EveryEventPlays, Played
<1>8. SettledHidesNothing'
  BY <1>1, <1>3 DEF SettledHidesNothing
<1> QED BY <1>4, <1>5, <1>6, <1>7, <1>8 DEF IInv

LEMMA Cutting ==
  ASSUME IInv, Cut
  PROVE  IInv'
<1>1. /\ drops' \in 0..MaxDrops /\ Disconnected /\ link' = "DOWN" /\ UNCHANGED matchVars
      /\ UNCHANGED pageVars /\ lastEventSeq' = lastEventSeq
  BY FeedAssumption DEF Cut, Disconnected, pageVars, IInv, LogTyped
<1>2. WireTyped' /\ BatchesJoin'
  BY <1>1, LosingTheLink DEF IInv, PageTyped
<1>3. PageTyped'
  BY <1>1 DEF IInv, PageTyped, pageVars, Cursor
<1>4. EveryEventPlays' /\ SettledHidesNothing'
  BY <1>1 DEF IInv, EveryEventPlays, SettledHidesNothing, pageVars, Steps, isPresentationSettled
<1> QED BY <1>1, <1>2, <1>3, <1>4, LogStays DEF IInv

LEMMA Reloading ==
  ASSUME IInv, Reload
  PROVE  IInv'
<1>1. /\ drops' \in 0..MaxDrops /\ Disconnected /\ Mounted(controller = "HUMAN")
      /\ UNCHANGED matchVars /\ lastEventSeq' = lastEventSeq
      /\ (controller = "HUMAN") \in BOOLEAN
  BY FeedAssumption DEF Reload, IInv, LogTyped
<1>2. WireTyped' /\ BatchesJoin'
  BY <1>1, LosingTheLink DEF IInv, PageTyped
<1>3. PageTyped' /\ EveryEventPlays' /\ SettledHidesNothing'
  BY <1>1, Mounting
<1> QED BY <1>1, <1>2, <1>3, LogStays DEF IInv

LEMMA Rejoining ==
  ASSUME IInv, Rejoin
  PROVE  IInv'
<1>1. /\ Mounted(controller' = "HUMAN") /\ lastEventSeq' = lastEventSeq /\ drops' = drops
      /\ (controller' = "HUMAN") \in BOOLEAN
  BY DEF Rejoin
<1>2. PageTyped' /\ EveryEventPlays' /\ SettledHidesNothing'
  BY <1>1, Mounting
<1>3. CASE Publish(<<"INSTANT">>, "HUMAN", FALSE)
  <2>1. <<"INSTANT">> \in Seq(Kinds)
    BY DEF Kinds
  <2> QED BY <1>1, <1>2, <1>3, <2>1, Publishing DEF IInv
<1>4. CASE UNCHANGED <<matchVars, linkVars>>
  <2>1. LogTyped'
    BY <1>1, <1>4, LogStays DEF IInv, LogTyped
  <2>2. WireTyped' /\ BatchesJoin'
    BY <1>1, <1>4 DEF IInv, WireTyped, BatchesJoin, matchVars, linkVars
  <2> QED BY <1>2, <2>1, <2>2 DEF IInv
<1> QED BY <1>3, <1>4 DEF Rejoin

LEMMA PlayingAgain ==
  ASSUME IInv, Rematch
  PROVE  IInv'
<1>1. /\ Disconnected /\ Mounted(TRUE) /\ lastEventSeq' = lastEventSeq /\ drops' = drops
      /\ match' = match + 1 /\ match < MaxMatches /\ ended' = FALSE /\ controller' = "HUMAN"
      /\ log' \in Bursts
  BY DEF Rematch
<1>2. WireTyped' /\ BatchesJoin'
  BY <1>1, LosingTheLink DEF IInv, PageTyped
<1>3. PageTyped' /\ EveryEventPlays' /\ SettledHidesNothing'
  BY <1>1, Mounting
<1>4. LogTyped'
  <2>1. log' \in Seq(Kinds) /\ Len(log') \in 1..MaxEvents
    BY <1>1, BurstsAssumption
  <2>2. match' \in 1..MaxMatches /\ drops' \in 0..MaxDrops
    BY <1>1, FeedAssumption DEF IInv, LogTyped
  <2> QED BY <1>1, <2>1, <2>2 DEF LogTyped
<1> QED BY <1>2, <1>3, <1>4 DEF IInv

LEMMA NextKeeps ==
  ASSUME IInv, [Next]_vars
  PROVE  IInv'
<1>1. CASE UNCHANGED vars
  <2>1. /\ UNCHANGED matchVars /\ UNCHANGED linkVars /\ UNCHANGED pageVars /\ drops' = drops
    BY <1>1 DEF vars
  <2>2. LogTyped'
    BY <2>1, LogStays DEF IInv, LogTyped
  <2>3. WireTyped' /\ BatchesJoin'
    BY <2>1 DEF IInv, WireTyped, BatchesJoin, matchVars, linkVars, pageVars
  <2>4. PageTyped' /\ EveryEventPlays' /\ SettledHidesNothing'
    BY <2>1, PageStays DEF linkVars
  <2> QED BY <2>2, <2>3, <2>4 DEF IInv
<1> QED BY <1>1, MovingOn, TakingOver, Ending, Connecting, Subscribing, Delivering, Playing,
           Cutting, Reloading, Rejoining, PlayingAgain DEF Next

-----------------------------------------------------------------------------
(* The theorems *)

(* The invariant holds in every behaviour of the feed: what is on its way is   *)
(* what the log says, and the queue is never ahead of the stored cursor.     *)
THEOREM FeedStands == Spec => []IInv
<1>1. Init => IInv
  BY InitHolds
<1>2. IInv /\ [Next]_vars => IInv'
  BY NextKeeps
<1> QED BY <1>1, <1>2, PTL DEF Spec

LEMMA IInvTypes == IInv => TypeOK
<1> SUFFICES ASSUME IInv
             PROVE  TypeOK
  OBVIOUS
<1>1. LogTyped /\ WireTyped /\ PageTyped
  BY DEF IInv
<1>2. \A i \in DOMAIN wire :
        /\ wire[i].upto \in 1..Len(log)
        /\ wire[i].events \in Seq([seq : 1..wire[i].upto, kind : Kinds \ {"SECRET"}])
        /\ wire[i].type = "FULL_SNAPSHOT"
             => Len(wire[i].events) <= RecentImportantEventLimit
  <2> SUFFICES ASSUME NEW i \in DOMAIN wire
               PROVE  /\ wire[i].upto \in 1..Len(log)
                      /\ wire[i].events \in Seq([seq : 1..wire[i].upto, kind : Kinds \ {"SECRET"}])
                      /\ wire[i].type = "FULL_SNAPSHOT"
                           => Len(wire[i].events) <= RecentImportantEventLimit
    OBVIOUS
  <2>1. wire[i] \in TrueMessages(log)
    BY <1>1 DEF WireTyped
  <2>2. MessageOK(wire[i], log)
    BY <2>1 DEF TrueMessages
  <2>3. Visible(0, wire[i].upto) = [seq : 1..wire[i].upto, kind : Kinds \ {"SECRET"}]
    BY DEF Visible
  <2> QED BY <2>2, <2>3 DEF MessageOK
<1>3. presentation.lastCompleted <= presentation.lastQueued
  BY <1>1 DEF PageTyped, QueueTyped
<1> QED BY <1>1, <1>2, <1>3 DEF TypeOK, LogTyped, WireTyped, PageTyped

(* The state has its type; every message brings events that there are and     *)
(* that the player may see, and no snapshot more than its limit.             *)
THEOREM FeedTyped == Spec => []TypeOK
BY FeedStands, IInvTypes, PTL

(* Whatever is cut, restarted or asked for again: the browser, which applies   *)
(* a batch without comparing where it starts, never skips an event.          *)
THEOREM BatchesAlwaysJoin == Spec => []BatchesJoin
<1>1. IInv => BatchesJoin
  BY DEF IInv
<1> QED BY <1>1, FeedStands, PTL

(* From the snapshot on with which a screen began, each step of each event     *)
(* that the player may see is played once and in order.                      *)
THEOREM EventsPlayOnce == Spec => []EveryEventPlays
<1>1. IInv => EveryEventPlays
  BY DEF IInv
<1> QED BY <1>1, FeedStands, PTL

(* No card stays face down on a screen that has nothing left to play.         *)
THEOREM NothingStaysHidden == Spec => []SettledHidesNothing
<1>1. IInv => SettledHidesNothing
  BY DEF IInv
<1> QED BY <1>1, FeedStands, PTL
=============================================================================
