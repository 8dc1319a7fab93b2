----------------------------- MODULE Recursion -----------------------------
(***************************************************************************)
(* Facts that rest on induction, for the modules of proofs: that a set of  *)
(* numbers has a least one, that a function may be defined by recursion,   *)
(* and what FlattenSeq makes of sequences of every length.  Induction is   *)
(* taken from the least number that would be a counterexample.             *)
(***************************************************************************)
EXTENDS Integers, SequencesExt, SequenceTheorems, WellFoundedInduction, TLAPS

Below == {pair \in Nat \X Nat : pair[1] < pair[2]}

LEMMA Least ==
    ASSUME NEW T, T \subseteq Nat, T # {}
    PROVE  \E least \in T : \A n \in T : least <= n
  <1>1. IsWellFoundedOn(OpToRel(<, Nat), Nat)
    BY NatLessThanWellFounded
  <1>2. IsWellFoundedOn(Below, Nat)
    BY <1>1 DEF OpToRel, Below
  <1>3. PICK least \in T : \A n \in T : ~(<<n, least>> \in Below)
    BY <1>2, WFMin
  <1>4. ASSUME NEW n \in T PROVE least <= n
    <2>1. n \in Nat /\ least \in Nat
      OBVIOUS
    <2>2. ~(n < least)
      BY <1>3, <2>1 DEF Below
    <2> QED BY <2>1, <2>2
  <1> QED BY <1>4

\* Induction over a set: what holds of zero, and of each number after one it holds of.
LEMMA Inductive ==
    ASSUME NEW T, T \subseteq Nat, 0 \in T, \A n \in Nat : n \in T => n + 1 \in T
    PROVE  T = Nat
  <1> SUFFICES ASSUME Nat \ T # {} PROVE FALSE
    OBVIOUS
  <1>1. PICK least \in Nat \ T : \A n \in Nat \ T : least <= n
    BY Least
  <1>2. least - 1 \in Nat /\ least - 1 \notin T
    BY <1>1
  <1> QED BY <1>1, <1>2

Follows(f, S, first, step, n) ==
    /\ f \in [0..n -> S]
    /\ f[0] = first
    /\ \A i \in 0..(n - 1) : f[i + 1] = step[<<i, f[i]>>]

\* A function is defined on 0..n by its first value and the step to the next.
LEMMA Recursive ==
    ASSUME NEW S, NEW first \in S, NEW step \in [Nat \X S -> S], NEW n \in Nat
    PROVE  \E f : Follows(f, S, first, step, n)
  <1> DEFINE T == {m \in Nat : \E f : Follows(f, S, first, step, m)}
  <1>1. 0 \in T
    <2>1. Follows([i \in 0..0 |-> first], S, first, step, 0)
      BY DEF Follows
    <2> QED BY <2>1
  <1>2. ASSUME NEW m \in Nat, m \in T PROVE m + 1 \in T
    <2>1. PICK f : Follows(f, S, first, step, m)
      BY <1>2
    <2> DEFINE g == [i \in 0..(m + 1) |-> IF i = m + 1 THEN step[<<m, f[m]>>] ELSE f[i]]
    <2>2. f[m] \in S
      BY <2>1 DEF Follows
    <2>3. step[<<m, f[m]>>] \in S
      BY <2>2
    <2>4. g \in [0..(m + 1) -> S]
      BY <2>1, <2>3 DEF Follows
    <2>5. g[0] = first
      BY <2>1 DEF Follows
    <2>6. ASSUME NEW i \in 0..((m + 1) - 1) PROVE g[i + 1] = step[<<i, g[i]>>]
      <3>1. CASE i = m
        <4>1. g[m + 1] = step[<<m, f[m]>>]
          OBVIOUS
        <4>2. g[m] = f[m]
          OBVIOUS
        <4> QED BY <3>1, <4>1, <4>2
      <3>2. CASE i # m
        BY <2>1, <3>2 DEF Follows
      <3> QED BY <3>1, <3>2
    <2>7. Follows(g, S, first, step, m + 1)
      BY <2>4, <2>5, <2>6 DEF Follows
    <2> QED BY <2>7
  <1> HIDE DEF T
  <1>3. T = Nat
    <2>1. T \subseteq Nat
      BY DEF T
    <2> QED BY <1>1, <1>2, <2>1, Inductive
  <1> QED BY <1>3 DEF T

-----------------------------------------------------------------------------
(* FlattenSeq. *)

\* The concatenation of the first sequences, for every number of them.
Joins(f, X, seqs) ==
    /\ f \in [0..Len(seqs) -> Seq(X)]
    /\ f[0] = << >>
    /\ \A i \in 0..(Len(seqs) - 1) : f[i + 1] = f[i] \o seqs[i + 1]

\* What FlattenSeq calls flatten.
Flatten(f, seqs) ==
    f = [i \in 1..Len(seqs) |-> IF i = 1 THEN seqs[i] ELSE f[i - 1] \o seqs[i]]

LEMMA JoinsExist ==
    ASSUME NEW X, NEW seqs \in Seq(Seq(X))
    PROVE  \E f : Joins(f, X, seqs)
  <1> DEFINE step == [s \in Nat \X Seq(X) |->
                         IF s[1] + 1 \in 1..Len(seqs) THEN s[2] \o seqs[s[1] + 1] ELSE s[2]]
  <1>1. step \in [Nat \X Seq(X) -> Seq(X)]
    <2> SUFFICES ASSUME NEW i \in Nat, NEW s \in Seq(X)
                 PROVE  (IF i + 1 \in 1..Len(seqs) THEN s \o seqs[i + 1] ELSE s) \in Seq(X)
      OBVIOUS
    <2>1. i + 1 \in 1..Len(seqs) => seqs[i + 1] \in Seq(X)
      OBVIOUS
    <2> QED BY <2>1
  <1>2. << >> \in Seq(X) /\ Len(seqs) \in Nat
    OBVIOUS
  <1>3. PICK f : Follows(f, Seq(X), << >>, step, Len(seqs))
    BY <1>1, <1>2, Recursive
  <1>4. \A i \in 0..(Len(seqs) - 1) : f[i + 1] = step[<<i, f[i]>>]
    <2> HIDE DEF step
    <2> QED BY <1>3 DEF Follows
  <1>5. ASSUME NEW i \in 0..(Len(seqs) - 1)
        PROVE  f[i + 1] = f[i] \o seqs[i + 1]
    <2>1. i \in 0..Len(seqs) /\ i \in Nat /\ i + 1 \in 1..Len(seqs)
      BY <1>2
    <2>2. f[i] \in Seq(X)
      BY <1>3, <2>1 DEF Follows
    <2>3. f[i + 1] = step[<<i, f[i]>>]
      BY <1>4
    <2>4. step[<<i, f[i]>>] = f[i] \o seqs[i + 1]
      BY <2>1, <2>2
    <2> QED BY <2>3, <2>4
  <1> HIDE DEF step
  <1> QED BY <1>3, <1>5 DEF Joins, Follows

\* FlattenSeq joins them all.
LEMMA Flattened ==
    ASSUME NEW X, NEW seqs \in Seq(Seq(X))
    PROVE  \E f : Joins(f, X, seqs) /\ FlattenSeq(seqs) = f[Len(seqs)]
  <1>1. PICK f : Joins(f, X, seqs)
    BY JoinsExist
  <1>2. 1 \in 1..Len(seqs) => f[1] = seqs[1]
    <2> SUFFICES ASSUME 1 \in 1..Len(seqs) PROVE f[1] = seqs[1]
      OBVIOUS
    <2>1. f[0] = << >> /\ f[1] = f[0] \o seqs[1]
      <3>1. 0 \in 0..(Len(seqs) - 1) /\ 0 + 1 = 1
        OBVIOUS
      <3>2. f[0] = << >> /\ f[0 + 1] = f[0] \o seqs[0 + 1]
        BY <1>1, <3>1 DEF Joins
      <3> QED BY <3>1, <3>2
    <2>2. seqs[1] \in Seq(X)
      OBVIOUS
    <2>3. << >> \o seqs[1] = seqs[1]
      BY <2>2, ConcatEmptySeq
    <2> QED BY <2>1, <2>3
  <1>3. CASE Len(seqs) = 0
    <2>1. FlattenSeq(seqs) = << >>
      BY <1>3, EmptySeq DEF FlattenSeq
    <2> QED BY <1>1, <1>3, <2>1 DEF Joins
  <1>4. CASE Len(seqs) # 0
    <2> DEFINE g == [i \in 1..Len(seqs) |-> f[i]]
               flatten == CHOOSE h : Flatten(h, seqs)
    <2>1. Flatten(g, seqs)
      <3>1. ASSUME NEW i \in 1..Len(seqs)
            PROVE  f[i] = IF i = 1 THEN seqs[i] ELSE g[i - 1] \o seqs[i]
        <4>1. i - 1 \in 0..(Len(seqs) - 1) /\ (i - 1) + 1 = i
          OBVIOUS
        <4>2. f[i] = f[i - 1] \o seqs[i]
          BY <1>1, <4>1 DEF Joins
        <4>3. CASE i = 1
          BY <1>2, <4>3
        <4>4. CASE i # 1
          <5>1. i - 1 \in 1..Len(seqs)
            BY <4>4
          <5> QED BY <4>2, <4>4, <5>1
        <4> QED BY <4>3, <4>4
      <3> QED BY <3>1 DEF Flatten
    <2>2. Flatten(flatten, seqs)
      BY <2>1
    <2>3. FlattenSeq(seqs) = flatten[Len(seqs)]
      BY <1>4 DEF FlattenSeq, Flatten
    <2> HIDE DEF flatten, g
    <2> DEFINE T == {n \in Nat : n + 1 \in 1..Len(seqs) => flatten[n + 1] = f[n + 1]}
    <2>4. 0 \in T
      <3>1. 1 \in 1..Len(seqs) => flatten[1] = seqs[1]
        BY <2>2 DEF Flatten
      <3> QED BY <1>2, <3>1
    <2>5. ASSUME NEW n \in Nat, n \in T PROVE n + 1 \in T
      <3> SUFFICES ASSUME n + 2 \in 1..Len(seqs) PROVE flatten[n + 2] = f[n + 2]
        OBVIOUS
      <3>1. flatten[n + 2] = flatten[n + 1] \o seqs[n + 2]
        <4>1. n + 2 # 1 /\ (n + 2) - 1 = n + 1
          OBVIOUS
        <4>2. flatten[n + 2] = IF n + 2 = 1 THEN seqs[n + 2] ELSE flatten[(n + 2) - 1] \o seqs[n + 2]
          BY <2>2 DEF Flatten
        <4> QED BY <4>1, <4>2
      <3>2. flatten[n + 1] = f[n + 1]
        BY <2>5
      <3>3. f[n + 2] = f[n + 1] \o seqs[n + 2]
        <4>1. n + 1 \in 0..(Len(seqs) - 1) /\ (n + 1) + 1 = n + 2
          OBVIOUS
        <4> QED BY <1>1, <4>1 DEF Joins
      <3> QED BY <3>1, <3>2, <3>3
    <2>6. T = Nat
      <3>1. T \subseteq Nat
        OBVIOUS
      <3> HIDE DEF T
      <3> QED BY <2>4, <2>5, <3>1, Inductive
    <2>7. flatten[Len(seqs)] = f[Len(seqs)]
      <3>1. Len(seqs) - 1 \in Nat /\ (Len(seqs) - 1) + 1 \in 1..Len(seqs)
        BY <1>4
      <3>2. Len(seqs) - 1 \in T
        BY <2>6, <3>1
      <3>3. flatten[(Len(seqs) - 1) + 1] = f[(Len(seqs) - 1) + 1]
        BY <3>1, <3>2
      <3> QED BY <3>1, <3>3
    <2> QED BY <1>1, <2>3, <2>7
  <1> QED BY <1>3, <1>4

\* What is at each place of a concatenation.
Adds(shorter, part, whole) ==
    /\ Len(shorter) \in Nat /\ Len(part) \in Nat
    /\ Len(whole) = Len(shorter) + Len(part)
    /\ \A i \in 1..Len(shorter) : whole[i] = shorter[i]
    /\ \A i \in 1..Len(whole) : i > Len(shorter) =>
           i - Len(shorter) \in 1..Len(part) /\ whole[i] = part[i - Len(shorter)]

LEMMA ConcatAdds ==
    ASSUME NEW X, NEW shorter \in Seq(X), NEW part \in Seq(X),
           NEW whole, whole = shorter \o part
    PROVE  Adds(shorter, part, whole)
  <1>1. Len(shorter) \in Nat /\ Len(part) \in Nat
    OBVIOUS
  <1>2. PICK a \in Nat, b \in Nat : Len(shorter) = a /\ Len(part) = b
    BY <1>1
  <1>3. /\ Len(whole) = a + b
        /\ \A i \in 1..(a + b) : whole[i] = IF i <= a THEN shorter[i] ELSE part[i - a]
    BY <1>2, ConcatProperties
  <1>4. ASSUME NEW i \in 1..a PROVE whole[i] = shorter[i]
    BY <1>3
  <1>5. ASSUME NEW i \in 1..(a + b), i > a
        PROVE  i - a \in 1..b /\ whole[i] = part[i - a]
    <2>1. i - a \in 1..b /\ ~(i <= a)
      BY <1>5
    <2> QED BY <1>3, <2>1
  <1>6. Len(whole) = a + b
    BY <1>3
  <1> QED BY <1>1, <1>2, <1>4, <1>5, <1>6 DEF Adds

LEMMA JoinsStep ==
    ASSUME NEW X, NEW seqs \in Seq(Seq(X)), NEW f, Joins(f, X, seqs),
           NEW n \in Nat, n + 1 <= Len(seqs)
    PROVE  Adds(f[n], seqs[n + 1], f[n + 1])
  <1>1. n \in 0..(Len(seqs) - 1) /\ n \in 0..Len(seqs) /\ n + 1 \in 1..Len(seqs)
    OBVIOUS
  <1>2. f[n] \in Seq(X) /\ seqs[n + 1] \in Seq(X)
    BY <1>1 DEF Joins
  <1>3. f[n + 1] = f[n] \o seqs[n + 1]
    BY <1>1 DEF Joins
  <1> QED BY <1>2, <1>3, ConcatAdds

LEMMA FlattenType ==
    ASSUME NEW X, NEW seqs \in Seq(Seq(X))
    PROVE  FlattenSeq(seqs) \in Seq(X)
  <1>1. PICK f : Joins(f, X, seqs) /\ FlattenSeq(seqs) = f[Len(seqs)]
    BY Flattened
  <1>2. Len(seqs) \in 0..Len(seqs)
    OBVIOUS
  <1> QED BY <1>1, <1>2 DEF Joins

\* Nothing is in the whole that is in none of its parts.
LEMMA FlattenElements ==
    ASSUME NEW X, NEW seqs \in Seq(Seq(X)), NEW i \in 1..Len(FlattenSeq(seqs))
    PROVE  \E k \in 1..Len(seqs) : \E j \in 1..Len(seqs[k]) : FlattenSeq(seqs)[i] = seqs[k][j]
  <1>1. PICK f : Joins(f, X, seqs) /\ FlattenSeq(seqs) = f[Len(seqs)]
    BY Flattened
  <1> DEFINE T == {n \in Nat : n <= Len(seqs) =>
                      \A m \in 1..Len(f[n]) : \E k \in 1..Len(seqs) : \E j \in 1..Len(seqs[k]) :
                          f[n][m] = seqs[k][j]}
  <1>2. 0 \in T
    <2>1. Len(f[0]) = 0
      BY <1>1 DEF Joins
    <2> QED BY <2>1
  <1>3. ASSUME NEW n \in Nat, n \in T PROVE n + 1 \in T
    <2> SUFFICES ASSUME n + 1 <= Len(seqs), NEW m \in 1..Len(f[n + 1])
                 PROVE  \E k \in 1..Len(seqs) : \E j \in 1..Len(seqs[k]) :
                            f[n + 1][m] = seqs[k][j]
      OBVIOUS
    <2> DEFINE a == f[n]
               b == f[n + 1]
               part == seqs[n + 1]
    <2>1. Adds(a, part, b)
      BY <1>1, JoinsStep
    <2> HIDE DEF a, b, part
    <2>2. m \in 1..Len(b)
      BY DEF b
    <2>3. n + 1 \in 1..Len(seqs)
      OBVIOUS
    <2>4. CASE m <= Len(a)
      <3>1. m \in 1..Len(a)
        BY <2>1, <2>2, <2>4 DEF Adds
      <3>2. b[m] = a[m]
        BY <2>1, <3>1 DEF Adds
      <3>3. n <= Len(seqs)
        OBVIOUS
      <3>4. \A l \in 1..Len(f[n]) : \E k \in 1..Len(seqs) : \E j \in 1..Len(seqs[k]) :
                f[n][l] = seqs[k][j]
        BY <1>3, <3>3, Zenon
      <3>5. \E k \in 1..Len(seqs) : \E j \in 1..Len(seqs[k]) : a[m] = seqs[k][j]
        BY <3>1, <3>4 DEF a
      <3> QED BY <3>2, <3>5 DEF a, b
    <2>5. CASE m > Len(a)
      <3>1. m - Len(a) \in 1..Len(part) /\ b[m] = part[m - Len(a)]
        BY <2>1, <2>2, <2>5 DEF Adds
      <3> QED BY <2>3, <3>1 DEF b, part
    <2> QED BY <2>1, <2>2, <2>4, <2>5 DEF Adds
  <1>4. Len(seqs) \in T
    <2>1. T \subseteq Nat /\ Len(seqs) \in Nat
      OBVIOUS
    <2> HIDE DEF T
    <2> QED BY <1>2, <1>3, <2>1, Inductive
  <1> QED BY <1>1, <1>4

\* Parts of one element are kept in their places, up to the first that may be longer.
LEMMA FlattenSingles ==
    ASSUME NEW X, NEW seqs \in Seq(Seq(X)), NEW last \in Nat, last <= Len(seqs),
           \A k \in 1..last : Len(seqs[k]) = 1,
           NEW i \in 1..last
    PROVE  i \in 1..Len(FlattenSeq(seqs)) /\ FlattenSeq(seqs)[i] = seqs[i][1]
  <1>1. PICK f : Joins(f, X, seqs) /\ FlattenSeq(seqs) = f[Len(seqs)]
    BY Flattened
  <1> DEFINE T == {n \in Nat : n <= Len(seqs) =>
                      /\ n <= last => Len(f[n]) = n
                      /\ \A k \in 1..last : k <= n => k \in 1..Len(f[n]) /\ f[n][k] = seqs[k][1]}
  <1>2. 0 \in T
    <2>1. Len(f[0]) = 0
      BY <1>1 DEF Joins
    <2> QED BY <2>1
  <1>3. ASSUME NEW n \in Nat, n \in T PROVE n + 1 \in T
    <2>0. last \in Nat /\ Len(seqs) \in Nat
      OBVIOUS
    <2> SUFFICES ASSUME n + 1 <= Len(seqs)
                 PROVE  /\ n + 1 <= last => Len(f[n + 1]) = n + 1
                        /\ \A k \in 1..last : k <= n + 1 =>
                               k \in 1..Len(f[n + 1]) /\ f[n + 1][k] = seqs[k][1]
      OBVIOUS
    <2> DEFINE a == f[n]
               b == f[n + 1]
               part == seqs[n + 1]
    <2>1. Adds(a, part, b)
      BY <1>1, JoinsStep
    <2> HIDE DEF a, b, part
    <2>2. /\ n <= last => Len(a) = n
          /\ \A k \in 1..last : k <= n => k \in 1..Len(a) /\ a[k] = seqs[k][1]
      BY <1>3 DEF a
    <2>3. n + 1 <= last => Len(b) = n + 1 /\ Len(a) = n
      <3> SUFFICES ASSUME n + 1 <= last PROVE Len(b) = n + 1 /\ Len(a) = n
        OBVIOUS
      <3>1. n + 1 \in 1..last /\ n <= last
        BY <2>0
      <3>2. Len(part) = 1 /\ Len(a) = n
        BY <2>2, <3>1 DEF part
      <3> QED BY <2>1, <3>2 DEF Adds
    <2>4. ASSUME NEW k \in 1..last, k <= n + 1
          PROVE  k \in 1..Len(b) /\ b[k] = seqs[k][1]
      <3>1. CASE k <= n
        <4>1. k \in 1..Len(a) /\ a[k] = seqs[k][1]
          BY <2>2, <3>1
        <4>2. b[k] = a[k] /\ k \in 1..Len(b)
          BY <2>1, <4>1 DEF Adds
        <4> QED BY <4>1, <4>2
      <3>2. CASE k = n + 1
        <4>1. Len(a) = n /\ Len(b) = n + 1
          BY <2>3, <3>2
        <4>2. (n + 1) - n = 1
          OBVIOUS
        <4>3. b[n + 1] = part[1]
          BY <2>1, <4>1, <4>2 DEF Adds
        <4> QED BY <3>2, <4>1, <4>3 DEF part
      <3> QED BY <2>4, <3>1, <3>2
    <2> QED BY <2>3, <2>4 DEF b
  <1>4. Len(seqs) \in T
    <2>1. T \subseteq Nat /\ Len(seqs) \in Nat
      OBVIOUS
    <2> HIDE DEF T
    <2> QED BY <1>2, <1>3, <2>1, Inductive
  <1> QED BY <1>1, <1>4

\* A word begins another.
Begins(a, b) == Len(a) <= Len(b) /\ \A i \in 1..Len(a) : a[i] = b[i]

\* What is joined so far begins the whole.
LEMMA JoinsGrow ==
    ASSUME NEW X, NEW seqs \in Seq(Seq(X)), NEW f, Joins(f, X, seqs),
           NEW n \in Nat, n <= Len(seqs)
    PROVE  Begins(f[n], f[Len(seqs)])
  <1> DEFINE T == {m \in Nat : n + m <= Len(seqs) => Begins(f[n], f[n + m])}
  <1>1. f[n] \in Seq(X) /\ Len(f[n]) \in Nat
    <2>1. n \in 0..Len(seqs)
      OBVIOUS
    <2>2. f[n] \in Seq(X)
      BY <2>1 DEF Joins
    <2> QED BY <2>2
  <1>2. 0 \in T
    BY <1>1 DEF Begins
  <1>3. ASSUME NEW m \in Nat, m \in T PROVE m + 1 \in T
    <2> SUFFICES ASSUME n + (m + 1) <= Len(seqs) PROVE Begins(f[n], f[n + (m + 1)])
      OBVIOUS
    <2> DEFINE a == f[n + m]
               b == f[(n + m) + 1]
               part == seqs[(n + m) + 1]
    <2>1. Begins(f[n], a)
      BY <1>3
    <2>2. Adds(a, part, b)
      <3>1. n + m \in Nat /\ (n + m) + 1 <= Len(seqs)
        OBVIOUS
      <3> HIDE DEF T
      <3> QED BY <3>1, JoinsStep
    <2>3. n + (m + 1) = (n + m) + 1
      OBVIOUS
    <2> HIDE DEF a, b, part
    <2>4. Len(f[n]) <= Len(b)
      BY <1>1, <2>1, <2>2 DEF Begins, Adds
    <2>5. ASSUME NEW i \in 1..Len(f[n]) PROVE f[n][i] = b[i]
      <3>1. i \in 1..Len(a)
        BY <1>1, <2>1, <2>2 DEF Begins, Adds
      <3> QED BY <2>1, <2>2, <3>1 DEF Begins, Adds
    <2>6. Begins(f[n], b)
      BY <2>4, <2>5 DEF Begins
    <2> QED BY <2>3, <2>6 DEF b
  <1>4. Len(seqs) - n \in T
    <2>1. T \subseteq Nat /\ Len(seqs) - n \in Nat
      OBVIOUS
    <2> HIDE DEF T
    <2> QED BY <1>2, <1>3, <2>1, Inductive
  <1>5. Len(seqs) - n \in Nat /\ n + (Len(seqs) - n) = Len(seqs)
    OBVIOUS
  <1> QED BY <1>4, <1>5

\* Two joinings agree as far as their parts do.
LEMMA JoinsAgree ==
    ASSUME NEW X, NEW seqs \in Seq(Seq(X)), NEW others \in Seq(Seq(X)),
           NEW f, Joins(f, X, seqs), NEW g, Joins(g, X, others),
           NEW n \in Nat, n <= Len(seqs), n <= Len(others),
           \A i \in 1..n : seqs[i] = others[i]
    PROVE  f[n] = g[n]
  <1> DEFINE T == {m \in Nat : m <= n => f[m] = g[m]}
  <1>1. 0 \in T
    BY DEF Joins
  <1>2. ASSUME NEW m \in Nat, m \in T PROVE m + 1 \in T
    <2> SUFFICES ASSUME m + 1 <= n PROVE f[m + 1] = g[m + 1]
      OBVIOUS
    <2>1. /\ m \in 0..(Len(seqs) - 1) /\ m \in 0..(Len(others) - 1)
          /\ m + 1 \in 1..n /\ m <= n
      OBVIOUS
    <2>2. f[m] = g[m]
      BY <1>2, <2>1
    <2>3. f[m + 1] = f[m] \o seqs[m + 1] /\ g[m + 1] = g[m] \o others[m + 1]
      BY <2>1 DEF Joins
    <2>4. seqs[m + 1] = others[m + 1]
      BY <2>1
    <2> QED BY <2>2, <2>3, <2>4
  <1>3. n \in T
    <2>1. T \subseteq Nat
      OBVIOUS
    <2> HIDE DEF T
    <2> QED BY <1>1, <1>2, <2>1, Inductive
  <1> QED BY <1>3

\* Of two words added to one, where both begin the same whole, one begins the other.
LEMMA BeginsBoth ==
    ASSUME NEW start, NEW a, NEW b, NEW one, NEW two, NEW whole,
           Adds(start, a, one), Adds(start, b, two), Begins(one, whole), Begins(two, whole),
           Len(whole) \in Nat, Len(a) <= Len(b)
    PROVE  Begins(a, b)
  <1>1. PICK n \in Nat, k \in Nat, l \in Nat : n = Len(start) /\ k = Len(a) /\ l = Len(b)
    BY DEF Adds
  <1>2. Len(one) = n + k /\ Len(two) = n + l /\ k <= l
    BY <1>1 DEF Adds
  <1>3. ASSUME NEW i \in 1..k PROVE a[i] = b[i]
    <2>1. /\ n + i \in 1..(n + k) /\ n + i \in 1..(n + l) /\ n + i > n
          /\ (n + i) - n = i
      BY <1>2
    <2>2. one[n + i] = a[i] /\ two[n + i] = b[i]
      BY <1>1, <1>2, <2>1 DEF Adds
    <2>3. one[n + i] = whole[n + i] /\ two[n + i] = whole[n + i]
      BY <1>2, <2>1 DEF Begins
    <2> QED BY <2>2, <2>3
  <1> QED BY <1>1, <1>2, <1>3 DEF Begins

\* Where no part begins another, a word is the joining of one sequence of parts only.
LEMMA FlattenUnique ==
    ASSUME NEW X, NEW seqs \in Seq(Seq(X)), NEW others \in Seq(Seq(X)),
           \A i \in 1..Len(seqs) : Len(seqs[i]) > 0,
           \A j \in 1..Len(others) : Len(others[j]) > 0,
           \A i \in 1..Len(seqs), j \in 1..Len(others) :
               (Begins(seqs[i], others[j]) \/ Begins(others[j], seqs[i])) => seqs[i] = others[j],
           FlattenSeq(seqs) = FlattenSeq(others)
    PROVE  seqs = others
  <1>1. PICK f : Joins(f, X, seqs) /\ FlattenSeq(seqs) = f[Len(seqs)]
    BY Flattened
  <1>2. PICK g : Joins(g, X, others) /\ FlattenSeq(others) = g[Len(others)]
    BY Flattened
  <1> DEFINE whole == FlattenSeq(seqs)
             Both(n) == n <= Len(seqs) /\ n <= Len(others)
             T == {n \in Nat : Both(n) => \A i \in 1..n : seqs[i] = others[i]}
  <1>3. whole \in Seq(X) /\ Len(whole) \in Nat
    <2>1. whole \in Seq(X)
      BY FlattenType
    <2> QED BY <2>1
  <1>4. whole = f[Len(seqs)] /\ whole = g[Len(others)]
    BY <1>1, <1>2
  <1> HIDE DEF whole
  <1>5. 0 \in T
    OBVIOUS
  <1>6. ASSUME NEW n \in Nat, n \in T PROVE n + 1 \in T
    <2> SUFFICES ASSUME Both(n + 1) PROVE \A i \in 1..(n + 1) : seqs[i] = others[i]
      OBVIOUS
    <2>1. /\ n <= Len(seqs) /\ n <= Len(others)
          /\ n + 1 <= Len(seqs) /\ n + 1 <= Len(others)
          /\ n + 1 \in 1..Len(seqs) /\ n + 1 \in 1..Len(others)
      OBVIOUS
    <2>2. \A i \in 1..n : seqs[i] = others[i]
      BY <1>6, <2>1
    <2> DEFINE a == seqs[n + 1]
               b == others[n + 1]
    <2> HIDE DEF T, Both
    <2>3. f[n] = g[n]
      BY <1>1, <1>2, <2>1, <2>2, JoinsAgree
    <2>4. Adds(f[n], a, f[n + 1]) /\ Adds(f[n], b, g[n + 1])
      <3>1. Adds(f[n], a, f[n + 1])
        BY <1>1, <2>1, JoinsStep
      <3>2. Adds(g[n], b, g[n + 1])
        BY <1>2, <2>1, JoinsStep
      <3> QED BY <2>3, <3>1, <3>2
    <2>5. Begins(f[n + 1], whole) /\ Begins(g[n + 1], whole)
      <3>1. n + 1 \in Nat
        OBVIOUS
      <3>2. Begins(f[n + 1], f[Len(seqs)])
        BY <1>1, <2>1, <3>1, JoinsGrow
      <3>3. Begins(g[n + 1], g[Len(others)])
        BY <1>2, <2>1, <3>1, JoinsGrow
      <3> QED BY <1>4, <3>2, <3>3
    <2>6. Len(a) \in Nat /\ Len(b) \in Nat
      BY <2>4 DEF Adds
    <2> HIDE DEF a, b
    <2>7. Begins(a, b) \/ Begins(b, a)
      <3>1. CASE Len(a) <= Len(b)
        BY <1>3, <2>4, <2>5, <3>1, BeginsBoth
      <3>2. CASE Len(b) <= Len(a)
        BY <1>3, <2>4, <2>5, <3>2, BeginsBoth
      <3> QED BY <2>6, <3>1, <3>2
    <2>8. a = b
      BY <2>1, <2>7 DEF a, b
    <2>9. ASSUME NEW i \in 1..(n + 1) PROVE seqs[i] = others[i]
      <3>1. i \in 1..n \/ i = n + 1
        OBVIOUS
      <3> QED BY <2>2, <2>8, <3>1 DEF a, b
    <2> QED BY <2>9
  <1>7. T = Nat
    <2>1. T \subseteq Nat
      OBVIOUS
    <2> HIDE DEF T
    <2> QED BY <1>5, <1>6, <2>1, Inductive
  <1>8. ASSUME NEW n \in Nat, Both(n) PROVE \A i \in 1..n : seqs[i] = others[i]
    BY <1>7, <1>8
  <1>9. Len(seqs) \in Nat /\ Len(others) \in Nat
    OBVIOUS
  <1> HIDE DEF T
  <1>10. ~(Len(seqs) < Len(others))
    <2> SUFFICES ASSUME Len(seqs) < Len(others) PROVE FALSE
      OBVIOUS
    <2> DEFINE n == Len(seqs)
    <2>1. n \in Nat /\ n <= Len(others) /\ n <= Len(seqs) /\ n + 1 <= Len(others)
          /\ n + 1 \in 1..Len(others) /\ n + 1 \in Nat
      BY <1>9
    <2>2. \A i \in 1..n : seqs[i] = others[i]
      BY <1>8, <2>1
    <2> HIDE DEF n, Both
    <2>3. f[n] = g[n]
      BY <1>1, <1>2, <2>1, <2>2, JoinsAgree
    <2>4. Adds(g[n], others[n + 1], g[n + 1])
      BY <1>2, <2>1, JoinsStep
    <2>5. Begins(g[n + 1], g[Len(others)])
      BY <1>2, <2>1, JoinsGrow
    <2>6. whole = g[n]
      BY <1>4, <2>3 DEF n
    <2>7. Len(others[n + 1]) > 0
      BY <2>1
    <2> DEFINE next == g[n + 1]
               added == others[n + 1]
    <2>8. Adds(whole, added, next)
      BY <2>4, <2>6
    <2>9. Begins(next, whole)
      BY <1>4, <2>5 DEF n
    <2>10. Len(added) > 0
      BY <2>7
    <2> HIDE DEF next, added
    <2>11. PICK k \in Nat : k = Len(whole)
      BY <2>8 DEF Adds
    <2>12. PICK m \in Nat : m = Len(added)
      BY <2>8 DEF Adds
    <2>13. Len(next) = k + m
      BY <2>8, <2>11, <2>12 DEF Adds
    <2>14. k + m <= k
      BY <2>9, <2>11, <2>13 DEF Begins
    <2>15. m > 0
      BY <2>10, <2>12
    <2> QED BY <2>14, <2>15
  <1>11. ~(Len(others) < Len(seqs))
    <2> SUFFICES ASSUME Len(others) < Len(seqs) PROVE FALSE
      OBVIOUS
    <2> DEFINE n == Len(others)
    <2>1. n \in Nat /\ n <= Len(others) /\ n <= Len(seqs) /\ n + 1 <= Len(seqs)
          /\ n + 1 \in 1..Len(seqs) /\ n + 1 \in Nat
      BY <1>9
    <2>2. \A i \in 1..n : seqs[i] = others[i]
      BY <1>8, <2>1
    <2> HIDE DEF n, Both
    <2>3. f[n] = g[n]
      BY <1>1, <1>2, <2>1, <2>2, JoinsAgree
    <2>4. Adds(f[n], seqs[n + 1], f[n + 1])
      BY <1>1, <2>1, JoinsStep
    <2>5. Begins(f[n + 1], f[Len(seqs)])
      BY <1>1, <2>1, JoinsGrow
    <2>6. whole = f[n]
      BY <1>4, <2>3 DEF n
    <2>7. Len(seqs[n + 1]) > 0
      BY <2>1
    <2> DEFINE next == f[n + 1]
               added == seqs[n + 1]
    <2>8. Adds(whole, added, next)
      BY <2>4, <2>6
    <2>9. Begins(next, whole)
      BY <1>4, <2>5 DEF n
    <2>10. Len(added) > 0
      BY <2>7
    <2> HIDE DEF next, added
    <2>11. PICK k \in Nat : k = Len(whole)
      BY <2>8 DEF Adds
    <2>12. PICK m \in Nat : m = Len(added)
      BY <2>8 DEF Adds
    <2>13. Len(next) = k + m
      BY <2>8, <2>11, <2>12 DEF Adds
    <2>14. k + m <= k
      BY <2>9, <2>11, <2>13 DEF Begins
    <2>15. m > 0
      BY <2>10, <2>12
    <2> QED BY <2>14, <2>15
  <1>12. Len(seqs) = Len(others)
    BY <1>9, <1>10, <1>11
  <1>13. \A i \in 1..Len(seqs) : seqs[i] = others[i]
    BY <1>8, <1>9, <1>12
  <1> QED BY <1>12, <1>13, SeqEqual

\* A part for each place of a sequence, empty but at the places chosen.
Chosen(parts, X, seq, places) ==
    /\ parts \in Seq(Seq(X)) /\ Len(parts) = Len(seq) /\ places \subseteq 1..Len(seq)
    /\ \A i \in 1..Len(seq) : parts[i] = IF i \in places THEN <<seq[i]>> ELSE << >>

\* Each element of what is kept is that of one of the places, and of no other's.
Keeps(at, kept, seq, places) ==
    /\ at \in [1..Len(kept) -> places]
    /\ \A i \in 1..Len(kept) : kept[i] = seq[at[i]]
    /\ \A i, j \in 1..Len(kept) : at[i] = at[j] => i = j
    /\ \A k \in places : \E i \in 1..Len(kept) : at[i] = k

LEMMA FlattenPlaces ==
    ASSUME NEW X, NEW seq \in Seq(X), NEW places, NEW parts, Chosen(parts, X, seq, places)
    PROVE  /\ FlattenSeq(parts) \in Seq(X)
           /\ \E at : Keeps(at, FlattenSeq(parts), seq, places)
  <1> DEFINE kept == FlattenSeq(parts)
  <1>1. PICK len \in Nat : len = Len(seq)
    OBVIOUS
  <1>2. /\ parts \in Seq(Seq(X)) /\ Len(parts) = len
        /\ \A i \in 1..len : parts[i] = IF i \in places THEN <<seq[i]>> ELSE << >>
        /\ \A i \in 1..len : seq[i] \in X
    BY <1>1 DEF Chosen
  <1>3. places \subseteq 1..len
    BY <1>1 DEF Chosen
  <1>4. PICK f : Joins(f, X, parts) /\ FlattenSeq(parts) = f[len]
    BY <1>2, Flattened
  <1> DEFINE Places(n) == places \cap 1..n
             Sound(n, at) ==
                 /\ at \in [1..Len(f[n]) -> Places(n)]
                 /\ \A i \in 1..Len(f[n]) : f[n][i] = seq[at[i]]
                 /\ \A i, j \in 1..Len(f[n]) : at[i] = at[j] => i = j
                 /\ \A k \in Places(n) : \E i \in 1..Len(f[n]) : at[i] = k
             T == {n \in Nat : n <= len => \E at : Sound(n, at)}
  <1>5. 0 \in T
    <2>1. f[0] = << >> /\ Places(0) = {}
      BY <1>4 DEF Joins
    <2>2. Len(f[0]) = 0 /\ 1..0 = {}
      BY <2>1
    <2>3. Sound(0, [i \in {} |-> i])
      BY <2>1, <2>2
    <2> QED BY <2>3
  <1>6. ASSUME NEW n \in Nat, n \in T PROVE n + 1 \in T
    <2> SUFFICES ASSUME n + 1 <= len PROVE \E at : Sound(n + 1, at)
      BY <1>1
    <2>1. n <= len /\ n \in 0..(len - 1) /\ n \in 0..len /\ n + 1 \in 1..len
      BY <1>1
    <2>2. PICK at : Sound(n, at)
      BY <1>6, <2>1
    <2> DEFINE a == f[n]
               b == f[n + 1]
    <2>3. a \in Seq(X) /\ b = a \o parts[n + 1]
      <3>1. n \in 0..(Len(parts) - 1) /\ n \in 0..Len(parts)
        BY <1>2, <2>1
      <3> QED BY <1>4, <3>1 DEF Joins
    <2>4. /\ at \in [1..Len(a) -> Places(n)]
          /\ \A i \in 1..Len(a) : a[i] = seq[at[i]]
          /\ \A i, j \in 1..Len(a) : at[i] = at[j] => i = j
          /\ \A k \in Places(n) : \E i \in 1..Len(a) : at[i] = k
      BY <2>2
    <2> HIDE DEF a, b
    <2>5. PICK m \in Nat : m = Len(a)
      BY <2>3
    <2>6. CASE n + 1 \notin places
      <3>1. b = a
        BY <1>2, <2>1, <2>3, <2>6
      <3>2. Places(n + 1) = Places(n)
        BY <2>6
      <3>3. Sound(n + 1, at)
        BY <2>4, <3>1, <3>2 DEF a, b
      <3> QED BY <3>3
    <2>7. CASE n + 1 \in places
      <3> DEFINE next == [i \in 1..(m + 1) |-> IF i <= m THEN at[i] ELSE n + 1]
      <3>1. Len(b) = m + 1 /\ b[m + 1] = seq[n + 1] /\ \A i \in 1..m : b[i] = a[i]
        <4> DEFINE x == seq[n + 1]
        <4>1. x \in X /\ b = a \o <<x>>
          BY <1>2, <2>1, <2>3, <2>7
        <4> HIDE DEF x
        <4>2. Len(b) = m + 1 /\ b[m + 1] = x /\ \A i \in 1..m : b[i] = a[i]
          BY <2>3, <2>5, <4>1
        <4> QED BY <4>2 DEF x
      <3>2. /\ Places(n + 1) = Places(n) \cup {n + 1} /\ n + 1 \notin Places(n)
        BY <2>7
      <3> HIDE DEF Places
      <3>3. \A i \in 1..m : at[i] \in Places(n)
        BY <2>4, <2>5
      <3>4. /\ \A i \in 1..m : next[i] = at[i]
            /\ next[m + 1] = n + 1 /\ DOMAIN next = 1..(m + 1)
            /\ next = [i \in 1..(m + 1) |-> next[i]]
        OBVIOUS
      <3>5. \A i \in 1..(m + 1) : i \in 1..m \/ i = m + 1
        OBVIOUS
      <3> HIDE DEF next
      <3>6. next \in [1..(m + 1) -> Places(n + 1)]
        BY <3>2, <3>3, <3>4, <3>5
      <3>7. \A i \in 1..(m + 1) : b[i] = seq[next[i]]
        BY <2>4, <2>5, <3>1, <3>4, <3>5
      <3>8. ASSUME NEW i \in 1..(m + 1), NEW j \in 1..(m + 1), next[i] = next[j] PROVE i = j
        <4>1. CASE i \in 1..m /\ j \in 1..m
          BY <2>4, <2>5, <3>4, <3>8, <4>1
        <4>2. CASE i = m + 1 /\ j \in 1..m
          BY <3>2, <3>3, <3>4, <3>8, <4>2
        <4>3. CASE i \in 1..m /\ j = m + 1
          BY <3>2, <3>3, <3>4, <3>8, <4>3
        <4> QED BY <3>5, <4>1, <4>2, <4>3
      <3>9. \A k \in Places(n + 1) : \E i \in 1..(m + 1) : next[i] = k
        <4>1. \A i \in 1..m : i \in 1..(m + 1)
          OBVIOUS
        <4>2. m + 1 \in 1..(m + 1)
          OBVIOUS
        <4> QED BY <2>4, <2>5, <3>2, <3>4, <4>1, <4>2
      <3>10. Sound(n + 1, next)
        BY <3>1, <3>6, <3>7, <3>8, <3>9 DEF b
      <3> QED BY <3>10
    <2> QED BY <2>6, <2>7
  <1>7. len \in T
    <2>1. T \subseteq Nat
      OBVIOUS
    <2> HIDE DEF T
    <2> QED BY <1>1, <1>5, <1>6, <2>1, Inductive
  <1>8. PICK at : Sound(len, at)
    BY <1>7
  <1>9. Places(len) = places /\ f[len] = kept
    BY <1>3, <1>4
  <1>10. kept \in Seq(X)
    BY <1>2, FlattenType
  <1> HIDE DEF Places, kept
  <1>11. Keeps(at, kept, seq, places)
    BY <1>8, <1>9 DEF Keeps
  <1> QED BY <1>10, <1>11 DEF kept
=============================================================================
