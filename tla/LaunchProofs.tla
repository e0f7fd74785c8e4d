---------------------------- MODULE LaunchProofs ----------------------------
(***************************************************************************)
(* The safety of the runners that need only a shell, for any outputs, any    *)
(* window and any loss of the connection, and their refinement of           *)
(* CommandRun, stated of the flow that uses one of them to start a launcher  *)
(* script; and the safety of that flow, for any jobs, runs and failures.    *)
(***************************************************************************)
EXTENDS LaunchSlurm, TLAPS, FiniteSetTheorems, WellFoundedInduction

-----------------------------------------------------------------------------
(* Induction and recursion over the naturals, for sets and functions in the  *)
(* place of the operators of NaturalsInduction.                             *)

\* A set of naturals that is not empty has a least member.
LEMMA Least ==
  ASSUME NEW S \in SUBSET Nat, S # {}
  PROVE  \E n \in S : \A m \in S : n <= m
<1> DEFINE R == OpToRel(<, Nat)
<1>1. \A x, y \in Nat : <<y, x>> \in R <=> y < x
  BY DEF OpToRel
<1>2. IsWellFoundedOn(R, Nat)
  BY NatLessThanWellFounded
<1> HIDE DEF R
<1>3. PICK n \in S : \A m \in S : ~(<<m, n>> \in R)
  BY <1>2, WFMin
<1>4. \A m \in S : ~(m < n)
  BY <1>1, <1>3
<1>5. \A m \in S : n <= m
  BY <1>4
<1> QED
  BY <1>5

\* A set with 0 and the successors of its members has all naturals.
LEMMA Induction ==
  ASSUME NEW S, 0 \in S, \A n \in Nat : n \in S => n + 1 \in S
  PROVE  Nat \subseteq S
<1> SUFFICES ASSUME Nat \ S # {} PROVE FALSE
  OBVIOUS
<1>1. PICK n \in Nat \ S : \A m \in Nat \ S : n <= m
  BY Least
<1>2. n # 0 /\ n - 1 \in Nat /\ n - 1 \in S
  BY <1>1
<1> QED
  BY <1>1, <1>2

\* g is what the recursion gives up to n.
Upto(S, c, step, n, g) ==
  /\ g \in [0..n -> S]
  /\ g[0] = c
  /\ \A k \in 0..(n - 1) : g[k + 1] = step[k][g[k]]

\* A recursion defined up to n is defined up to n + 1.
LEMMA Extend ==
  ASSUME NEW S, NEW c \in S, NEW step \in [Nat -> [S -> S]],
         NEW n \in Nat, NEW g, Upto(S, c, step, n, g)
  PROVE  Upto(S, c, step, n + 1, [k \in 0..(n + 1) |-> IF k = n + 1 THEN step[n][g[n]] ELSE g[k]])
<1> DEFINE h == [k \in 0..(n + 1) |-> IF k = n + 1 THEN step[n][g[n]] ELSE g[k]]
<1>1. g \in [0..n -> S] /\ g[0] = c /\ \A k \in 0..(n - 1) : g[k + 1] = step[k][g[k]]
  BY DEF Upto
<1>2. step[n][g[n]] \in S
  BY <1>1
<1>3. h \in [0..(n + 1) -> S]
  BY <1>1, <1>2
<1>4. h[0] = c
  BY <1>1
<1>5. ASSUME NEW k \in 0..n PROVE h[k + 1] = step[k][h[k]]
  <2>1. h[k] = g[k]
    OBVIOUS
  <2>2. h[k + 1] = IF k = n THEN step[n][g[n]] ELSE g[k + 1]
    OBVIOUS
  <2> HIDE DEF h
  <2> QED
    BY <2>1, <2>2, <1>1
<1> HIDE DEF h
<1>6. Upto(S, c, step, n + 1, h)
  BY <1>3, <1>4, <1>5 DEF Upto
<1> QED
  BY <1>6 DEF h

\* Two beginnings of one recursion agree where both are defined.
LEMMA UptoAgree ==
  ASSUME NEW S, NEW c, NEW step, NEW n \in Nat, NEW m \in Nat, n <= m,
         NEW g, NEW h, Upto(S, c, step, n, g), Upto(S, c, step, m, h)
  PROVE  \A k \in 0..n : g[k] = h[k]
<1> DEFINE Agree == {k \in Nat : k <= n => g[k] = h[k]}
<1>1. 0 \in Agree
  BY DEF Upto
<1>2. ASSUME NEW k \in Nat, k \in Agree PROVE k + 1 \in Agree
  <2> SUFFICES ASSUME k + 1 <= n PROVE g[k + 1] = h[k + 1]
    OBVIOUS
  <2>1. g[k] = h[k] /\ k \in 0..(n - 1) /\ k \in 0..(m - 1)
    BY <1>2
  <2> QED
    BY <2>1 DEF Upto
<1>3. Nat \subseteq Agree
  <2> HIDE DEF Agree
  <2> QED
    BY <1>1, <1>2, Induction
<1> QED
  BY <1>3

\* f begins with c, and step[n] takes f[n] to f[n + 1].
Steps(S) == [Nat -> [S -> S]]
Iterates(f, S, c, step) ==
  /\ f \in [Nat -> S]
  /\ f[0] = c
  /\ \A n \in Nat : f[n + 1] = step[n][f[n]]

\* A recursion with a value for 0 and a step for each n has a solution.
LEMMA Recursion ==
  ASSUME NEW S, NEW c \in S, NEW step \in Steps(S)
  PROVE  \E f : Iterates(f, S, c, step)
<1> DEFINE Have == {n \in Nat : \E g : Upto(S, c, step, n, g)}
<1>1. 0 \in Have
  <2>1. Upto(S, c, step, 0, [k \in 0..0 |-> c])
    BY DEF Upto
  <2> QED
    BY <2>1
<1>2. ASSUME NEW n \in Nat, n \in Have PROVE n + 1 \in Have
  <2>1. PICK g : Upto(S, c, step, n, g)
    BY <1>2
  <2>2. \E h : Upto(S, c, step, n + 1, h)
    BY <2>1, Extend DEF Steps
  <2> QED
    BY <2>2
<1>3. Nat \subseteq Have
  <2> HIDE DEF Have
  <2> QED
    BY <1>1, <1>2, Induction
<1> DEFINE G(n) == CHOOSE g : Upto(S, c, step, n, g)
           f == [n \in Nat |-> G(n)[n]]
<1>4. \A n \in Nat : Upto(S, c, step, n, G(n))
  BY <1>3
<1> HIDE DEF G
<1>5. ASSUME NEW n \in Nat PROVE f[n] \in S
  BY <1>4 DEF Upto
<1>6. f[0] = c
  BY <1>4 DEF Upto
<1>7. ASSUME NEW n \in Nat PROVE f[n + 1] = step[n][f[n]]
  <2>1. Upto(S, c, step, n, G(n)) /\ Upto(S, c, step, n + 1, G(n + 1))
    BY <1>4
  <2>2. G(n)[n] = G(n + 1)[n]
    <3>1. \A k \in 0..n : G(n)[k] = G(n + 1)[k]
      BY <2>1, UptoAgree
    <3> QED
      BY <3>1
  <2>3. G(n + 1)[n + 1] = step[n][G(n + 1)[n]]
    BY <2>1 DEF Upto
  <2> QED
    BY <2>2, <2>3
<1>8. f \in [Nat -> S]
  BY <1>5
<1> HIDE DEF f
<1> QED
  BY <1>6, <1>7, <1>8 DEF Iterates

\* g[n] is what Only keeps of the first n lines.
Selects(g, lines, S) ==
  g = [n \in 0..Len(lines) |->
         IF n = 0 THEN <<>>
         ELSE IF lines[n] \in S THEN Append(g[n - 1], lines[n]) ELSE g[n - 1]]

\* The recursive function in Only exists, so that Only may be expanded.
LEMMA OnlyDef ==
  ASSUME NEW L, NEW lines \in Seq(L), NEW S
  PROVE  \E g : Selects(g, lines, S) /\ Only(lines, S) = g[Len(lines)]
<1> DEFINE step == [n \in Nat |-> [q \in Seq(L) |->
                      IF n + 1 \in 1..Len(lines) /\ lines[n + 1] \in S
                      THEN Append(q, lines[n + 1]) ELSE q]]
           T == Seq(L)
<1>1. step \in Steps(T)
  BY DEF Steps
<1>2. <<>> \in T
  OBVIOUS
<1>3. PICK f : Iterates(f, T, <<>>, step)
  <2> HIDE DEF step, T
  <2> QED
    BY <1>1, <1>2, Recursion
<1> DEFINE g == [n \in 0..Len(lines) |-> f[n]]
<1>4. ASSUME NEW n \in 1..Len(lines)
      PROVE  f[n] = IF lines[n] \in S THEN Append(g[n - 1], lines[n]) ELSE g[n - 1]
  <2>1. n - 1 \in Nat /\ (n - 1) + 1 = n
    OBVIOUS
  <2>2. f[n] = step[n - 1][f[n - 1]]
    BY <2>1, <1>3 DEF Iterates
  <2>3. g[n - 1] = f[n - 1] /\ f[n - 1] \in Seq(L)
    <3>1. f \in [Nat -> T]
      BY <1>3 DEF Iterates
    <3> QED
      BY <2>1, <3>1
  <2> QED
    BY <2>1, <2>2, <2>3
<1>5. Selects(g, lines, S)
  <2> HIDE DEF step
  <2>1. g[0] = <<>>
    BY <1>3 DEF Iterates
  <2>2. \A n \in 1..Len(lines) : g[n] = f[n]
    OBVIOUS
  <2>3. g = [n \in 0..Len(lines) |-> g[n]]
    OBVIOUS
  <2>4. \A n \in 0..Len(lines) : n = 0 \/ n \in 1..Len(lines)
    OBVIOUS
  <2> HIDE DEF g
  <2> QED
    BY <2>1, <2>2, <2>3, <2>4, <1>4 DEF Selects
<1> HIDE DEF g
<1>6. Only(lines, S) = (CHOOSE h : Selects(h, lines, S))[Len(lines)]
  BY DEF Only, Selects
<1> QED
  BY <1>5, <1>6

\* Only returns as many lines as there are in the set.
LEMMA OnlyFacts ==
  ASSUME NEW L, NEW lines \in Seq(L), NEW S
  PROVE  /\ Only(lines, S) \in Seq(L)
         /\ Len(Only(lines, S)) = Cardinality({k \in 1..Len(lines) : lines[k] \in S})
<1>1. PICK g : Selects(g, lines, S) /\ Only(lines, S) = g[Len(lines)]
  BY OnlyDef
<1> DEFINE Among(n) == {k \in 1..n : lines[k] \in S}
           Right == {n \in Nat : n <= Len(lines) =>
                       g[n] \in Seq(L) /\ Len(g[n]) = Cardinality(Among(n))}
<1>2. \A n \in Nat : IsFiniteSet(Among(n)) /\ Cardinality(Among(n)) \in Nat
  <2> TAKE n \in Nat
  <2>1. IsFiniteSet(1..n) /\ Among(n) \subseteq 1..n
    BY FS_Interval
  <2> HIDE DEF Among
  <2>2. IsFiniteSet(Among(n))
    BY <2>1, FS_Subset
  <2> QED
    BY <2>2, FS_CardinalityType
<1>3. 0 \in Right
  <2>1. Among(0) = {}
    OBVIOUS
  <2>2. g[0] = <<>>
    BY <1>1 DEF Selects
  <2>3. Cardinality(Among(0)) = 0
    BY <2>1, FS_EmptySet
  <2> HIDE DEF Among
  <2>4. g[0] \in Seq(L) /\ Len(g[0]) = Cardinality(Among(0))
    BY <2>2, <2>3
  <2> QED
    BY <2>4
<1>4. ASSUME NEW n \in Nat, n \in Right PROVE n + 1 \in Right
  <2> SUFFICES ASSUME n + 1 <= Len(lines)
               PROVE  g[n + 1] \in Seq(L) /\ Len(g[n + 1]) = Cardinality(Among(n + 1))
    OBVIOUS
  <2>1. g[n + 1] = IF lines[n + 1] \in S THEN Append(g[n], lines[n + 1]) ELSE g[n]
    <3>1. n + 1 \in 0..Len(lines) /\ n + 1 # 0 /\ (n + 1) - 1 = n
      OBVIOUS
    <3> QED
      BY <3>1, <1>1 DEF Selects
  <2>2. g[n] \in Seq(L) /\ Len(g[n]) = Cardinality(Among(n)) /\ lines[n + 1] \in L
    BY <1>4
  <2>3. CASE lines[n + 1] \in S
    <3>1. Among(n + 1) = Among(n) \cup {n + 1} /\ n + 1 \notin Among(n)
      BY <2>3
    <3>2. Cardinality(Among(n + 1)) = Cardinality(Among(n)) + 1
      BY <3>1, <1>2, FS_AddElement
    <3> HIDE DEF Among
    <3> QED
      BY <2>1, <2>2, <2>3, <3>2
  <2>4. CASE lines[n + 1] \notin S
    <3>1. Among(n + 1) = Among(n)
      BY <2>4
    <3> HIDE DEF Among
    <3> QED
      BY <2>1, <2>2, <2>4, <3>1
  <2> QED
    BY <2>3, <2>4
<1> HIDE DEF Right
<1>5. Nat \subseteq Right
  BY <1>3, <1>4, Induction
<1> QED
  BY <1>1, <1>5 DEF Right

\* g[i] is the first i of seqs, one after the other.
Flattens(g, seqs) ==
  g = [i \in 1..Len(seqs) |-> IF i = 1 THEN seqs[i] ELSE g[i - 1] \o seqs[i]]

\* The recursive function in FlattenSeq of SequencesExt exists too.
LEMMA FlattenDef ==
  ASSUME NEW S, NEW seqs \in Seq(Seq(S)), seqs # <<>>
  PROVE  \E g : Flattens(g, seqs) /\ FlattenSeq(seqs) = g[Len(seqs)]
<1> DEFINE T == Seq(S)
           step == [n \in Nat |-> [q \in T |->
                      IF n + 2 \in 1..Len(seqs) THEN q \o seqs[n + 2] ELSE q]]
<1>1. step \in Steps(T)
  BY DEF Steps
<1>2. seqs[1] \in T
  OBVIOUS
<1>3. PICK f : Iterates(f, T, seqs[1], step)
  <2> HIDE DEF step, T
  <2> QED
    BY <1>1, <1>2, Recursion
<1> DEFINE g == [i \in 1..Len(seqs) |-> f[i - 1]]
<1>4. ASSUME NEW i \in 2..Len(seqs)
      PROVE  g[i] = g[i - 1] \o seqs[i]
  <2>1. i - 2 \in Nat /\ (i - 2) + 1 = i - 1 /\ (i - 2) + 2 = i /\ i \in 1..Len(seqs)
    OBVIOUS
  <2>2. f[i - 1] = step[i - 2][f[i - 2]]
    BY <2>1, <1>3 DEF Iterates
  <2>3. g[i - 1] = f[i - 2] /\ g[i] = f[i - 1] /\ f[i - 2] \in Seq(S)
    <3>1. f \in [Nat -> T]
      BY <1>3 DEF Iterates
    <3>2. i - 1 \in 1..Len(seqs) /\ (i - 1) - 1 = i - 2
      OBVIOUS
    <3>3. g[i - 1] = f[(i - 1) - 1] /\ g[i] = f[i - 1]
      BY <2>1, <3>2
    <3> QED
      BY <2>1, <3>1, <3>2, <3>3
  <2> HIDE DEF g
  <2> QED
    BY <2>1, <2>2, <2>3
<1>5. Flattens(g, seqs)
  <2> HIDE DEF step
  <2>1. g[1] = seqs[1]
    <3>1. 1 \in 1..Len(seqs) /\ 1 - 1 = 0
      OBVIOUS
    <3> QED
      BY <3>1, <1>3 DEF Iterates
  <2>2. g = [n \in 1..Len(seqs) |-> g[n]]
    OBVIOUS
  <2>3. \A n \in 1..Len(seqs) : n = 1 \/ n \in 2..Len(seqs)
    OBVIOUS
  <2> HIDE DEF g
  <2> QED
    BY <2>1, <2>2, <2>3, <1>4 DEF Flattens
<1> HIDE DEF g
<1>6. FlattenSeq(seqs) = (CHOOSE h : Flattens(h, seqs))[Len(seqs)]
  BY DEF FlattenSeq, Flattens
<1> QED
  BY <1>5, <1>6

\* Flattening keeps the type, and leaves nothing only of nothing.
LEMMA FlattenFacts ==
  ASSUME NEW S, NEW seqs \in Seq(Seq(S))
  PROVE  /\ FlattenSeq(seqs) \in Seq(S)
         /\ (\E k \in 1..Len(seqs) : seqs[k] # <<>>) => FlattenSeq(seqs) # <<>>
<1>1. CASE seqs = <<>>
  BY <1>1 DEF FlattenSeq
<1>2. CASE seqs # <<>>
  <2>1. PICK g : Flattens(g, seqs) /\ FlattenSeq(seqs) = g[Len(seqs)]
    BY <1>2, FlattenDef
  <2> DEFINE Right == {n \in Nat : n + 1 <= Len(seqs) =>
                         /\ g[n + 1] \in Seq(S)
                         /\ \A k \in 1..(n + 1) : Len(seqs[k]) <= Len(g[n + 1])}
  <2>2. 0 \in Right
    <3>1. g[1] = seqs[1] /\ seqs[1] \in Seq(S)
      BY <2>1, <1>2 DEF Flattens
    <3> QED
      BY <3>1
  <2>3. ASSUME NEW n \in Nat, n \in Right PROVE n + 1 \in Right
    <3> SUFFICES ASSUME n + 2 <= Len(seqs)
                 PROVE  /\ g[n + 2] \in Seq(S)
                        /\ \A k \in 1..(n + 2) : Len(seqs[k]) <= Len(g[n + 2])
      OBVIOUS
    <3>1. g[n + 2] = g[n + 1] \o seqs[n + 2]
      <4>1. n + 2 \in 1..Len(seqs) /\ n + 2 # 1 /\ (n + 2) - 1 = n + 1
        OBVIOUS
      <4> QED
        BY <4>1, <2>1 DEF Flattens
    <3>2. /\ g[n + 1] \in Seq(S) /\ seqs[n + 2] \in Seq(S)
          /\ \A k \in 1..(n + 1) : Len(seqs[k]) <= Len(g[n + 1])
      BY <2>3
    <3>3. /\ g[n + 2] \in Seq(S)
          /\ Len(g[n + 2]) = Len(g[n + 1]) + Len(seqs[n + 2])
      BY <3>1, <3>2
    <3>4. \A k \in 1..(n + 2) : Len(seqs[k]) \in Nat
      OBVIOUS
    <3>5. Len(g[n + 1]) \in Nat
      BY <3>2
    <3>6. ASSUME NEW k \in 1..(n + 2) PROVE Len(seqs[k]) <= Len(g[n + 2])
      <4> DEFINE u == Len(seqs[k])
                 v == Len(seqs[n + 2])
                 w == Len(g[n + 1])
      <4>0. u \in Nat /\ v \in Nat /\ w \in Nat /\ Len(g[n + 2]) = w + v
        BY <3>3, <3>4, <3>5
      <4>1. CASE k \in 1..(n + 1)
        <5>1. u <= w
          BY <4>1, <3>2
        <5> HIDE DEF u, v, w
        <5>2. u <= Len(g[n + 2])
          BY <4>0, <5>1
        <5> QED
          BY <5>2 DEF u
      <4>2. CASE k = n + 2
        <5>1. u = v
          BY <4>2
        <5> HIDE DEF u, v, w
        <5>2. u <= Len(g[n + 2])
          BY <4>0, <5>1
        <5> QED
          BY <5>2 DEF u
      <4> QED
        BY <4>1, <4>2
    <3> QED
      BY <3>3, <3>6
  <2> HIDE DEF Right
  <2>4. Nat \subseteq Right
    BY <2>2, <2>3, Induction
  <2>5. Len(seqs) - 1 \in Nat /\ (Len(seqs) - 1) + 1 = Len(seqs)
    BY <1>2
  <2>6. Len(seqs) - 1 \in Right
    BY <2>4, <2>5
  <2>7. /\ g[Len(seqs)] \in Seq(S)
        /\ \A k \in 1..Len(seqs) : Len(seqs[k]) <= Len(g[Len(seqs)])
    BY <2>5, <2>6 DEF Right
  <2>8. \A k \in 1..Len(seqs) : seqs[k] # <<>> => Len(seqs[k]) > 0
    OBVIOUS
  <2>9. \A k \in 1..Len(seqs) : Len(seqs[k]) \in Nat
    OBVIOUS
  <2> QED
    BY <2>1, <2>7, <2>8, <2>9
<1> QED
  BY <1>1, <1>2

\* The jobs of s are the first of those of t.
Begin(s, t) ==
  /\ Len(s) <= Len(t)
  /\ \A k \in DOMAIN s : s[k].job = t[k].job

\* s is the beginning of t.
Begins(s, t) ==
  /\ Len(s) <= Len(t)
  /\ \A k \in 1..Len(s) : s[k] = t[k]

\* A beginning is a subsequence.
LEMMA BeginsIsSubSeq ==
  ASSUME NEW S, NEW s \in Seq(S), NEW t \in Seq(S), Begins(s, t)
  PROVE  Len(s) \in 0..Len(t) /\ s = SubSeq(t, 1, Len(s))
<1>1. Len(s) \in 0..Len(t)
  BY DEF Begins
<1>2. SubSeq(t, 1, Len(s)) \in Seq(S) /\ Len(SubSeq(t, 1, Len(s))) = Len(s)
  BY <1>1
<1>3. \A k \in 1..Len(s) : s[k] = SubSeq(t, 1, Len(s))[k]
  BY <1>1 DEF Begins
<1> QED
  BY <1>1, <1>2, <1>3

\* The first members of a sequence.
LEMMA FirstFacts ==
  ASSUME NEW S, NEW s \in Seq(S), NEW n \in 0..Len(s)
  PROVE  /\ SubSeq(s, 1, n) \in Seq(S)
         /\ Len(SubSeq(s, 1, n)) = n
         /\ \A k \in 1..n : SubSeq(s, 1, n)[k] = s[k]
OBVIOUS

\* What is kept of the first lines begins what is kept of all.
LEMMA OnlyBegins ==
  ASSUME NEW L, NEW lines \in Seq(L), NEW S, NEW n \in 0..Len(lines)
  PROVE  Begins(Only(SubSeq(lines, 1, n), S), Only(lines, S))
<1> DEFINE first == SubSeq(lines, 1, n)
<1>1. /\ first \in Seq(L) /\ Len(first) = n
      /\ \A k \in 1..n : first[k] = lines[k]
  OBVIOUS
<1> HIDE DEF first
<1>2. PICK g : Selects(g, lines, S) /\ Only(lines, S) = g[Len(lines)]
  BY OnlyDef
<1>3. PICK h : Selects(h, first, S) /\ Only(first, S) = h[n]
  BY <1>1, OnlyDef
<1>4. g[0] = <<>> /\ h[0] = <<>>
  BY <1>1, <1>2, <1>3 DEF Selects
<1>5. ASSUME NEW k \in Nat, k + 1 <= Len(lines)
      PROVE  g[k + 1] = IF lines[k + 1] \in S THEN Append(g[k], lines[k + 1]) ELSE g[k]
  <2>1. k + 1 \in 0..Len(lines) /\ k + 1 # 0 /\ (k + 1) - 1 = k
    BY <1>5
  <2> QED
    BY <2>1, <1>2 DEF Selects
<1>6. ASSUME NEW k \in Nat, k + 1 <= n
      PROVE  h[k + 1] = IF lines[k + 1] \in S THEN Append(h[k], lines[k + 1]) ELSE h[k]
  <2>1. k + 1 \in 0..n /\ k + 1 # 0 /\ (k + 1) - 1 = k /\ first[k + 1] = lines[k + 1]
    BY <1>1, <1>6
  <2> QED
    BY <2>1, <1>1, <1>3 DEF Selects
<1>7. h[n] = g[n]
  <2> DEFINE Same == {k \in Nat : k <= n => h[k] = g[k]}
  <2>1. 0 \in Same
    BY <1>4
  <2>2. ASSUME NEW k \in Nat, k \in Same PROVE k + 1 \in Same
    <3> SUFFICES ASSUME k + 1 <= n PROVE h[k + 1] = g[k + 1]
      OBVIOUS
    <3>1. k + 1 <= Len(lines) /\ h[k] = g[k]
      BY <2>2
    <3> QED
      BY <3>1, <1>5, <1>6
  <2> HIDE DEF Same
  <2>3. Nat \subseteq Same
    BY <2>1, <2>2, Induction
  <2> QED
    BY <2>3 DEF Same
<1>8. g[n] \in Seq(L)
  <2>1. Only(first, S) \in Seq(L)
    BY <1>1, OnlyFacts
  <2> QED
    BY <2>1, <1>3, <1>7
<1> DEFINE Right == {k \in Nat : n + k <= Len(lines) =>
                       g[n + k] \in Seq(L) /\ Begins(g[n], g[n + k])}
<1>9. 0 \in Right
  BY <1>8 DEF Begins
<1>10. ASSUME NEW k \in Nat, k \in Right PROVE k + 1 \in Right
  <2> SUFFICES ASSUME n + (k + 1) <= Len(lines)
               PROVE  g[n + (k + 1)] \in Seq(L) /\ Begins(g[n], g[n + (k + 1)])
    OBVIOUS
  <2>1. /\ n + k \in Nat /\ (n + k) + 1 = n + (k + 1) /\ (n + k) + 1 <= Len(lines)
        /\ g[n + k] \in Seq(L) /\ Begins(g[n], g[n + k]) /\ lines[(n + k) + 1] \in L
    BY <1>10
  <2>2. g[(n + k) + 1] = IF lines[(n + k) + 1] \in S
                         THEN Append(g[n + k], lines[(n + k) + 1]) ELSE g[n + k]
    BY <2>1, <1>5
  <2> DEFINE a == g[n]
             b == g[n + k]
             x == lines[(n + k) + 1]
  <2>3. a \in Seq(L) /\ b \in Seq(L) /\ x \in L /\ Begins(a, b)
    BY <2>1, <1>8
  <2> HIDE DEF a, b, x
  <2>4. Append(b, x) \in Seq(L) /\ Begins(a, Append(b, x))
    BY <2>3 DEF Begins
  <2> QED
    BY <2>1, <2>2, <2>3, <2>4 DEF a, b, x
<1> HIDE DEF Right
<1>11. Nat \subseteq Right
  BY <1>9, <1>10, Induction
<1>12. PICK k \in Nat : n + k = Len(lines)
  <2>1. Len(lines) - n \in Nat /\ n + (Len(lines) - n) = Len(lines)
    OBVIOUS
  <2> QED
    BY <2>1
<1>13. Begins(g[n], g[Len(lines)])
  <2>1. k \in Right
    BY <1>11
  <2>3. Len(lines) \in Nat /\ Len(lines) <= Len(lines)
    OBVIOUS
  <2>2. Begins(g[n], g[n + k])
    BY <2>1, <2>3, <1>12 DEF Right
  <2> QED
    BY <2>2, <1>12
<1> QED
  BY <1>2, <1>3, <1>7, <1>13 DEF first

\* The first of some sequences, one after the other, begin all of them.
LEMMA FlattenBegins ==
  ASSUME NEW S, NEW seqs \in Seq(Seq(S)), NEW n \in 1..Len(seqs)
  PROVE  Begins(FlattenSeq(SubSeq(seqs, 1, n)), FlattenSeq(seqs))
<1> DEFINE first == SubSeq(seqs, 1, n)
<1>1. /\ first \in Seq(Seq(S)) /\ Len(first) = n /\ first # <<>> /\ seqs # <<>>
      /\ \A k \in 1..n : first[k] = seqs[k]
  <2>1. seqs # <<>> /\ n \in 0..Len(seqs) /\ n # 0
    OBVIOUS
  <2>2. /\ first \in Seq(Seq(S)) /\ Len(first) = n
        /\ \A k \in 1..n : first[k] = seqs[k]
    BY <2>1, FirstFacts
  <2>3. Len(<<>>) = 0
    OBVIOUS
  <2> HIDE DEF first
  <2> QED
    BY <2>1, <2>2, <2>3
<1> HIDE DEF first
<1>2. PICK g : Flattens(g, seqs) /\ FlattenSeq(seqs) = g[Len(seqs)]
  BY <1>1, FlattenDef
<1>3. PICK h : Flattens(h, first) /\ FlattenSeq(first) = h[n]
  BY <1>1, FlattenDef
<1>4. g[1] = seqs[1] /\ h[1] = seqs[1]
  BY <1>1, <1>2, <1>3 DEF Flattens
<1>5. ASSUME NEW k \in Nat, k + 2 <= Len(seqs)
      PROVE  g[k + 2] = g[k + 1] \o seqs[k + 2]
  <2>1. k + 2 \in 1..Len(seqs) /\ k + 2 # 1 /\ (k + 2) - 1 = k + 1
    BY <1>5
  <2> QED
    BY <2>1, <1>2 DEF Flattens
<1>6. ASSUME NEW k \in Nat, k + 2 <= n
      PROVE  h[k + 2] = h[k + 1] \o seqs[k + 2]
  <2>1. k + 2 \in 1..n /\ k + 2 # 1 /\ (k + 2) - 1 = k + 1 /\ first[k + 2] = seqs[k + 2]
    BY <1>1, <1>6
  <2> QED
    BY <2>1, <1>1, <1>3 DEF Flattens
<1>7. h[n] = g[n]
  <2> DEFINE Same == {k \in Nat : k + 1 <= n => h[k + 1] = g[k + 1]}
  <2>1. 0 \in Same
    BY <1>4
  <2>2. ASSUME NEW k \in Nat, k \in Same PROVE k + 1 \in Same
    <3>1. ASSUME k + 2 <= n PROVE h[k + 2] = g[k + 2]
      <4>1. k + 2 <= Len(seqs) /\ h[k + 1] = g[k + 1]
        BY <2>2, <3>1
      <4> QED
        BY <3>1, <4>1, <1>5, <1>6
    <3>2. (k + 1) + 1 = k + 2 /\ k + 1 \in Nat
      OBVIOUS
    <3> QED
      BY <3>1, <3>2
  <2> HIDE DEF Same
  <2>3. Nat \subseteq Same
    BY <2>1, <2>2, Induction
  <2>4. n - 1 \in Nat /\ (n - 1) + 1 = n
    OBVIOUS
  <2> QED
    BY <2>3, <2>4 DEF Same
<1>8. g[n] \in Seq(S)
  BY <1>1, <1>3, <1>7, FlattenFacts
<1> DEFINE Right == {k \in Nat : n + k <= Len(seqs) =>
                       g[n + k] \in Seq(S) /\ Begins(g[n], g[n + k])}
<1>9. 0 \in Right
  BY <1>8 DEF Begins
<1>10. ASSUME NEW k \in Nat, k \in Right PROVE k + 1 \in Right
  <2> SUFFICES ASSUME n + (k + 1) <= Len(seqs)
               PROVE  g[n + (k + 1)] \in Seq(S) /\ Begins(g[n], g[n + (k + 1)])
    OBVIOUS
  <2> DEFINE m == (n + k) - 1
             a == g[n]
             b == g[n + k]
             c == seqs[n + (k + 1)]
  <2>1. m \in Nat /\ m + 1 = n + k /\ m + 2 = n + (k + 1) /\ m + 2 <= Len(seqs)
    OBVIOUS
  <2>2. a \in Seq(S) /\ b \in Seq(S) /\ c \in Seq(S) /\ Begins(a, b)
    BY <1>8, <1>10
  <2>3. g[n + (k + 1)] = b \o c
    BY <2>1, <1>5
  <2> HIDE DEF a, b, c, m
  <2>4. b \o c \in Seq(S) /\ Begins(a, b \o c)
    BY <2>2 DEF Begins
  <2> QED
    BY <2>3, <2>4 DEF a
<1> HIDE DEF Right
<1>11. Nat \subseteq Right
  BY <1>9, <1>10, Induction
<1>12. PICK k \in Nat : n + k = Len(seqs)
  <2>1. Len(seqs) - n \in Nat /\ n + (Len(seqs) - n) = Len(seqs)
    OBVIOUS
  <2> QED
    BY <2>1
<1>13. Begins(g[n], g[Len(seqs)])
  <2>1. k \in Right
    BY <1>11
  <2>3. Len(seqs) \in Nat /\ Len(seqs) <= Len(seqs)
    OBVIOUS
  <2>2. Begins(g[n], g[n + k])
    BY <2>1, <2>3, <1>12 DEF Right
  <2> QED
    BY <2>2, <1>12
<1> QED
  BY <1>2, <1>3, <1>7, <1>13 DEF first
-----------------------------------------------------------------------------
(* A runner. *)

\* Where a run is tells which runner it is of, and what it has started.
PlaceInv ==
  /\ runner \in Paramiko \cup Piped
  /\ pc \in {"start", "connect", "exec", "stdout", "stderr", "status", "communicate",
             "result", "close"} \cup Over
  /\ pc \in {"exec", "stdout", "stderr", "status"} => runner \in Paramiko
  /\ pc = "communicate" => runner \in Piped
  /\ pc \in {"start", "connect"} => conn = "none"
  /\ pc = "connect" => runner # "local"
  /\ pc \in {"start", "connect", "exec"} => proc = "none"
  /\ runner = "local" => conn \notin {"lost", "down"}
  /\ ConnectionClosed

\* The exit status that was received is that of the command; on a connection
\* that was never lost it is received.
StatusInv ==
  /\ proc \in {"none", "running", "exited"}
  /\ status # "none" => proc = "exited" /\ status = Reported(exit)
  /\ proc = "exited" /\ conn = "up" => status = Reported(exit)
  /\ proc = "exited" => exit \in {"zero", "other", "255", "signal"}

Finished == proc = "exited" /\ code = Reported(exit)

\* A return code is that of a command that finished, or one that stands for a
\* closed connection.
CodeInv ==
  /\ pc = "result" => \/ Finished
                      \/ runner = "simple" /\ code = "255"
                      \/ runner \in Paramiko /\ code = "-1"
  /\ pc \notin {"close"} \cup Over => result = "none"
  /\ pc \in {"close", "returned"} /\ result = "ok" =>
       Finished \/ (runner = "generic" /\ code = "-1")
  /\ pc = "returned" => result = "ok"

SshInv == PlaceInv /\ StatusInv /\ CodeInv

\* A status of zero is reported for no command but one that ended so.
LEMMA ReportedFacts ==
  ASSUME runner \in Paramiko \cup Piped, NEW e \in {"zero", "other", "255", "signal"}
  PROVE  /\ Reported(e) \in {"zero", "other", "255", "-1"}
         /\ Reported(e) = "zero" <=> e = "zero"
  BY DEF Reported, Paramiko, Piped

LEMMA InitSshInv == SshInit => SshInv
  BY SshAssumption
     DEF SshInit, SshInv, PlaceInv, StatusInv, CodeInv, ConnectionClosed, Over

Starting == CheckFiles \/ CannotStart \/ StartProcess \/ Connect \/ ConnectFails \/ Exec \/ ExecFails
Ending == Read \/ EndOfOutput \/ RecvExitStatus \/ MakeResult \/ Undecodable \/ Close
World == Write \/ Exit \/ Die \/ Drop \/ Notice

LEMMA SshCases == SshNext <=> World \/ Starting \/ Ending
  BY DEF SshNext, RunnerStep, World, Starting, Ending

LEMMA WorldInv == SshInv /\ World => SshInv'
<1> SUFFICES ASSUME SshInv, World PROVE SshInv'
  OBVIOUS
<1>1. UNCHANGED <<runner, pc, code, result>>
  BY DEF World, Write, Exit, Die, Ends, Drop, Notice, client
<1> USE DEF SshInv, PlaceInv, StatusInv, CodeInv, Finished, Reported, ConnectionClosed
<1>2. CASE Write
  BY <1>1, <1>2 DEF Write
<1>3. CASE Exit \/ Die
  <2>1. /\ proc = "running" /\ proc' = "exited" /\ conn' = conn
        /\ exit' \in {"zero", "other", "255", "signal"}
        /\ status' = IF conn = "up" THEN Reported(exit') ELSE status
    BY <1>3 DEF Exit, Die, Ends
  <2> QED
    BY <1>1, <2>1
<1>4. CASE Drop
  <2>1. /\ conn = "up" /\ conn' = "lost" /\ runner # "local" /\ status' \in {status, "none"}
        /\ UNCHANGED <<proc, exit>>
    BY <1>4 DEF Drop, command
  <2> QED
    BY <1>1, <2>1 DEF Over
<1>5. CASE Notice
  <2>1. conn = "lost" /\ conn' = "down" /\ UNCHANGED <<proc, exit, status>>
    BY <1>5 DEF Notice, command
  <2> QED
    BY <1>1, <2>1 DEF Over
<1> QED
  BY <1>2, <1>3, <1>4, <1>5 DEF World

LEMMA StartingInv == SshInv /\ Starting => SshInv'
<1> SUFFICES ASSUME SshInv, Starting PROVE SshInv'
  OBVIOUS
<1>1. UNCHANGED <<runner, exit, status>>
  BY DEF Starting, CheckFiles, CannotStart, StartProcess, Connect, ConnectFails, Exec,
     ExecFails, client, command
<1> USE DEF SshInv, PlaceInv, StatusInv, CodeInv, Finished, Reported, ConnectionClosed, Over,
            Refuse, Raise, StartCommand, command
<1>2. CASE CheckFiles \/ CannotStart
  BY <1>1, <1>2 DEF CheckFiles, CannotStart, Paramiko
<1>3. CASE StartProcess
  BY <1>1, <1>3 DEF StartProcess, Piped, Paramiko
<1>4. CASE Connect
  BY <1>1, <1>4 DEF Connect, Piped, Paramiko
<1>5. CASE ConnectFails
  BY <1>1, <1>5 DEF ConnectFails, Piped, Paramiko
<1>6. CASE Exec
  BY <1>1, <1>6 DEF Exec
<1>7. CASE ExecFails
  BY <1>1, <1>7 DEF ExecFails
<1> QED
  BY <1>2, <1>3, <1>4, <1>5, <1>6, <1>7 DEF Starting

LEMMA EndingInv == SshInv /\ Ending => SshInv'
<1> SUFFICES ASSUME SshInv, Ending PROVE SshInv'
  OBVIOUS
<1>1. UNCHANGED <<runner, proc, exit, status>>
  BY DEF Ending, Read, EndOfOutput, RecvExitStatus, MakeResult, Undecodable, Close, client,
     command
<1> USE DEF SshInv, PlaceInv, StatusInv, CodeInv, Finished, ConnectionClosed, Over
<1>r. Reported(exit)' = Reported(exit)
  BY <1>1 DEF Reported
<1>2. CASE Read
  BY <1>1, <1>r, <1>2 DEF Read
<1>3. CASE EndOfOutput
  <2>1. UNCHANGED <<conn, result>> /\ Reading # {}
    BY <1>3 DEF EndOfOutput, AtEnd
  <2>2. pc \in {"stdout", "stderr", "communicate"}
    BY <2>1 DEF Reading
  <2>3. CASE pc \in {"stdout", "stderr"}
    <3>1. pc' \in {"stderr", "status"} /\ code' = code
      BY <1>3, <2>3 DEF EndOfOutput
    <3> QED
      BY <1>1, <1>r, <2>1, <2>3, <3>1
  <2>4. CASE pc = "communicate"
    <3>1. pc' = "result" /\ code' = IF conn = "down" THEN "255" ELSE status
      BY <1>3, <2>4 DEF EndOfOutput
    <3>2. conn # "down" => proc = "exited" /\ conn = "up"
      BY <1>3 DEF EndOfOutput, AtEnd
    <3>3. conn = "down" => runner = "simple"
      BY <2>4 DEF Piped
    <3> QED
      BY <1>1, <1>r, <2>1, <2>4, <3>1, <3>2, <3>3
  <2> QED
    BY <2>2, <2>3, <2>4
<1>4. CASE RecvExitStatus
  <2>1. /\ pc = "status" /\ pc' = "result" /\ UNCHANGED <<conn, result>>
        /\ code' = IF status = "none" THEN "-1" ELSE status
    BY <1>4 DEF RecvExitStatus, StatusOrNone
  <2> QED
    BY <1>1, <1>r, <2>1
<1>5. CASE MakeResult
  <2>1. /\ pc = "result" /\ pc' = "close" /\ UNCHANGED <<conn, code>>
        /\ result' = "ok" /\ runner \in {"cineca", "simple"} => code \notin {"-1", "255"}
        /\ result' \in {"ok", "error"}
    BY <1>5 DEF MakeResult, is_connection_closed
  <2>2. result' = "ok" => Finished \/ (runner = "generic" /\ code = "-1")
    BY <2>1 DEF Paramiko
  <2> QED
    BY <1>1, <1>r, <2>1, <2>2
<1>6. CASE Undecodable
  BY <1>1, <1>r, <1>6 DEF Undecodable, Raise
<1>7. CASE Close
  <2>1. /\ pc = "close" /\ UNCHANGED <<code, result>>
        /\ conn' = IF conn = "none" THEN "none" ELSE "closed"
        /\ pc' = IF result = "ok" THEN "returned" ELSE "failed"
    BY <1>7 DEF Close
  <2> QED
    BY <1>1, <1>r, <2>1
<1> QED
  BY <1>2, <1>3, <1>4, <1>5, <1>6, <1>7 DEF Ending

LEMMA SshInvariance == SshInv /\ [SshNext]_sshVars => SshInv'
<1> SUFFICES ASSUME SshInv, [SshNext]_sshVars PROVE SshInv'
  OBVIOUS
<1>1. CASE UNCHANGED sshVars
  BY <1>1 DEF sshVars, SshInv, PlaceInv, StatusInv, CodeInv, Finished, Reported,
     ConnectionClosed
<1> QED
  BY <1>1, SshCases, WorldInv, StartingInv, EndingInv

-----------------------------------------------------------------------------
(* What becomes of the output. *)

\* The lines to stream s among the first n.
Count(s, n) == Cardinality({k \in 1..n : output[k] \in To(s)})

Drained(s) == proc = "exited" /\ inbox[s] = 0

FlowTypes ==
  /\ output \in Outputs
  /\ sent \in 0..Len(output)
  /\ inbox \in [Streams -> 0..Window]
  /\ got \in [Streams -> Nat]
  /\ \A s \in Streams : got[s] + inbox[s] <= sent

\* Where the connection and the command may stand at each place.
ConnInv ==
  /\ conn \in {"none", "up", "lost", "down", "closed"}
  /\ conn = "closed" => pc \in Over
  /\ pc \in {"exec", "stdout", "stderr", "status", "communicate"} => conn # "none"
  /\ conn \in {"lost", "down"} => dropped
  /\ proc = "none" => sent = 0
  /\ proc # "exited" => exit = "none"
  /\ exit = "zero" => sent = Len(output)

\* On a connection that was never lost, every line written is on its way or
\* read, and a stream that was left is empty and stays so.
NothingLost ==
  /\ proc = "running" => conn = "up"
  /\ \A s \in Streams : got[s] + inbox[s] = Count(s, sent)
  /\ pc = "stderr" => Drained("out")
  /\ pc = "status" => Drained("out") /\ Drained("err")
  /\ pc \in {"result", "close"} \cup Over =>
       proc = "none" \/ (Drained("out") /\ Drained("err"))

NoneInvented == \A s \in Streams : got[s] + inbox[s] <= Count(s, sent)

FlowInv == FlowTypes /\ NoneInvented /\ ConnInv /\ (~dropped => NothingLost)

\* What a command prints is a sequence of lines.
LEMMA OutputIsSeq == FlowTypes => output \in Seq(Lines)
  BY SshAssumption DEF FlowTypes

\* Count goes up by one with each line to the stream.
LEMMA CountFacts ==
  ASSUME FlowTypes, NEW s \in Streams
  PROVE  /\ Count(s, 0) = 0
         /\ \A n \in 0..(Len(output) - 1) :
              /\ Count(s, n) \in Nat
              /\ Count(s, n + 1) = Count(s, n) + (IF output[n + 1].to = s THEN 1 ELSE 0)
<1> DEFINE Among(n) == {k \in 1..n : output[k] \in To(s)}
<1>1. Count(s, 0) = 0
  <2>1. Among(0) = {}
    OBVIOUS
  <2> QED
    BY <2>1, FS_EmptySet DEF Count
<1>2. ASSUME NEW n \in 0..(Len(output) - 1)
      PROVE  /\ Count(s, n) \in Nat
             /\ Count(s, n + 1) = Count(s, n) + (IF output[n + 1].to = s THEN 1 ELSE 0)
  <2>1. IsFiniteSet(Among(n)) /\ Cardinality(Among(n)) \in Nat
    <3>1. IsFiniteSet(1..n) /\ Among(n) \subseteq 1..n
      BY FS_Interval
    <3> HIDE DEF Among
    <3>2. IsFiniteSet(Among(n))
      BY <3>1, FS_Subset
    <3> QED
      BY <3>2, FS_CardinalityType
  <2>2. output[n + 1] \in Lines /\ n + 1 \notin 1..n
    BY OutputIsSeq
  <2>3. 1..(n + 1) = (1..n) \cup {n + 1}
    OBVIOUS
  <2>4. CASE output[n + 1].to = s
    <3>1. Among(n + 1) = Among(n) \cup {n + 1} /\ n + 1 \notin Among(n)
      BY <2>2, <2>3, <2>4 DEF To
    <3> HIDE DEF Among
    <3>2. Cardinality(Among(n + 1)) = Cardinality(Among(n)) + 1
      BY <3>1, <2>1, FS_AddElement
    <3> QED
      BY <3>2, <2>1, <2>4 DEF Count, Among
  <2>5. CASE output[n + 1].to # s
    <3>1. Among(n + 1) = Among(n)
      BY <2>2, <2>3, <2>5 DEF To
    <3>2. Count(s, n) = Cardinality(Among(n)) /\ Count(s, n + 1) = Cardinality(Among(n + 1))
      BY DEF Count
    <3> HIDE DEF Among
    <3> QED
      BY <3>1, <3>2, <2>1, <2>5
  <2> QED
    BY <2>4, <2>5
<1> QED
  BY <1>1, <1>2

\* Count grows with n, up to the length of all that goes to s.
LEMMA CountType ==
  ASSUME FlowTypes, NEW s \in Streams
  PROVE  /\ Count(s, sent) \in Nat /\ Count(s, Len(output)) \in Nat
         /\ Count(s, sent) <= Count(s, Len(output))
<1> DEFINE Sent == {k \in 1..sent : output[k] \in To(s)}
           All == {k \in 1..Len(output) : output[k] \in To(s)}
<1>1. sent \in 0..Len(output) /\ Len(output) \in Nat
  BY OutputIsSeq DEF FlowTypes
<1>2. All \subseteq 1..Len(output) /\ Sent \subseteq All
  BY <1>1
<1>3. Count(s, sent) = Cardinality(Sent) /\ Count(s, Len(output)) = Cardinality(All)
  BY DEF Count
<1> HIDE DEF Sent, All
<1>4. IsFiniteSet(All)
  <2>1. IsFiniteSet(1..Len(output))
    BY <1>1, FS_Interval
  <2> QED
    BY <1>2, <2>1, FS_Subset
<1>5. IsFiniteSet(Sent) /\ Cardinality(Sent) <= Cardinality(All)
  BY <1>2, <1>4, FS_Subset
<1> QED
  BY <1>3, <1>4, <1>5, FS_CardinalityType

LEMMA InitFlowInv == SshInit => FlowInv
<1> SUFFICES ASSUME SshInit PROVE FlowInv
  OBVIOUS
<1>1. FlowTypes
  <2>1. output \in Seq(Lines)
    BY SshAssumption DEF SshInit
  <2> QED
    BY <2>1, SshAssumption DEF SshInit, FlowTypes
<1>2. ConnInv
  BY DEF SshInit, ConnInv
<1>3. NothingLost /\ NoneInvented
  BY <1>1, CountFacts DEF SshInit, NothingLost, NoneInvented, Over, Streams
<1> QED
  BY <1>1, <1>2, <1>3 DEF FlowInv

\* A line that is written on a connection is on its way; one that is lost is not
\* invented.
LEMMA WorldFlow == SshInv /\ FlowInv /\ World => FlowInv'
<1> SUFFICES ASSUME SshInv, FlowInv, World PROVE FlowInv'
  OBVIOUS
<1>1. UNCHANGED <<output, pc, got>>
  BY DEF World, Write, Exit, Die, Ends, Drop, Notice, client, command
<1>c. \A s, n : Count(s, n)' = Count(s, n)
  BY <1>1 DEF Count, To
<1>t. output \in Seq(Lines) /\ Window \in Nat
  BY SshAssumption, OutputIsSeq DEF FlowInv
<1> USE DEF FlowInv
<1>2. CASE Write
  <2>1. /\ proc = "running" /\ sent < Len(output) /\ sent' = sent + 1
        /\ UNCHANGED <<proc, exit, conn, dropped>>
        /\ \/ /\ conn = "up" /\ Room(output[sent + 1].to)
              /\ inbox' = [inbox EXCEPT ![output[sent + 1].to] = @ + 1]
           \/ conn # "up" /\ UNCHANGED inbox
    BY <1>2 DEF Write, client
  <2>2. output[sent + 1].to \in Streams /\ sent \in 0..(Len(output) - 1)
    BY <1>t, <2>1, SshAssumption DEF FlowTypes
  <2>3. Room(output[sent + 1].to) => inbox[output[sent + 1].to] + 1 \in 0..Window
    BY <1>t, <2>2 DEF FlowTypes, Room, Streams
  <2>4. FlowTypes'
    <3>1. /\ inbox \in [Streams -> 0..Window] /\ got \in [Streams -> Nat] /\ sent \in Nat
          /\ Len(output) \in Nat
          /\ \A s \in Streams : got[s] + inbox[s] <= sent
      BY <1>t DEF FlowTypes
    <3>2. inbox' \in [Streams -> 0..Window]
      BY <1>t, <2>1, <2>2, <2>3, <3>1
    <3>3. ASSUME NEW s \in Streams PROVE got[s] + inbox'[s] <= sent + 1
      <4>1. inbox'[s] \in {inbox[s], inbox[s] + 1}
        BY <2>1, <2>2, <3>1
      <4> QED
        BY <3>1, <4>1
    <3>4. sent + 1 \in 0..Len(output)
      BY <2>1, <3>1
    <3> QED
      BY <1>1, <2>1, <3>2, <3>3, <3>4 DEF FlowTypes
  <2>5. ConnInv'
    BY <1>1, <2>1 DEF ConnInv
  <2>6. ASSUME NEW s \in Streams
        PROVE  /\ got'[s] + inbox'[s] <= Count(s, sent')
               /\ conn = "up" /\ got[s] + inbox[s] = Count(s, sent) =>
                    got'[s] + inbox'[s] = Count(s, sent')
    <3>1. /\ Count(s, sent + 1) = Count(s, sent) + (IF output[sent + 1].to = s THEN 1 ELSE 0)
          /\ Count(s, sent) \in Nat
      BY <2>2, CountFacts
    <3>2. got[s] + inbox[s] <= Count(s, sent) /\ got[s] \in Nat /\ inbox[s] \in Nat
      BY <1>t DEF NoneInvented, FlowTypes
    <3>3. /\ conn = "up" => inbox'[s] = inbox[s] + (IF output[sent + 1].to = s THEN 1 ELSE 0)
          /\ conn # "up" => inbox'[s] = inbox[s]
      BY <2>1, <2>2 DEF FlowTypes
    <3> QED
      BY <1>1, <2>1, <3>1, <3>2, <3>3
  <2>7. NoneInvented'
    BY <1>c, <2>6 DEF NoneInvented
  <2>8. ASSUME ~dropped' PROVE NothingLost'
    <3>1. NothingLost /\ conn = "up"
      BY <2>1, <2>8 DEF NothingLost
    <3> QED
      BY <1>1, <1>c, <2>1, <2>6, <3>1 DEF NothingLost, Drained
  <2> QED
    BY <2>4, <2>5, <2>7, <2>8
<1>3. CASE Exit \/ Die
  <2>1. /\ proc = "running" /\ proc' = "exited" /\ UNCHANGED <<sent, inbox, conn, dropped>>
        /\ exit' = "zero" => sent = Len(output)
    BY <1>3 DEF Exit, Die, Ends, client
  <2>2. FlowTypes' /\ NoneInvented' /\ ConnInv'
    BY <1>1, <1>c, <2>1 DEF FlowTypes, NoneInvented, ConnInv
  <2>3. NothingLost => NothingLost'
    BY <1>1, <1>c, <2>1 DEF NothingLost, Drained
  <2> QED
    BY <2>1, <2>2, <2>3
<1>4. CASE Drop
  <2>1. /\ conn = "up" /\ conn' = "lost" /\ dropped' = TRUE /\ UNCHANGED <<sent, proc, exit>>
        /\ inbox' \in [Streams -> 0..Window]
        /\ \A s \in Streams : inbox'[s] <= inbox[s]
    BY <1>4 DEF Drop, command
  <2>2. FlowTypes'
    BY <1>1, <1>t, <2>1 DEF FlowTypes
  <2>3. ConnInv'
    BY <1>1, <2>1 DEF ConnInv, Over
  <2>4. ASSUME NEW s \in Streams PROVE got[s] + inbox'[s] <= Count(s, sent)
    <3>1. /\ inbox'[s] <= inbox[s] /\ inbox'[s] \in Nat /\ inbox[s] \in Nat /\ got[s] \in Nat
          /\ got[s] + inbox[s] <= Count(s, sent)
      BY <1>t, <2>1 DEF FlowTypes, NoneInvented
    <3>2. Count(s, sent) \in Nat
      BY CountType
    <3> QED
      BY <3>1, <3>2
  <2> QED
    BY <1>1, <1>c, <2>1, <2>2, <2>3, <2>4 DEF NoneInvented
<1>5. CASE Notice
  <2>1. /\ conn = "lost" /\ conn' = "down"
        /\ UNCHANGED <<sent, proc, exit, inbox, dropped>>
    BY <1>5 DEF Notice, command
  <2>2. dropped' /\ FlowTypes' /\ NoneInvented' /\ ConnInv'
    BY <1>1, <1>c, <2>1 DEF FlowTypes, NoneInvented, ConnInv
  <2> QED
    BY <2>2
<1> QED
  BY <1>2, <1>3, <1>4, <1>5 DEF World

\* Nothing is written before the command is started.
LEMMA StartingFlow == SshInv /\ FlowInv /\ Starting => FlowInv'
<1> SUFFICES ASSUME SshInv, FlowInv, Starting PROVE FlowInv'
  OBVIOUS
<1>1. UNCHANGED <<output, sent, inbox, got, exit, dropped>>
  BY DEF Starting, CheckFiles, CannotStart, StartProcess, Connect, ConnectFails, Exec,
     ExecFails, client, command
<1>2. FlowTypes' /\ NoneInvented'
  BY <1>1 DEF FlowTypes, NoneInvented, FlowInv, Count, To
<1>3. proc = "none" /\ pc \in {"start", "connect", "exec"} /\ conn # "closed"
  BY DEF Starting, CheckFiles, CannotStart, StartProcess, Connect, ConnectFails, Exec,
     ExecFails, SshInv, PlaceInv, FlowInv, ConnInv, Over
<1>4. \/ proc' = "none" /\ conn' = conn /\ pc' \in {"connect", "failed", "result", "close"}
      \/ proc' = "none" /\ pc = "connect" /\ conn' = "up" /\ pc' = "exec"
      \/ proc' = "running" /\ conn' = "up" /\ pc' \in {"communicate", "stdout"}
      \/ proc' = "running" /\ conn # "up" /\ conn' = conn /\ pc = "exec" /\ pc' = "close"
  BY <1>3 DEF Starting, CheckFiles, CannotStart, StartProcess, Connect, ConnectFails, Exec,
     ExecFails, StartCommand, Refuse, Raise, command
<1>5. ConnInv'
  BY <1>1, <1>3, <1>4 DEF ConnInv, FlowInv, Over
<1>6. ASSUME ~dropped' PROVE NothingLost'
  <2>1. NothingLost /\ conn \notin {"lost", "down"}
    BY <1>1, <1>6 DEF FlowInv, ConnInv
  <2>2. \A s \in Streams : (got[s] + inbox[s] = Count(s, sent))'
    BY <1>1, <2>1 DEF NothingLost, Count, To
  <2>3. pc = "exec" => conn = "up"
    BY <2>1, <1>3 DEF FlowInv, ConnInv
  <2> QED
    BY <1>1, <1>4, <2>2, <2>3 DEF NothingLost, Over
<1> QED
  BY <1>2, <1>5, <1>6 DEF FlowInv

\* A stream is left when it is drained, on a connection that was never lost.
LEMMA EndingFlow == SshInv /\ FlowInv /\ Ending => FlowInv'
<1> SUFFICES ASSUME SshInv, FlowInv, Ending PROVE FlowInv'
  OBVIOUS
<1>1. UNCHANGED <<output, sent, proc, exit, dropped>>
  BY DEF Ending, Read, EndOfOutput, RecvExitStatus, MakeResult, Undecodable, Close, client,
     command
<1>c. \A s, n : Count(s, n)' = Count(s, n)
  BY <1>1 DEF Count, To
<1>2. CASE Read
  <2>1. PICK s \in Reading : /\ inbox[s] > 0
                            /\ inbox' = [inbox EXCEPT ![s] = @ - 1]
                            /\ got' = [got EXCEPT ![s] = @ + 1]
                            /\ UNCHANGED <<pc, conn>>
    BY <1>2 DEF Read
  <2>2. s \in Streams
    BY <2>1 DEF Reading, Streams
  <2>3. pc \in {"stdout", "stderr", "communicate"}
    BY <2>1 DEF Reading
  <2>4. /\ inbox \in [Streams -> 0..Window] /\ got \in [Streams -> Nat] /\ Window \in Nat
        /\ sent \in Nat
    BY SshAssumption, OutputIsSeq DEF FlowInv, FlowTypes
  <2>5. \A r \in Streams : /\ got'[r] + inbox'[r] = got[r] + inbox[r]
                           /\ got'[r] \in Nat /\ inbox'[r] \in 0..Window
                           /\ r # s => inbox'[r] = inbox[r]
    BY <2>1, <2>2, <2>4
  <2>6. FlowTypes'
    BY <1>1, <2>1, <2>5 DEF FlowInv, FlowTypes
  <2>7. ConnInv' /\ NoneInvented'
    BY <1>1, <1>c, <2>1, <2>5 DEF FlowInv, ConnInv, NoneInvented
  <2>8. ASSUME NothingLost PROVE NothingLost'
    <3>1. pc = "stderr" => s = "err"
      BY <2>1 DEF Reading
    <3> QED
      BY <1>1, <1>c, <2>1, <2>3, <2>5, <2>8, <3>1 DEF NothingLost, Drained, Streams, Over
  <2> QED
    BY <1>1, <2>6, <2>7, <2>8 DEF FlowInv
<1>3. CASE ~Read
  <2>1. UNCHANGED <<inbox, got>>
    BY <1>3 DEF Ending, EndOfOutput, RecvExitStatus, MakeResult, Undecodable, Close, client,
       command
  <2>2. FlowTypes' /\ NoneInvented'
    BY <1>1, <1>c, <2>1 DEF FlowInv, FlowTypes, NoneInvented
  <2>3. \/ EndOfOutput /\ conn' = conn
        \/ RecvExitStatus /\ pc = "status" /\ pc' = "result" /\ conn' = conn
        \/ pc = "result" /\ pc' = "close" /\ conn' = conn
        \/ /\ pc = "close" /\ pc' \in Over
           /\ conn' = IF conn = "none" THEN "none" ELSE "closed"
    BY <1>3 DEF Ending, EndOfOutput, RecvExitStatus, MakeResult, Undecodable, Raise, Close, Over
  <2>4. EndOfOutput => \/ pc = "stdout" /\ pc' = "stderr" /\ Reading = {"out"}
                       \/ pc = "stderr" /\ pc' = "status" /\ Reading = {"err"}
                       \/ pc = "communicate" /\ pc' = "result" /\ Reading = Streams
    BY DEF EndOfOutput, AtEnd, Reading
  <2>5. ConnInv'
    BY <1>1, <2>3, <2>4 DEF FlowInv, ConnInv, Over
  <2>6. ASSUME ~dropped' PROVE NothingLost'
    <3>1. NothingLost /\ conn # "down"
      BY <1>1, <2>6 DEF FlowInv, ConnInv
    <3>2. EndOfOutput => \A s \in Reading : Drained(s)
      BY <3>1 DEF EndOfOutput, AtEnd, Drained
    <3>3. \A s : Drained(s)' <=> Drained(s)
      BY <1>1, <2>1 DEF Drained
    <3>4. \A s \in Streams : (got[s] + inbox[s] = Count(s, sent))'
      BY <1>1, <1>c, <2>1, <3>1 DEF NothingLost
    <3>5. CASE EndOfOutput
      <4>1. proc = "exited"
        BY <2>4, <3>2, <3>5 DEF Drained, Streams
      <4>2. /\ (pc = "stdout" => pc' = "stderr" /\ Drained("out"))
            /\ (pc = "stderr" => pc' = "status" /\ Drained("out") /\ Drained("err"))
            /\ (pc = "communicate" => pc' = "result" /\ Drained("out") /\ Drained("err"))
            /\ pc \in {"stdout", "stderr", "communicate"}
        BY <2>4, <3>1, <3>2, <3>5 DEF NothingLost, Streams
      <4> QED
        BY <1>1, <3>3, <3>4, <4>1, <4>2 DEF NothingLost, Over
    <3>6. CASE RecvExitStatus /\ pc = "status" /\ pc' = "result" /\ conn' = conn
      BY <1>1, <3>1, <3>3, <3>4, <3>6 DEF NothingLost, Over
    <3>7. CASE pc = "result" /\ pc' = "close" /\ conn' = conn
      BY <1>1, <3>1, <3>3, <3>4, <3>7 DEF NothingLost, Over
    <3>8. CASE pc = "close" /\ pc' \in Over
      <4>1. proc # "running"
        BY <3>1, <3>8 DEF NothingLost, Drained
      <4> QED
        BY <1>1, <3>1, <3>3, <3>4, <3>8, <4>1 DEF NothingLost, Over
    <3> QED
      BY <2>3, <3>5, <3>6, <3>7, <3>8
  <2> QED
    BY <2>2, <2>5, <2>6 DEF FlowInv
<1> QED
  BY <1>2, <1>3

LEMMA FlowInvariance == SshInv /\ FlowInv /\ [SshNext]_sshVars => FlowInv'
<1> SUFFICES ASSUME SshInv, FlowInv, [SshNext]_sshVars PROVE FlowInv'
  OBVIOUS
<1>1. CASE UNCHANGED sshVars
  <2>1. \A s, n : Count(s, n)' = Count(s, n)
    BY <1>1 DEF sshVars, Count, To
  <2> QED
    BY <1>1, <2>1 DEF sshVars, FlowInv, FlowTypes, NoneInvented, ConnInv, NothingLost, Drained
<1> QED
  BY <1>1, SshCases, WorldFlow, StartingFlow, EndingFlow

\* Every other step of the flow leaves the runner alone.
LEMMA LaunchStepsSsh == [Next]_vars => [SshNext]_sshVars
<1> SUFFICES ASSUME [Next]_vars PROVE SshNext \/ UNCHANGED sshVars
  OBVIOUS
<1>1. CASE UNCHANGED vars
  BY <1>1 DEF vars
<1>2. CASE RunCommand
  BY <1>2 DEF RunCommand
<1>3. CASE Next /\ ~RunCommand
  BY <1>3 DEF Next, LaunchFails, Parse, Announce, AnnounceFails, Guard, GuardBlind,
     ScancelAndFold, ReadVar, Publish, WaitFails, Interrupt, Rerun, UserCancels, SlurmStep,
     Refresh, LateWrite
<1> QED
  BY <1>1, <1>2, <1>3

LEMMA LaunchSshInv == LaunchSpec => []SshInv
<1>1. Init => SshInv
  BY InitSshInv DEF Init
<1>2. SshInv /\ [Next]_vars => SshInv'
  BY SshInvariance, LaunchStepsSsh
<1> QED
  BY <1>1, <1>2, PTL DEF LaunchSpec

\* Whatever raises and whenever the connection is lost, it is closed.
THEOREM ConnectionIsClosed == LaunchSpec => []ConnectionClosed
<1>1. SshInv => ConnectionClosed
  BY DEF SshInv, PlaceInv
<1> QED
  BY <1>1, LaunchSshInv, PTL

LEMMA LaunchFlowInv == LaunchSpec => []FlowInv
<1>1. Init => FlowInv
  BY InitFlowInv DEF Init
<1>2. SshInv /\ FlowInv /\ [Next]_vars => FlowInv'
  BY FlowInvariance, LaunchStepsSsh
<1> QED
  BY <1>1, <1>2, LaunchSshInv, PTL DEF LaunchSpec

\* All of the output of a command that returned zero was read.
LEMMA CompleteText ==
  ASSUME SshInv, FlowInv, pc = "returned", code = "zero"
  PROVE  /\ exit = "zero"
         /\ sent = Len(output)
         /\ ~dropped => \A s \in Streams : TextOf(s) = Only(output, To(s))
<1>1. proc = "exited" /\ exit = "zero"
  <2>1. Finished
    BY DEF SshInv, CodeInv
  <2> QED
    BY <2>1, ReportedFacts DEF Finished, SshInv, PlaceInv, StatusInv
<1>2. sent = Len(output)
  BY <1>1 DEF FlowInv, ConnInv
<1>3. ASSUME ~dropped, NEW s \in Streams PROVE TextOf(s) = Only(output, To(s))
  <2>1. got[s] + inbox[s] = Count(s, sent) /\ inbox[s] = 0
    BY <1>1, <1>3 DEF FlowInv, NothingLost, Drained, Over, Streams
  <2>2. output \in Seq(Lines) /\ got[s] \in Nat
    BY OutputIsSeq DEF FlowInv, FlowTypes
  <2>3. Only(output, To(s)) \in Seq(Lines) /\ Len(Only(output, To(s))) = Count(s, Len(output))
    BY <2>2, OnlyFacts DEF Count
  <2>4. got[s] = Len(Only(output, To(s)))
    BY <1>2, <2>1, <2>2, <2>3
  <2> QED
    BY <2>3, <2>4 DEF TextOf
<1> QED
  BY <1>1, <1>2, <1>3

\* Nothing a successful command printed is missing, unless the connection was
\* lost, for every output and every window.
THEOREM OutputIsComplete == LaunchSpec => []ZeroIsComplete
<1>1. SshInv /\ FlowInv => ZeroIsComplete
  BY CompleteText DEF ZeroIsComplete
<1> QED
  BY <1>1, LaunchSshInv, LaunchFlowInv, PTL

\* Reading stderr after stdout, the runner has read none of it at first.
StreamInv ==
  /\ conn \in {"none", "up"} => ~dropped
  /\ pc \in {"start", "connect", "exec", "stdout"} => got["err"] = 0

\* While a command runs that has more to write, it has room to, or the runner has
\* something to read.
NobodyBlocks ==
  (Fits \/ runner \in Piped) /\ proc = "running" /\ conn = "up" /\ sent < Len(output) =>
    Room(output[sent + 1].to) \/ \E s \in Reading : inbox[s] > 0

\* StreamInv is kept by every step of the runner and the command.
LEMMA StreamInvariance ==
  SshInv /\ FlowInv /\ StreamInv /\ [SshNext]_sshVars => StreamInv'
<1> SUFFICES ASSUME SshInv, FlowInv, StreamInv, [SshNext]_sshVars PROVE StreamInv'
  OBVIOUS
<1>1. CASE UNCHANGED sshVars
  BY <1>1 DEF sshVars, StreamInv
<1>2. CASE World
  <2>1. UNCHANGED <<pc, got>> /\ (UNCHANGED <<conn, dropped>> \/ conn' \in {"lost", "down"})
    BY <1>2 DEF World, Write, Exit, Die, Ends, Drop, Notice, client, command
  <2> QED
    BY <2>1 DEF StreamInv
<1>3. CASE Starting
  <2>1. UNCHANGED <<got, dropped>> /\ pc \in {"start", "connect", "exec"}
        /\ (conn' = conn \/ pc \in {"start", "connect"})
    BY <1>3 DEF Starting, CheckFiles, CannotStart, StartProcess, Connect, ConnectFails, Exec,
       ExecFails, client, command
  <2>2. pc \in {"start", "connect"} => conn = "none"
    BY DEF SshInv, PlaceInv
  <2> QED
    BY <2>1, <2>2 DEF StreamInv
<1>4. CASE Ending
  <2>1. UNCHANGED dropped /\ conn' \in {conn, "closed"} \cup (IF conn = "none" THEN {"none"} ELSE {})
    BY <1>4 DEF Ending, Read, EndOfOutput, RecvExitStatus, MakeResult, Undecodable, Close
  <2>2. pc' \in {"start", "connect", "exec", "stdout"} => pc' = pc /\ got'["err"] = got["err"]
    <3>1. CASE Read
      <4>1. PICK s \in Reading : got' = [got EXCEPT ![s] = @ + 1] /\ pc' = pc
        BY <3>1 DEF Read
      <4> QED
        BY <4>1 DEF Reading, FlowInv, FlowTypes
    <3>2. CASE EndOfOutput
      BY <3>2 DEF EndOfOutput, AtEnd, Reading
    <3>3. CASE RecvExitStatus \/ MakeResult \/ Undecodable \/ Close
      BY <3>3 DEF RecvExitStatus, MakeResult, Undecodable, Raise, Close
    <3> QED
      BY <1>4, <3>1, <3>2, <3>3 DEF Ending
  <2> QED
    BY <2>1, <2>2 DEF StreamInv
<1> QED
  BY <1>1, <1>2, <1>3, <1>4, SshCases

\* What is in the window while stdout is read and drained is stderr, which fits.
LEMMA BlocksNobody == SshInv /\ FlowInv /\ StreamInv => NobodyBlocks
<1> SUFFICES ASSUME SshInv, FlowInv, StreamInv, Fits \/ runner \in Piped, proc = "running",
                    conn = "up", sent < Len(output), \A s \in Reading : ~(inbox[s] > 0)
             PROVE  Room(output[sent + 1].to)
  BY DEF NobodyBlocks
<1>1. /\ output \in Seq(Lines) /\ sent \in Nat /\ Window \in Nat \ {0}
      /\ inbox \in [Streams -> 0..Window] /\ got \in [Streams -> Nat]
  BY SshAssumption, OutputIsSeq DEF FlowInv, FlowTypes
<1>2. output[sent + 1].to \in Streams
  BY <1>1, SshAssumption
<1>3. NothingLost
  BY DEF FlowInv, StreamInv
<1>4. pc \in {"stdout", "communicate"}
  BY <1>3 DEF NothingLost, Drained, SshInv, PlaceInv, Over
<1>5. CASE pc = "communicate"
  <2>1. runner \notin Paramiko
    BY <1>5 DEF SshInv, PlaceInv, Paramiko, Piped
  <2>2. inbox[output[sent + 1].to] = 0
    BY <1>1, <1>2, <1>5 DEF Reading
  <2> QED
    BY <1>1, <2>1, <2>2 DEF Room
<1>6. CASE pc = "stdout"
  <2>1. runner \in Paramiko /\ Fits
    BY <1>6 DEF SshInv, PlaceInv, Paramiko, Piped
  <2>2. inbox["out"] = 0
    BY <1>1, <1>6 DEF Reading, Streams
  <2>3. inbox["err"] = Count("err", sent)
    BY <1>1, <1>3, <1>6 DEF NothingLost, StreamInv, Streams
  <2>4. Count("err", sent) < Window
    <3>1. sent + 1 \in 1..Len(output) /\ (sent + 1) - 1 = sent
      BY <1>1
    <3>2. Cardinality({i \in 1..sent : output[i].to = "err"}) < Window
      BY <2>1, <3>1 DEF Fits
    <3>3. \A i \in 1..sent : output[i] \in Lines
      BY <1>1
    <3>4. {i \in 1..sent : output[i].to = "err"} = {i \in 1..sent : output[i] \in To("err")}
      BY <3>3 DEF To
    <3> QED
      BY <3>2, <3>4 DEF Count
  <2> QED
    BY <1>1, <2>1, <2>2, <2>3, <2>4 DEF Room, Streams
<1> QED
  BY <1>4, <1>5, <1>6

\* The deadlock that reading before waiting is to avoid: it cannot happen if stderr
\* fits into the window or is read at once, for every output and every window.
THEOREM NoMutualWait == LaunchSpec => []NobodyBlocks
<1>1. Init => StreamInv
  BY DEF Init, SshInit, StreamInv, Streams
<1>2. SshInv /\ FlowInv /\ StreamInv /\ [Next]_vars => StreamInv'
  BY StreamInvariance, LaunchStepsSsh
<1> QED
  BY <1>1, <1>2, BlocksNobody, LaunchSshInv, LaunchFlowInv, PTL DEF LaunchSpec

-----------------------------------------------------------------------------
(* The flow: types. *)

\* The types that no other invariant has.
SshRest ==
  /\ runner \in Runners
  /\ missing \in SUBSET {"key", "cert"}
  /\ dropped \in BOOLEAN
  /\ status \in {"none"} \cup Codes
  /\ code \in {"none"} \cup Codes
  /\ result \in {"none", "ok", "error"}

LEMMA InitSshRest == SshInit => SshRest
  BY DEF SshInit, SshRest, Named

LEMMA SshRestInvariance == SshInv /\ SshRest /\ [SshNext]_sshVars => SshRest'
<1> SUFFICES ASSUME SshInv, SshRest, [SshNext]_sshVars PROVE SshRest'
  OBVIOUS
<1>1. runner' = runner /\ missing' = missing
  BY SshCases DEF sshVars, World, Starting, Ending, Write, Exit, Die, Ends, Drop, Notice, CheckFiles,
     CannotStart, StartProcess, Connect, ConnectFails, Exec, ExecFails, Read, EndOfOutput,
     RecvExitStatus, MakeResult, Undecodable, Close, client
<1>2. dropped' \in BOOLEAN
  BY SshCases DEF SshRest, sshVars, World, Starting, Ending, Write, Exit, Die, Ends, Drop, Notice,
     CheckFiles, CannotStart, StartProcess, Connect, ConnectFails, Exec, ExecFails, Read,
     EndOfOutput, RecvExitStatus, MakeResult, Undecodable, Close
<1>3. status' \in {"none"} \cup Codes
  BY SshCases, ReportedFacts DEF SshRest, Codes, Reported, SshInv, PlaceInv, sshVars, World, Starting, Ending, Write,
     Exit, Die, Ends, Drop, Notice, CheckFiles, CannotStart, StartProcess, Connect,
     ConnectFails, Exec, ExecFails, Read, EndOfOutput, RecvExitStatus, MakeResult,
     Undecodable, Close
<1>4. code' \in {"none"} \cup Codes
  BY SshCases DEF SshRest, Codes, sshVars, World, Starting, Ending, Write, Exit, Die, Ends, Drop,
     Notice, CheckFiles, CannotStart, StartProcess, Connect, ConnectFails, Exec, ExecFails,
     Read, EndOfOutput, RecvExitStatus, StatusOrNone, MakeResult, Undecodable, Close
<1>5. result' \in {"none", "ok", "error"}
  BY SshCases DEF SshRest, sshVars, World, Starting, Ending, Write, Exit, Die, Ends, Drop, Notice,
     CheckFiles, CannotStart, StartProcess, Connect, ConnectFails, Exec, ExecFails, Refuse,
     Raise, Read, EndOfOutput, RecvExitStatus, MakeResult, Undecodable, Close
<1> QED
  BY <1>1, <1>2, <1>3, <1>4, <1>5 DEF SshRest

\* The invariants make up the types of the runner.
LEMMA SshTypes == SshInv /\ FlowInv /\ SshRest => SshTypeOK
<1> SUFFICES ASSUME SshInv, FlowInv, SshRest PROVE SshTypeOK
  OBVIOUS
<1>1. got \in [Streams -> 0..sent]
  <2>1. /\ inbox \in [Streams -> 0..Window] /\ got \in [Streams -> Nat] /\ sent \in Nat
        /\ Window \in Nat /\ \A s \in Streams : got[s] + inbox[s] <= sent
    BY SshAssumption, OutputIsSeq DEF FlowInv, FlowTypes
  <2>2. ASSUME NEW s \in Streams PROVE got[s] \in 0..sent
    BY <2>1
  <2> QED
    BY <2>1, <2>2
<1>2. exit \in {"none", "zero", "other", "255", "signal"}
  BY DEF SshInv, StatusInv, FlowInv, ConnInv
<1> QED
  BY <1>1, <1>2
     DEF SshTypeOK, SshInv, PlaceInv, StatusInv, FlowInv, FlowTypes, ConnInv, SshRest, Over

\* The rows that Submissions flattens.
Rows(lines, dirs) ==
  [k \in DOMAIN lines |->
    [i \in DOMAIN lines[k].jobs |-> [job |-> lines[k].jobs[i], dir |-> dirs[k]]]]

\* They are sequences of submissions, empty only for lines without jobs.
LEMMA RowsFacts ==
  ASSUME NEW lines \in Seq(Lines), NEW dirs,
         \A k \in 1..Len(lines) : dirs[k] \in {l.run : l \in Lines}
  PROVE  /\ Rows(lines, dirs) \in Seq(Seq(Submission))
         /\ Len(Rows(lines, dirs)) = Len(lines)
         /\ \A k \in 1..Len(lines) : lines[k].jobs # <<>> => Rows(lines, dirs)[k] # <<>>
<1> DEFINE rows == Rows(lines, dirs)
<1>1. ASSUME NEW k \in 1..Len(lines)
      PROVE  /\ rows[k] \in Seq(Submission)
             /\ lines[k].jobs # <<>> => rows[k] # <<>>
  <2>1. lines[k].jobs \in Seq(Jobs) /\ DOMAIN lines = 1..Len(lines)
    BY LaunchAssumption
  <2>2. \A i \in 1..Len(lines[k].jobs) : [job |-> lines[k].jobs[i], dir |-> dirs[k]] \in Submission
    BY <2>1 DEF Submission
  <2>3. rows[k] = [i \in 1..Len(lines[k].jobs) |-> [job |-> lines[k].jobs[i], dir |-> dirs[k]]]
    BY <2>1 DEF Rows
  <2> HIDE DEF rows
  <2>4. rows[k] \in Seq(Submission)
    BY <2>1, <2>2, <2>3
  <2>5. Len(rows[k]) = Len(lines[k].jobs)
    BY <2>1, <2>3
  <2> QED
    BY <2>1, <2>4, <2>5
<1>2. rows = [k \in 1..Len(lines) |-> rows[k]]
  BY DEF Rows
<1> HIDE DEF rows
<1>3. rows \in Seq(Seq(Submission)) /\ Len(rows) = Len(lines)
  BY <1>1, <1>2
<1> QED
  BY <1>1, <1>3 DEF rows

\* Lines and their dirs give submissions, and some if there is a job in a line.
LEMMA SubmissionsFacts ==
  ASSUME NEW lines \in Seq(Lines), NEW dirs,
         \A k \in 1..Len(lines) : dirs[k] \in {l.run : l \in Lines}
  PROVE  /\ Submissions(lines, dirs) \in Seq(Submission)
         /\ (\E k \in DOMAIN lines : lines[k].jobs # <<>>) => Submissions(lines, dirs) # <<>>
<1> DEFINE rows == Rows(lines, dirs)
<1>1. /\ rows \in Seq(Seq(Submission)) /\ Len(rows) = Len(lines)
      /\ \A k \in 1..Len(lines) : lines[k].jobs # <<>> => rows[k] # <<>>
  BY RowsFacts
<1>2. Submissions(lines, dirs) = FlattenSeq(rows) /\ DOMAIN lines = 1..Len(lines)
  BY DEF Submissions, Rows
<1> HIDE DEF rows
<1>3. FlattenSeq(rows) \in Seq(Submission)
  BY <1>1, FlattenFacts
<1>4. ASSUME NEW k \in DOMAIN lines, lines[k].jobs # <<>> PROVE FlattenSeq(rows) # <<>>
  <2>1. k \in 1..Len(rows) /\ rows[k] # <<>>
    BY <1>1, <1>2, <1>4
  <2> QED
    BY <1>1, <2>1, FlattenFacts
<1> QED
  BY <1>2, <1>3, <1>4

\* The submissions of the first lines begin those of all.
LEMMA SubmissionsBegin ==
  ASSUME NEW lines \in Seq(Lines), NEW n \in 1..Len(lines)
  PROVE  Begins(BySubmission(SubSeq(lines, 1, n)), BySubmission(lines))
<1> DEFINE first == SubSeq(lines, 1, n)
           dirs == [k \in DOMAIN lines |-> lines[k].run]
           firstDirs == [k \in DOMAIN first |-> first[k].run]
<1>1. first \in Seq(Lines) /\ Len(first) = n /\ \A k \in 1..n : first[k] = lines[k]
  BY FirstFacts
<1> HIDE DEF first
<1>2. /\ DOMAIN lines = 1..Len(lines) /\ DOMAIN first = 1..n
      /\ \A k \in 1..Len(lines) : dirs[k] = lines[k].run /\ lines[k] \in Lines
      /\ \A k \in 1..n : firstDirs[k] = lines[k].run /\ k \in 1..Len(lines)
  BY <1>1
<1>3. /\ BySubmission(first) = FlattenSeq(Rows(first, firstDirs))
      /\ BySubmission(lines) = FlattenSeq(Rows(lines, dirs))
  BY DEF BySubmission, Submissions, Rows
<1> HIDE DEF dirs, firstDirs
<1> DEFINE rows == Rows(lines, dirs)
           firstRows == Rows(first, firstDirs)
<1>4. /\ rows \in Seq(Seq(Submission)) /\ Len(rows) = Len(lines)
      /\ firstRows \in Seq(Seq(Submission)) /\ Len(firstRows) = n
  <2>1. \A k \in 1..Len(lines) : dirs[k] \in {l.run : l \in Lines}
    BY <1>2
  <2>2. \A k \in 1..Len(first) : firstDirs[k] \in {l.run : l \in Lines}
    BY <1>1, <1>2
  <2> QED
    BY <1>1, <2>1, <2>2, RowsFacts
<1>5. \A k \in 1..n : firstRows[k] = rows[k]
  BY <1>1, <1>2 DEF Rows
<1> HIDE DEF rows, firstRows
<1>6. firstRows = SubSeq(rows, 1, n)
  <2>1. Begins(firstRows, rows)
    BY <1>4, <1>5 DEF Begins
  <2> QED
    BY <1>4, <2>1, BeginsIsSubSeq
<1>7. Begins(FlattenSeq(firstRows), FlattenSeq(rows))
  BY <1>4, <1>6, FlattenBegins
<1> QED
  BY <1>3, <1>7 DEF first, rows, firstRows

\* What was read of a stream begins what the command prints there.
LEMMA TextFacts ==
  ASSUME FlowInv, NEW s \in Streams
  PROVE  /\ Only(output, To(s)) \in Seq(Lines)
         /\ got[s] \in 0..Len(Only(output, To(s)))
         /\ TextOf(s) \in Seq(Lines)
<1>1. /\ output \in Seq(Lines) /\ Window \in Nat /\ FlowTypes
      /\ got[s] + inbox[s] <= Count(s, sent)
      /\ got[s] \in Nat /\ inbox[s] \in 0..Window
  BY SshAssumption, OutputIsSeq DEF FlowInv, FlowTypes, NoneInvented
<1>2. /\ Only(output, To(s)) \in Seq(Lines)
      /\ Len(Only(output, To(s))) = Count(s, Len(output))
  BY <1>1, OnlyFacts DEF Count
<1>3. got[s] \in 0..Len(Only(output, To(s)))
  BY <1>1, <1>2, CountType
<1> QED
  BY <1>2, <1>3 DEF TextOf

\* What a launch returns is a list of jobs with a dir, and not an empty one.
LEMMA ParsedFacts ==
  ASSUME FlowInv, WellFormed(Summary)
  PROVE  ByFirstLine(Summary) \in Seq(Submission) /\ Len(ByFirstLine(Summary)) > 0
<1>1. \A s \in Streams : SummaryIn(s) \in Seq(Lines)
  BY TextFacts, OnlyFacts DEF SummaryIn
<1>2. Summary \in Seq(Lines) /\ \E k \in DOMAIN Summary : Summary[k].jobs # <<>>
  BY <1>1 DEF Summary, WellFormed, Streams
<1>3. ASSUME NEW lines \in Seq(Lines), \E k \in DOMAIN lines : lines[k].jobs # <<>>
      PROVE  ByFirstLine(lines) \in Seq(Submission) /\ Len(ByFirstLine(lines)) > 0
  <2> DEFINE dirs == [k \in DOMAIN lines |-> lines[1].run]
  <2>1. \A k \in 1..Len(lines) : dirs[k] \in {l.run : l \in Lines}
    OBVIOUS
  <2> HIDE DEF dirs
  <2>2. Submissions(lines, dirs) \in Seq(Submission) /\ Submissions(lines, dirs) # <<>>
    BY <1>3, <2>1, SubmissionsFacts
  <2> QED
    BY <2>2 DEF ByFirstLine, dirs
<1> QED
  BY <1>2, <1>3

\* Where the flow is tells what it has, and what it awaits.
FlowTypeInv ==
  /\ at \in {"launch", "announce", "launchError", "raised", "interrupted",
             "waitError", "done"} \cup Waiting
  /\ ls \in Seq(Submission)
  /\ run \in 1..MaxRuns
  /\ results \in Seq([job : Jobs, state : SlurmJobState])
  /\ Len(results) <= Len(ls)
  /\ told \in SlurmJobState \cup {"none"}
  /\ at = "report" => told \in SlurmJobState
  /\ at \in {"launch", "announce"} => results = <<>>
  /\ at \in {"announce"} \cup Waiting => Len(results) < Len(ls)
  /\ at \in {"interrupted"} => Len(ls) > 0
  /\ at = "done" => Len(results) = Len(ls)

\* Slurm, the status variables and the counters.
HpcTypeInv ==
  /\ slurm \in [Jobs -> SlurmJobState]
  /\ killed \in SUBSET Jobs
  /\ cancelled \in SUBSET (1..MaxRuns)
  /\ var \in [Jobs -> SlurmJobState \cup {"CANCELLING", "ABSENT"}]
  /\ owner \in [Jobs -> 0..MaxRuns]
  /\ faults \in 0..MaxFaults
  /\ late \in 0..MaxLate

\* A final state is that of the job, and a wait was told one or of a cancellation.
TruthInv ==
  /\ \A j \in Jobs : is_terminal_state(var[j]) => slurm[j] = var[j]
  /\ at = "scancel" => run \in cancelled
  /\ at = "report" => \/ told = slurm[Awaited] /\ IsOver(Awaited)
                      \/ told = "CANCELLED" /\ run \in cancelled
  /\ ResultsAreTrue

\* The jobs whose wait has returned are the first Settled of ls.
Settled == IF at = "report" THEN Len(results) + 1 ELSE Len(results)

\* Without late writes, what this flow run has a variable for is the job that it
\* awaits, and every settled job is over or was killed.
KilledInv ==
  /\ \A j \in Jobs : owner[j] <= run
  /\ at \in {"launch", "announce"} => \A j \in Jobs : var[j] = "ABSENT"
  /\ late = 0 /\ at \in Waiting =>
       \A j \in Mine : at # "report" /\ j = Awaited
  /\ at = "scancel" => Mine # {}
  /\ late = 0 => \A k \in 1..Settled : IsOver(ls[k].job) \/ ls[k].job \in killed

\* The jobs with a variable that no wait is to come for.
Loose == {j \in Jobs : var[j] # "ABSENT" /\ \A k \in (Settled + 1)..Len(ls) : ls[k].job # j}

\* Each was written by a late refresh.
LooseInv == IsFiniteSet(Loose) /\ Cardinality(Loose) <= late

\* At the announcement the launch has succeeded, and is known.
KnownInv ==
  at = "announce" =>
    /\ pc = "returned" /\ code = "zero"
    /\ Begin(ls, Launched)
    /\ dropped \/ ls = Launched

\* The invariants of the flow hold at its start.
LEMMA InitFlow ==
  Init => FlowTypeInv /\ HpcTypeInv /\ TruthInv /\ KilledInv /\ LooseInv /\ KnownInv
<1> SUFFICES ASSUME Init
             PROVE  FlowTypeInv /\ HpcTypeInv /\ TruthInv /\ KilledInv /\ LooseInv /\ KnownInv
  OBVIOUS
<1> USE DEF Init
<1>1. FlowTypeInv
  BY LaunchAssumption DEF FlowTypeInv, Waiting
<1>2. HpcTypeInv
  BY LaunchAssumption DEF HpcTypeInv, SlurmJobState
<1>3. TruthInv
  BY DEF TruthInv, ResultsAreTrue, is_terminal_state, TerminalStates
<1>4. KilledInv
  BY LaunchAssumption DEF KilledInv, Waiting, Settled
<1>5. LooseInv
  <2>1. Loose = {}
    BY DEF Loose
  <2> QED
    BY <2>1, FS_EmptySet DEF LooseInv
<1>6. KnownInv
  BY DEF KnownInv
<1> QED
  BY <1>1, <1>2, <1>3, <1>4, <1>5, <1>6

\* A flow that waits awaits one of its jobs.
LEMMA AwaitedType == FlowTypeInv /\ at \in Waiting => Awaited \in Jobs /\ Len(results) \in Nat
<1> SUFFICES ASSUME FlowTypeInv, at \in Waiting PROVE Awaited \in Jobs /\ Len(results) \in Nat
  OBVIOUS
<1>1. /\ ls \in Seq(Submission) /\ Len(results) \in Nat /\ Len(ls) \in Nat
      /\ Len(results) < Len(ls)
  BY DEF FlowTypeInv
<1>2. ls[Len(results) + 1] \in Submission
  BY <1>1
<1> QED
  BY <1>1, <1>2 DEF Awaited, Submission

\* Slurm, the variables and the histories keep their types.
LEMMA HpcTypeInvariance == FlowTypeInv /\ HpcTypeInv /\ [Next]_vars => HpcTypeInv'
<1> SUFFICES ASSUME FlowTypeInv, HpcTypeInv, [Next]_vars PROVE HpcTypeInv'
  OBVIOUS
<1> USE DEF HpcTypeInv, hpc
<1>1. CASE UNCHANGED vars \/ RunCommand
  BY <1>1 DEF vars, launchVars, RunCommand
<1>2. CASE LaunchFails \/ Parse \/ Announce \/ Publish \/ Rerun
  BY <1>2 DEF LaunchFails, Parse, Announce, Publish, Rerun
<1>3. CASE AnnounceFails \/ GuardBlind \/ Interrupt
  <2>1. faults' \in 0..MaxFaults
    BY <1>3, LaunchAssumption DEF AnnounceFails, GuardBlind, Interrupt, Fault
  <2> QED
    BY <1>3, <2>1 DEF AnnounceFails, GuardBlind, Interrupt
<1>4. CASE WaitFails
  <2>1. Mine \subseteq Jobs
    BY DEF Mine
  <2>2. killed' \in SUBSET Jobs /\ faults' \in 0..MaxFaults
    BY <1>4, <2>1, LaunchAssumption DEF WaitFails, Fault
  <2> QED
    BY <1>4, <2>2 DEF WaitFails
<1>5. CASE Guard
  <2>1. var' \in [Jobs -> SlurmJobState \cup {"CANCELLING", "ABSENT"}]
    BY <1>5 DEF Guard
  <2> QED
    BY <1>5, <2>1 DEF Guard
<1>6. CASE ScancelAndFold
  <2>1. Mine \subseteq Jobs /\ UNCHANGED <<slurm, cancelled, faults, late>>
    BY <1>6 DEF ScancelAndFold, Mine
  <2>2. killed' \in SUBSET Jobs
    BY <1>6, <2>1 DEF ScancelAndFold
  <2>3. /\ var' \in [Jobs -> SlurmJobState \cup {"CANCELLING", "ABSENT"}]
        /\ owner' \in [Jobs -> 0..MaxRuns]
    <3>1. /\ var' = [var EXCEPT ![Awaited] = "ABSENT"]
          /\ owner' = [owner EXCEPT ![Awaited] = 0]
      BY <1>6 DEF ScancelAndFold, DeleteVar
    <3>2. 0 \in 0..MaxRuns
      BY LaunchAssumption
    <3> QED
      BY <3>1, <3>2
  <2> QED
    BY <2>1, <2>2, <2>3
<1>7. CASE ReadVar
  <2>1. /\ UNCHANGED <<slurm, killed, cancelled, faults, late>>
        /\ \/ /\ var' = [var EXCEPT ![Awaited] = "PENDING"]
              /\ owner' = [owner EXCEPT ![Awaited] = run]
           \/ DeleteVar(Awaited)
           \/ UNCHANGED <<var, owner>>
    BY <1>7 DEF ReadVar
  <2>2. "PENDING" \in SlurmJobState /\ 0 \in 0..MaxRuns /\ run \in 0..MaxRuns
    BY LaunchAssumption DEF FlowTypeInv, SlurmJobState
  <2>3. var' \in [Jobs -> SlurmJobState \cup {"CANCELLING", "ABSENT"}]
    BY <2>1, <2>2 DEF DeleteVar
  <2>4. owner' \in [Jobs -> 0..MaxRuns]
    BY <2>1, <2>2 DEF DeleteVar
  <2> QED
    BY <2>1, <2>3, <2>4
<1>8. CASE UserCancels
  BY <1>8 DEF UserCancels, FlowTypeInv
<1>9. ASSUME NEW j \in Jobs, SlurmStep(j) PROVE HpcTypeInv'
  <2>1. slurm' \in [Jobs -> SlurmJobState]
    BY <1>9, LaunchAssumption DEF SlurmStep, SlurmJobState
  <2> QED
    BY <1>9, <2>1 DEF SlurmStep
<1>10. ASSUME NEW j \in Jobs, Refresh(j) PROVE HpcTypeInv'
  BY <1>10 DEF Refresh
<1>11. ASSUME NEW j \in Jobs, LateWrite(j) PROVE HpcTypeInv'
  <2>1. /\ late < MaxLate /\ late' = late + 1
        /\ owner' = owner \/ owner' = [owner EXCEPT ![j] = run]
        /\ var' = [var EXCEPT ![j] = slurm[j]]
        /\ UNCHANGED <<slurm, killed, cancelled, faults>>
    BY <1>11 DEF LateWrite
  <2>2. MaxLate \in Nat /\ run \in 0..MaxRuns
    BY LaunchAssumption DEF FlowTypeInv
  <2>3. late' \in 0..MaxLate
    BY <2>1, <2>2
  <2>4. owner' \in [Jobs -> 0..MaxRuns]
    BY <2>1, <2>2
  <2> QED
    BY <2>1, <2>3, <2>4
<1> QED
  BY <1>1, <1>2, <1>3, <1>4, <1>5, <1>6, <1>7, <1>8, <1>9, <1>10, <1>11 DEF Next

\* So does what the flow has in hand.
LEMMA FlowTypeInvariance ==
  FlowInv /\ FlowTypeInv /\ HpcTypeInv /\ [Next]_vars => FlowTypeInv'
<1> SUFFICES ASSUME FlowInv, FlowTypeInv, HpcTypeInv, [Next]_vars PROVE FlowTypeInv'
  OBVIOUS
<1> USE DEF FlowTypeInv, Waiting
<1>1. CASE UNCHANGED <<at, ls, run, results, told>>
  BY <1>1
<1>2. CASE Parse
  <2>1. /\ at = "launch" /\ at' = "announce" /\ UNCHANGED <<run, results, told>>
        /\ ls' = ByFirstLine(Summary) /\ WellFormed(Summary)
    BY <1>2 DEF Parse
  <2>2. ls' \in Seq(Submission) /\ Len(ls') > 0
    BY <2>1, ParsedFacts
  <2>3. Submission' = Submission
    BY DEF Submission
  <2> QED
    BY <2>1, <2>2, <2>3
<1>3. CASE LaunchFails \/ Announce \/ AnnounceFails \/ Guard \/ GuardBlind \/ WaitFails \/ Interrupt
  <2>1. UNCHANGED <<ls, run, results, told>>
    BY <1>3 DEF LaunchFails, Announce, AnnounceFails, Guard, GuardBlind, WaitFails, Interrupt
  <2>2. \/ at = "launch" /\ at' = "launchError"
        \/ at = "announce" /\ at' \in {"poll", "raised"}
        \/ at \in Waiting /\ at' \in {"scancel", "read", "waitError", "interrupted"}
    BY <1>3 DEF LaunchFails, Announce, AnnounceFails, Guard, GuardBlind, WaitFails, Interrupt
  <2> QED
    BY <2>1, <2>2
<1>4. CASE ScancelAndFold
  BY <1>4 DEF ScancelAndFold, SlurmJobState
<1>5. CASE ReadVar
  <2>1. UNCHANGED <<ls, run, results>> /\ at = "read"
    BY <1>5 DEF ReadVar
  <2>2. \/ at' = "poll" /\ UNCHANGED told
        \/ at' = "report" /\ told' \in SlurmJobState
    BY <1>5 DEF ReadVar, is_terminal_state, TerminalStates, SlurmJobState
  <2> QED
    BY <2>1, <2>2
<1>6. CASE Publish
  <2>1. /\ at = "report" /\ UNCHANGED <<ls, run>> /\ told' = "none"
        /\ results' = Append(results, [job |-> Awaited, state |-> told])
        /\ at' = IF Len(results') = Len(ls) THEN "done" ELSE "poll"
    BY <1>6 DEF Publish
  <2>2. [job |-> Awaited, state |-> told] \in [job : Jobs, state : SlurmJobState]
    BY <2>1, AwaitedType
  <2>3. /\ results' \in Seq([job : Jobs, state : SlurmJobState])
        /\ Len(results') = Len(results) + 1 /\ Len(results) \in Nat /\ Len(ls) \in Nat
    BY <2>1, <2>2
  <2> QED
    BY <2>1, <2>3
<1>7. CASE Rerun
  <2>1. run' \in 1..MaxRuns
    BY <1>7, LaunchAssumption DEF Rerun
  <2> QED
    BY <1>7, <2>1 DEF Rerun
<1> QED
  BY <1>1, <1>2, <1>3, <1>4, <1>5, <1>6, <1>7
     DEF Next, vars, launchVars, RunCommand, UserCancels, SlurmStep, Refresh, LateWrite

\* A job that is over stays as it is, and a cancellation is not taken back.
LEMMA OverStays ==
  ASSUME HpcTypeInv, [Next]_vars
  PROVE  /\ \A j \in Jobs : IsOver(j) => slurm'[j] = slurm[j]
         /\ cancelled \subseteq cancelled' /\ killed \subseteq killed' /\ late <= late'
<1>1. \A j \in Jobs : IsOver(j) => slurm'[j] = slurm[j]
  <2>1. ASSUME NEW i \in Jobs, SlurmStep(i), NEW j \in Jobs, IsOver(j)
        PROVE  slurm'[j] = slurm[j]
    BY <2>1 DEF SlurmStep, HpcTypeInv
  <2>2. CASE ~\E i \in Jobs : SlurmStep(i)
    <3>1. slurm' = slurm
      BY <2>2 DEF Next, vars, launchVars, hpc, RunCommand, LaunchFails, Parse, Announce,
         AnnounceFails, Guard, GuardBlind, ScancelAndFold, ReadVar, Publish, WaitFails, Interrupt,
         Rerun, UserCancels, Refresh, LateWrite
    <3> QED
      BY <3>1
  <2> QED
    BY <2>1, <2>2
<1>2. cancelled \subseteq cancelled'
  BY DEF Next, vars, launchVars, hpc, RunCommand, LaunchFails, Parse, Announce,
     AnnounceFails, Guard, GuardBlind, ScancelAndFold, ReadVar, Publish, WaitFails, Interrupt,
     Rerun, UserCancels, SlurmStep, Refresh, LateWrite
<1>3. killed \subseteq killed'
  BY DEF Next, vars, launchVars, hpc, RunCommand, LaunchFails, Parse, Announce,
     AnnounceFails, Guard, GuardBlind, ScancelAndFold, ReadVar, Publish, WaitFails, Interrupt,
     Rerun, UserCancels, SlurmStep, Refresh, LateWrite
<1>4. late <= late'
  <2>1. late' = late \/ late' = late + 1
    BY DEF Next, vars, launchVars, hpc, RunCommand, LaunchFails, Parse, Announce,
       AnnounceFails, Guard, GuardBlind, ScancelAndFold, ReadVar, Publish, WaitFails, Interrupt,
       Rerun, UserCancels, SlurmStep, Refresh, LateWrite
  <2> QED
    BY <2>1 DEF HpcTypeInv
<1> QED
  BY <1>1, <1>2, <1>3, <1>4

Told == \/ told = slurm[Awaited] /\ IsOver(Awaited)
        \/ told = "CANCELLED" /\ run \in cancelled

\* What the others do leaves what the flow knows true.
LEMMA TruthStays ==
  ASSUME FlowTypeInv, HpcTypeInv, TruthInv, [Next]_vars, UNCHANGED <<at, ls, run, results, told>>
  PROVE  /\ at' = "scancel" => run' \in cancelled'
         /\ at' = "report" => Told'
         /\ ResultsAreTrue'
<1>1. at' = "scancel" => run' \in cancelled'
  BY OverStays DEF TruthInv
<1>2. at' = "report" => Told'
  <2> SUFFICES ASSUME at = "report" PROVE Told'
    OBVIOUS
  <2>1. Awaited' = Awaited /\ Awaited \in Jobs /\ Told
    BY AwaitedType DEF Awaited, Waiting, TruthInv, Told
  <2> QED
    BY <2>1, OverStays DEF Told, IsOver
<1>3. ResultsAreTrue'
  <2> SUFFICES ASSUME NEW k \in DOMAIN results
               PROVE  /\ results[k].job = ls[k].job
                      /\ \/ /\ results[k].state = slurm'[results[k].job]
                            /\ slurm'[results[k].job] \in TerminalStates
                         \/ results[k].state = "CANCELLED" /\ run \in cancelled'
    BY DEF ResultsAreTrue, IsOver
  <2>1. results[k].job \in Jobs
    <3> DEFINE T == [job : Jobs, state : SlurmJobState]
    <3>1. results \in Seq(T)
      BY DEF FlowTypeInv
    <3>2. \A t \in T : t.job \in Jobs
      OBVIOUS
    <3> HIDE DEF T
    <3>3. results[k] \in T
      BY <3>1
    <3> QED
      BY <3>2, <3>3
  <2> QED
    BY <2>1, OverStays DEF TruthInv, ResultsAreTrue, IsOver
<1> QED
  BY <1>1, <1>2, <1>3

\* A wait is told, and reports, no final state but that of its job.
LEMMA TruthInvariance ==
  FlowTypeInv /\ HpcTypeInv /\ TruthInv /\ [Next]_vars => TruthInv'
<1> SUFFICES ASSUME FlowTypeInv, HpcTypeInv, TruthInv, [Next]_vars PROVE TruthInv'
  OBVIOUS
<1> DEFINE True(j) == is_terminal_state(var[j]) => slurm[j] = var[j]
<1>a. /\ ~is_terminal_state("PENDING") /\ ~is_terminal_state("CANCELLING")
      /\ ~is_terminal_state("ABSENT")
  BY DEF is_terminal_state, TerminalStates
<1>b. ASSUME NEW j \in Jobs, var'[j] \in {var[j], slurm'[j], "PENDING", "CANCELLING", "ABSENT"}
      PROVE  True(j)'
  <2>1. is_terminal_state(var[j]) => slurm'[j] = var[j]
    BY OverStays DEF TruthInv, IsOver, is_terminal_state
  <2> QED
    BY <1>a, <1>b, <2>1
<1>1. CASE UNCHANGED vars \/ RunCommand \/ LaunchFails \/ Announce \/ AnnounceFails \/ Parse
  <2>1. UNCHANGED <<slurm, var, cancelled, results>>
    BY <1>1 DEF vars, launchVars, hpc, RunCommand, LaunchFails, Parse, Announce, AnnounceFails
  <2>2. CASE Parse
    <3>1. results' = <<>> /\ at' = "announce"
      BY <2>2 DEF Parse, FlowTypeInv
    <3> QED
      BY <2>1, <3>1 DEF TruthInv, ResultsAreTrue
  <2>3. CASE ~Parse
    <3>1. UNCHANGED <<ls, run, told>> /\ (at' # at => at' \notin {"scancel", "report"})
      BY <1>1, <2>3 DEF vars, launchVars, hpc, RunCommand, LaunchFails, Announce, AnnounceFails
    <3>2. ResultsAreTrue' /\ (at' = "report" => Awaited' = Awaited)
      BY <2>1, <3>1 DEF TruthInv, ResultsAreTrue, IsOver, Awaited
    <3> QED
      BY <2>1, <3>1, <3>2 DEF TruthInv, IsOver
  <2> QED
    BY <2>2, <2>3
<1>2. CASE Guard \/ GuardBlind \/ WaitFails \/ Interrupt
  <2>1. /\ UNCHANGED <<slurm, cancelled, results, ls, run>>
        /\ at' \in {"scancel", "read", "waitError", "interrupted"}
        /\ at' = "scancel" => run \in cancelled
    BY <1>2 DEF hpc, Guard, GuardBlind, WaitFails, Interrupt
  <2>2. ASSUME NEW j \in Jobs PROVE True(j)'
    <3>1. var'[j] \in {var[j], "CANCELLING"}
      BY <1>2 DEF HpcTypeInv, Guard, GuardBlind, WaitFails, Interrupt
    <3> QED
      BY <1>b, <3>1
  <2>3. ResultsAreTrue'
    BY <2>1 DEF TruthInv, ResultsAreTrue, IsOver
  <2> QED
    BY <2>1, <2>2, <2>3 DEF TruthInv
<1>3. CASE ScancelAndFold
  <2>1. /\ UNCHANGED <<slurm, cancelled, results, ls, run>> /\ at = "scancel"
        /\ at' = "report" /\ told' = "CANCELLED" /\ var' = [var EXCEPT ![Awaited] = "ABSENT"]
    BY <1>3 DEF ScancelAndFold, DeleteVar
  <2>2. ASSUME NEW j \in Jobs PROVE True(j)'
    <3>1. var'[j] \in {var[j], "ABSENT"}
      BY <2>1 DEF HpcTypeInv
    <3> QED
      BY <1>b, <3>1
  <2>3. ResultsAreTrue'
    BY <2>1 DEF TruthInv, ResultsAreTrue, IsOver
  <2>4. run' \in cancelled'
    BY <2>1 DEF TruthInv
  <2> QED
    BY <2>1, <2>2, <2>3, <2>4 DEF TruthInv
<1>4. CASE ReadVar
  <2>1. UNCHANGED <<slurm, cancelled, results, ls, run>> /\ at = "read"
    BY <1>4 DEF ReadVar, hpc
  <2>2. ASSUME NEW j \in Jobs PROVE True(j)'
    <3>1. var'[j] \in {var[j], "PENDING", "ABSENT"}
      BY <1>4 DEF HpcTypeInv, ReadVar, DeleteVar
    <3> QED
      BY <1>b, <3>1
  <2>3. ResultsAreTrue'
    BY <2>1 DEF TruthInv, ResultsAreTrue, IsOver
  <2>4. /\ at' \in {"poll", "report"}
        /\ at' = "report" => told' = var[Awaited] /\ is_terminal_state(var[Awaited])
    BY <1>4 DEF ReadVar
  <2>5. at' = "report" => Told'
    <3>1. Awaited \in Jobs /\ Awaited' = Awaited
      BY <2>1, AwaitedType DEF Waiting, Awaited
    <3> QED
      BY <2>1, <2>4, <3>1 DEF TruthInv, Told, IsOver, is_terminal_state
  <2> QED
    BY <2>2, <2>3, <2>4, <2>5 DEF TruthInv, Told
<1>5. CASE Publish
  <2>1. /\ UNCHANGED <<slurm, cancelled, var, ls, run>> /\ at = "report"
        /\ at' \in {"done", "poll"}
        /\ results' = Append(results, [job |-> Awaited, state |-> told])
    BY <1>5 DEF Publish, hpc
  <2>2. ResultsAreTrue'
    <3> SUFFICES ASSUME NEW k \in DOMAIN results'
                 PROVE  /\ results'[k].job = ls[k].job
                        /\ \/ results'[k].state = slurm[results'[k].job] /\ IsOver(results'[k].job)
                           \/ results'[k].state = "CANCELLED" /\ run \in cancelled
      BY <2>1 DEF ResultsAreTrue, IsOver
    <3>1. /\ results \in Seq([job : Jobs, state : SlurmJobState])
          /\ [job |-> Awaited, state |-> told] \in [job : Jobs, state : SlurmJobState]
      BY <2>1, AwaitedType DEF FlowTypeInv, Waiting
    <3>2. \/ k \in DOMAIN results /\ results'[k] = results[k]
          \/ k = Len(results) + 1 /\ results'[k] = [job |-> Awaited, state |-> told]
      BY <2>1, <3>1
    <3>3. CASE k \in DOMAIN results /\ results'[k] = results[k]
      BY <3>3 DEF TruthInv, ResultsAreTrue
    <3>4. CASE k = Len(results) + 1 /\ results'[k] = [job |-> Awaited, state |-> told]
      BY <2>1, <3>4 DEF TruthInv, Awaited
    <3> QED
      BY <3>2, <3>3, <3>4
  <2> QED
    BY <2>1, <2>2 DEF TruthInv
<1>6. CASE Rerun
  <2>1. results' = <<>> /\ at' = "poll" /\ UNCHANGED <<slurm, var>>
    BY <1>6 DEF Rerun, hpc
  <2> QED
    BY <2>1 DEF TruthInv, ResultsAreTrue
<1>7. CASE UserCancels \/ \E j \in Jobs : SlurmStep(j) \/ Refresh(j) \/ LateWrite(j)
  <2>1. UNCHANGED <<at, ls, run, results, told>>
    BY <1>7 DEF UserCancels, SlurmStep, Refresh, LateWrite
  <2>2. ASSUME NEW j \in Jobs PROVE True(j)'
    <3>1. var'[j] \in {var[j], slurm'[j]}
      BY <1>7 DEF HpcTypeInv, UserCancels, SlurmStep, Refresh, LateWrite, hpc
    <3> QED
      BY <1>b, <3>1
  <2> QED
    BY <2>1, <2>2, TruthStays DEF TruthInv, Told
<1> QED
  BY <1>1, <1>2, <1>3, <1>4, <1>5, <1>6, <1>7 DEF Next

\* The settled jobs are a beginning of ls.
LEMMA SettledFacts ==
  ASSUME FlowTypeInv
  PROVE  /\ Settled \in 0..Len(ls) /\ Len(ls) \in Nat /\ Len(results) \in Nat
         /\ at \in Waiting \ {"report"} => Settled = Len(results) /\ Settled < Len(ls)
         /\ \A k \in 1..Len(ls) : ls[k].job \in Jobs
<1>1. Len(results) \in Nat /\ Len(ls) \in Nat /\ ls \in Seq(Submission)
  BY DEF FlowTypeInv
<1>2. \A k \in 1..Len(ls) : ls[k].job \in Jobs
  <2>1. \A k \in 1..Len(ls) : ls[k] \in Submission
    BY <1>1
  <2>2. \A t \in Submission : t.job \in Jobs
    BY DEF Submission
  <2> QED
    BY <2>1, <2>2
<1>3. Settled \in 0..Len(ls) /\ (at \in Waiting \ {"report"} => Settled = Len(results) /\ Settled < Len(ls))
  BY <1>1 DEF FlowTypeInv, Settled, Waiting
<1> QED
  BY <1>1, <1>2, <1>3

\* A job that was settled stays so.
Past(k) == IsOver(ls[k].job) \/ ls[k].job \in killed

LEMMA PastStays ==
  ASSUME FlowTypeInv, HpcTypeInv, [Next]_vars, ls' = ls, NEW k \in 1..Len(ls), Past(k)
  PROVE  Past(k)'
  BY OverStays, SettledFacts DEF Past, IsOver

\* A wait leaves no job before it is over or was killed; a guard finds no other
\* job than the awaited one while there are no late writes.
LEMMA KilledInvariance ==
  FlowTypeInv /\ HpcTypeInv /\ TruthInv /\ KilledInv /\ [Next]_vars => KilledInv'
<1> SUFFICES ASSUME FlowTypeInv, HpcTypeInv, TruthInv, KilledInv, [Next]_vars PROVE KilledInv'
  OBVIOUS
<1>l. late' = 0 => late = 0
  BY OverStays DEF HpcTypeInv
<1>1. CASE UNCHANGED vars \/ RunCommand \/ UserCancels \/ \E j \in Jobs : SlurmStep(j)
  <2>1. UNCHANGED <<at, ls, run, results, var, owner, late>>
    BY <1>1 DEF vars, launchVars, RunCommand, UserCancels, SlurmStep
  <2>2. Settled' = Settled /\ Awaited' = Awaited /\ Mine' = Mine
    BY <2>1 DEF Settled, Awaited, Mine
  <2>3. late' = 0 => \A k \in 1..Settled' : Past(k)'
    BY <2>1, <2>2, PastStays, SettledFacts DEF KilledInv, Past
  <2> QED
    BY <2>1, <2>2, <2>3 DEF KilledInv, Past
<1>2. CASE LaunchFails \/ Parse \/ Announce \/ AnnounceFails
  <2>1. /\ UNCHANGED <<run, results, var, owner, late>> /\ at \in {"launch", "announce"}
        /\ at' \in {"launchError", "announce", "poll", "raised"}
    BY <1>2 DEF hpc, LaunchFails, Parse, Announce, AnnounceFails
  <2>2. \A j \in Jobs : var'[j] = "ABSENT"
    BY <2>1 DEF KilledInv
  <2>3. Settled' = 0
    BY <2>1 DEF Settled, FlowTypeInv
  <2> QED
    BY <2>1, <2>2, <2>3 DEF KilledInv, Mine
<1>3. CASE Guard \/ GuardBlind
  <2>1. /\ UNCHANGED <<ls, run, results, owner, slurm, killed, late>> /\ at = "poll"
        /\ at' \in {"scancel", "read"} /\ (at' = "scancel" => Mine # {})
        /\ \/ var' = [j \in Jobs |-> IF j \in Mine THEN "CANCELLING" ELSE var[j]]
           \/ var' = var
    BY <1>3 DEF hpc, Guard, GuardBlind
  <2>2. \A j \in Jobs : var'[j] = "ABSENT" <=> var[j] = "ABSENT"
    BY <2>1 DEF Mine
  <2>3. Settled' = Settled /\ Awaited' = Awaited /\ Mine' = Mine
    BY <2>1, <2>2 DEF Settled, Awaited, Mine
  <2>4. \A k \in 1..Settled : Past(k)' <=> Past(k)
    BY <2>1 DEF Past, IsOver
  <2> QED
    BY <2>1, <2>3, <2>4 DEF KilledInv, Past, Waiting
<1>4. CASE ScancelAndFold
  <2>1. /\ UNCHANGED <<ls, run, results, slurm, late>> /\ at = "scancel" /\ at' = "report"
        /\ killed' = killed \cup {j \in Mine : ~IsOver(j)}
        /\ var' = [var EXCEPT ![Awaited] = "ABSENT"] /\ owner' = [owner EXCEPT ![Awaited] = 0]
    BY <1>4 DEF ScancelAndFold, DeleteVar
  <2>2. Awaited \in Jobs /\ Settled' = Settled + 1 /\ Settled + 1 = Len(results) + 1
        /\ Settled \in Nat
    BY <2>1, AwaitedType, SettledFacts DEF Settled, Waiting
  <2>3. \A j \in Jobs : owner'[j] <= run'
    BY <2>1, <2>2 DEF KilledInv, HpcTypeInv, FlowTypeInv
  <2>4. late = 0 => Mine = {Awaited}
    BY <2>1, <2>2 DEF KilledInv, Waiting
  <2>5. late' = 0 => \A j \in Mine' : FALSE
    BY <2>1, <2>2, <2>4 DEF Mine, HpcTypeInv
  <2>6. late' = 0 => \A k \in 1..Settled' : Past(k)'
    <3> SUFFICES ASSUME late = 0, NEW k \in 1..(Settled + 1) PROVE Past(k)'
      BY <2>1, <2>2
    <3>1. CASE k = Settled + 1
      BY <2>1, <2>2, <2>4, <3>1 DEF Past, Awaited, IsOver
    <3>2. CASE k \in 1..Settled
      BY <2>1, <3>2 DEF KilledInv, Past, IsOver
    <3> QED
      BY <2>2, <3>1, <3>2
  <2> QED
    BY <2>1, <2>3, <2>5, <2>6 DEF KilledInv, Past
<1>5. CASE ReadVar
  <2>1. UNCHANGED <<ls, run, results, slurm, killed, late>> /\ at = "read" /\ Awaited \in Jobs
        /\ Awaited' = Awaited /\ Settled = Len(results) /\ Settled \in Nat
    BY <1>5, AwaitedType, SettledFacts DEF ReadVar, hpc, Waiting, Awaited
  <2>2. CASE at' = "poll"
    <3>1. \/ UNCHANGED <<var, owner>>
          \/ /\ var' = [var EXCEPT ![Awaited] = "PENDING"]
             /\ owner' = [owner EXCEPT ![Awaited] = run]
      BY <1>5, <2>2 DEF ReadVar, DeleteVar
    <3>2. \A j \in Jobs : owner'[j] <= run
      <4>1. \A j \in Jobs : owner'[j] \in {owner[j], run}
        BY <2>1, <3>1 DEF HpcTypeInv
      <4>2. run \in Nat
        BY DEF FlowTypeInv
      <4> QED
        BY <4>1, <4>2 DEF KilledInv
    <3>3. \A j \in Mine' : j \in Mine \/ j = Awaited
      BY <2>1, <3>1 DEF Mine, HpcTypeInv
    <3>4. Settled' = Settled
      BY <2>1, <2>2 DEF Settled
    <3> QED
      BY <2>1, <2>2, <3>2, <3>3, <3>4 DEF KilledInv, IsOver, Waiting
  <2>3. CASE at' # "poll"
    <3>1. /\ at' = "report" /\ is_terminal_state(var[Awaited])
          /\ var' = [var EXCEPT ![Awaited] = "ABSENT"] /\ owner' = [owner EXCEPT ![Awaited] = 0]
      BY <1>5, <2>3 DEF ReadVar, DeleteVar
    <3>2. \A j \in Jobs : owner'[j] <= run
      <4>1. \A j \in Jobs : owner'[j] \in {owner[j], 0}
        BY <2>1, <3>1 DEF HpcTypeInv
      <4>2. run \in Nat /\ 0 <= run
        BY DEF FlowTypeInv
      <4> QED
        BY <4>1, <4>2 DEF KilledInv
    <3>3. late' = 0 => \A j \in Mine' : FALSE
      BY <2>1, <3>1 DEF KilledInv, Mine, HpcTypeInv, Waiting
    <3>4. Settled' = Settled + 1
      BY <2>1, <3>1 DEF Settled
    <3>5. IsOver(Awaited)
      BY <2>1, <3>1 DEF TruthInv, IsOver, is_terminal_state
    <3>6. late' = 0 => \A k \in 1..Settled' : Past(k)'
      <4> SUFFICES ASSUME late = 0, NEW k \in 1..(Settled + 1) PROVE Past(k)'
        BY <2>1, <3>4
      <4>1. CASE k = Settled + 1
        BY <2>1, <3>5, <4>1 DEF Past, Awaited, IsOver
      <4>2. CASE k \in 1..Settled
        BY <2>1, <4>2 DEF KilledInv, Past, IsOver
      <4> QED
        BY <2>1, <4>1, <4>2
    <3> QED
      BY <2>1, <3>1, <3>2, <3>3, <3>6 DEF KilledInv, Past
  <2> QED
    BY <2>2, <2>3
<1>6. CASE Publish
  <2>1. /\ UNCHANGED <<ls, run, var, owner, slurm, killed, late>> /\ at = "report"
        /\ at' \in {"done", "poll"}
        /\ results' = Append(results, [job |-> Awaited, state |-> told])
    BY <1>6 DEF Publish, hpc
  <2>2. Settled' = Settled
    <3>1. Len(results') = Len(results) + 1
      BY <2>1 DEF FlowTypeInv
    <3> QED
      BY <2>1, <3>1 DEF Settled
  <2>3. late = 0 => Mine' = {}
    BY <2>1 DEF KilledInv, Mine, Waiting
  <2> QED
    BY <2>1, <2>2, <2>3 DEF KilledInv, IsOver
<1>7. CASE WaitFails \/ Interrupt
  <2>1. /\ UNCHANGED <<ls, run, results, var, owner, late>> /\ at \in Waiting
        /\ at' \in {"waitError", "interrupted"}
    BY <1>7 DEF WaitFails, Interrupt, hpc, Waiting
  <2>2. 1..Settled' \subseteq 1..Settled
    BY <2>1, SettledFacts DEF Settled
  <2>3. late' = 0 => \A k \in 1..Settled' : Past(k)'
    BY <2>1, <2>2, PastStays, SettledFacts DEF KilledInv, Past
  <2> QED
    BY <2>1, <2>3 DEF KilledInv, Past, Waiting
<1>8. CASE Rerun
  <2>1. /\ UNCHANGED <<ls, var, owner, late>> /\ run' = run + 1 /\ results' = <<>> /\ at' = "poll"
    BY <1>8 DEF Rerun, hpc
  <2>2. \A j \in Jobs : owner'[j] <= run /\ owner'[j] < run'
    BY <2>1 DEF KilledInv, HpcTypeInv, FlowTypeInv
  <2>3. Mine' = {}
    BY <2>1, <2>2 DEF Mine, HpcTypeInv, FlowTypeInv
  <2>4. Settled' = 0
    BY <2>1 DEF Settled
  <2>5. \A j \in Jobs : owner'[j] <= run'
    BY <2>1, <2>2 DEF HpcTypeInv, FlowTypeInv
  <2> QED
    BY <2>1, <2>3, <2>4, <2>5 DEF KilledInv
<1>9. ASSUME NEW j \in Jobs, Refresh(j) PROVE KilledInv'
  <2>1. /\ UNCHANGED <<at, ls, run, results, owner, slurm, killed, late>> /\ var[j] # "ABSENT"
        /\ var' = [var EXCEPT ![j] = slurm[j]]
    BY <1>9 DEF Refresh, hpc
  <2>2. \A i \in Jobs : var'[i] = "ABSENT" <=> var[i] = "ABSENT"
    BY <2>1 DEF HpcTypeInv, SlurmJobState
  <2>3. Settled' = Settled /\ Awaited' = Awaited /\ Mine' = Mine
    BY <2>1, <2>2 DEF Settled, Awaited, Mine
  <2> QED
    BY <2>1, <2>2, <2>3 DEF KilledInv, IsOver
<1>10. ASSUME NEW j \in Jobs, LateWrite(j) PROVE KilledInv'
  <2>1. /\ UNCHANGED <<at, ls, run, results>> /\ late' = late + 1
        /\ results # <<>> \/ var[j] = "CANCELLING"
        /\ var' = [var EXCEPT ![j] = slurm[j]]
        /\ owner' = owner \/ owner' = [owner EXCEPT ![j] = run]
    BY <1>10 DEF LateWrite
  <2>2. \A i \in Jobs : owner'[i] <= run
    BY <2>1 DEF KilledInv, HpcTypeInv, FlowTypeInv
  <2>3. at \notin {"launch", "announce"}
    BY <2>1 DEF FlowTypeInv, KilledInv
  <2>4. late' # 0
    BY <2>1 DEF HpcTypeInv
  <2>5. Mine \subseteq Mine'
    BY <2>1 DEF Mine, HpcTypeInv, SlurmJobState
  <2> QED
    BY <2>1, <2>2, <2>3, <2>4, <2>5 DEF KilledInv
<1> QED
  BY <1>1, <1>2, <1>3, <1>4, <1>5, <1>6, <1>7, <1>8, <1>9, <1>10 DEF Next

\* LooseInv is kept by a step that makes no variable loose.
LEMMA LooseShrinks ==
  ASSUME HpcTypeInv, LooseInv, Loose' \subseteq Loose, [Next]_vars
  PROVE  LooseInv'
<1> DEFINE L == Loose
           M == Loose'
<1>1. IsFiniteSet(L) /\ Cardinality(L) <= late /\ M \subseteq L /\ late <= late'
  BY OverStays DEF LooseInv
<1>2. late \in Nat /\ late' \in Nat
  <2>1. late' \in {late, late + 1}
    BY DEF Next, vars, launchVars, hpc, RunCommand, LaunchFails, Parse, Announce,
       AnnounceFails, Guard, GuardBlind, ScancelAndFold, ReadVar, Publish, WaitFails, Interrupt,
       Rerun, UserCancels, SlurmStep, Refresh, LateWrite
  <2> QED
    BY <2>1 DEF HpcTypeInv
<1> HIDE DEF L, M
<1>3. IsFiniteSet(M) /\ Cardinality(M) <= Cardinality(L)
  BY <1>1, FS_Subset
<1>4. Cardinality(M) \in Nat /\ Cardinality(L) \in Nat
  BY <1>1, <1>3, FS_CardinalityType
<1>5. Cardinality(M) <= late'
  BY <1>1, <1>2, <1>3, <1>4
<1> QED
  BY <1>3, <1>5 DEF LooseInv, M

\* A step that adds no variable and leaves at least as many jobs to await.
LEMMA RestGrows ==
  ASSUME FlowTypeInv, ls' = ls, Settled' \in 0..Settled,
         \A j \in Jobs : var'[j] # "ABSENT" => var[j] # "ABSENT"
  PROVE  Loose' \subseteq Loose
<1> SUFFICES ASSUME NEW j \in Loose' PROVE j \in Loose
  OBVIOUS
<1>1. j \in Jobs /\ var[j] # "ABSENT" /\ \A k \in (Settled' + 1)..Len(ls) : ls[k].job # j
  BY DEF Loose
<1>2. \A k \in (Settled + 1)..Len(ls) : k \in (Settled' + 1)..Len(ls)
  <2>1. Settled \in Nat /\ Len(ls) \in Nat
    BY SettledFacts
  <2>2. \A n, m \in Nat : \A i \in 0..n : \A k \in (n + 1)..m : k \in (i + 1)..m
    OBVIOUS
  <2> QED
    BY <2>1, <2>2
<1> QED
  BY <1>1, <1>2 DEF Loose

\* The fold of the awaited job deletes its variable.
LEMMA FoldShrinks ==
  ASSUME FlowTypeInv, HpcTypeInv, at \in Waiting \ {"report"}, at' = "report",
         UNCHANGED <<ls, results>>, DeleteVar(Awaited)
  PROVE  Loose' \subseteq Loose
<1>1. /\ Awaited \in Jobs /\ Settled = Len(results) /\ Settled' = Settled + 1
      /\ Settled \in Nat /\ Len(ls) \in Nat
  BY AwaitedType, SettledFacts DEF Settled
<1> SUFFICES ASSUME NEW j \in Loose' PROVE j \in Loose
  OBVIOUS
<1>2. j \in Jobs /\ var'[j] # "ABSENT" /\ \A k \in (Settled' + 1)..Len(ls) : ls[k].job # j
  BY DEF Loose
<1>3. j # Awaited /\ var[j] # "ABSENT"
  BY <1>1, <1>2 DEF DeleteVar, HpcTypeInv
<1>4. ASSUME NEW k \in (Settled + 1)..Len(ls) PROVE ls[k].job # j
  <2>1. k = Settled + 1 \/ k \in (Settled' + 1)..Len(ls)
    BY <1>1
  <2> QED
    BY <1>1, <1>2, <1>3, <2>1 DEF Awaited
<1> QED
  BY <1>2, <1>3, <1>4 DEF Loose

\* Only a late write makes a variable that no wait is to delete.
LEMMA LooseInvariance ==
  FlowTypeInv /\ HpcTypeInv /\ KilledInv /\ LooseInv /\ [Next]_vars => LooseInv'
<1> SUFFICES ASSUME FlowTypeInv, HpcTypeInv, KilledInv, LooseInv, [Next]_vars PROVE LooseInv'
  OBVIOUS
<1>t. Settled \in Nat /\ Len(results) \in Nat
  BY SettledFacts
<1>1. CASE UNCHANGED <<at, ls, results, var>>
  <2>1. Settled' = Settled
    BY <1>1 DEF Settled
  <2>2. Loose' \subseteq Loose
    BY <1>1, <2>1 DEF Loose
  <2> QED
    BY <2>2, LooseShrinks
<1>2. CASE LaunchFails \/ Announce \/ AnnounceFails \/ GuardBlind \/ WaitFails \/ Interrupt
  <2>1. UNCHANGED <<ls, results, var>> /\ at' # "report"
    BY <1>2 DEF hpc, LaunchFails, Announce, AnnounceFails, GuardBlind, WaitFails, Interrupt
  <2>2. Settled' \in 0..Settled
    BY <1>t, <2>1 DEF Settled
  <2>3. Loose' \subseteq Loose
    BY <2>1, <2>2, RestGrows
  <2> QED
    BY <2>3, LooseShrinks
<1>3. CASE Parse
  <2>1. UNCHANGED var /\ at = "launch"
    BY <1>3 DEF Parse
  <2>2. Loose' \subseteq Loose
    BY <2>1 DEF KilledInv, Loose
  <2> QED
    BY <2>2, LooseShrinks
<1>4. CASE Guard
  <2>1. /\ UNCHANGED <<ls, results>> /\ at = "poll" /\ at' # "report"
        /\ \/ var' = [j \in Jobs |-> IF j \in Mine THEN "CANCELLING" ELSE var[j]]
           \/ var' = var
    BY <1>4 DEF Guard
  <2>2. \A j \in Jobs : var'[j] # "ABSENT" => var[j] # "ABSENT"
    BY <2>1 DEF Mine
  <2>3. Settled' \in 0..Settled
    BY <1>t, <2>1 DEF Settled
  <2>4. Loose' \subseteq Loose
    BY <2>1, <2>2, <2>3, RestGrows
  <2> QED
    BY <2>4, LooseShrinks
<1>5. CASE ScancelAndFold
  <2>1. /\ UNCHANGED <<ls, results>> /\ at = "scancel" /\ at' = "report" /\ DeleteVar(Awaited)
    BY <1>5 DEF ScancelAndFold
  <2>2. Loose' \subseteq Loose
    BY <2>1, FoldShrinks DEF Waiting
  <2> QED
    BY <2>2, LooseShrinks
<1>6. CASE ReadVar
  <2>1. /\ UNCHANGED <<ls, results>> /\ at = "read"
        /\ \/ at' = "poll" /\ var' = [var EXCEPT ![Awaited] = "PENDING"]
           \/ at' = "report" /\ DeleteVar(Awaited)
           \/ at' = "poll" /\ UNCHANGED var
    BY <1>6 DEF ReadVar
  <2>2. CASE at' = "poll" /\ var' = [var EXCEPT ![Awaited] = "PENDING"]
    <3>1. Settled' = Settled /\ Settled = Len(results) /\ Settled + 1 \in (Settled + 1)..Len(ls)
      BY <2>1, <2>2, SettledFacts DEF Settled, Waiting
    <3>2. ASSUME NEW j \in Loose' PROVE j \in Loose
      <4>1. /\ j \in Jobs /\ var'[j] # "ABSENT"
            /\ \A k \in (Settled + 1)..Len(ls) : ls[k].job # j
        BY <2>1, <3>1 DEF Loose
      <4>2. j # Awaited
        BY <3>1, <4>1 DEF Awaited
      <4>3. var[j] # "ABSENT"
        BY <2>2, <4>1, <4>2 DEF HpcTypeInv
      <4> QED
        BY <4>1, <4>3 DEF Loose
    <3>3. Loose' \subseteq Loose
      BY <3>2
    <3> QED
      BY <3>3, LooseShrinks
  <2>3. CASE at' = "report" /\ DeleteVar(Awaited)
    <3>1. Loose' \subseteq Loose
      BY <2>1, <2>3, FoldShrinks DEF Waiting
    <3> QED
      BY <3>1, LooseShrinks
  <2>4. CASE at' = "poll" /\ UNCHANGED var
    <3>1. Settled' = Settled
      BY <2>1, <2>4 DEF Settled
    <3>2. Loose' \subseteq Loose
      BY <2>1, <2>4, <3>1 DEF Loose
    <3> QED
      BY <3>2, LooseShrinks
  <2> QED
    BY <2>1, <2>2, <2>3, <2>4
<1>7. CASE Publish
  <2>1. /\ UNCHANGED <<ls, var>> /\ at = "report" /\ at' # "report"
        /\ results' = Append(results, [job |-> Awaited, state |-> told])
    BY <1>7 DEF Publish
  <2>2. Len(results') = Len(results) + 1
    BY <2>1 DEF FlowTypeInv
  <2>3. Settled' = Settled
    BY <2>1, <2>2 DEF Settled
  <2>4. Loose' \subseteq Loose
    BY <2>1, <2>3 DEF Loose
  <2> QED
    BY <2>4, LooseShrinks
<1>8. CASE Rerun
  <2>1. UNCHANGED <<ls, var>> /\ Settled' = 0
    BY <1>8 DEF Rerun, Settled
  <2>2. Loose' \subseteq Loose
    BY <1>t, <2>1, RestGrows
  <2> QED
    BY <2>2, LooseShrinks
<1>9. ASSUME NEW i \in Jobs, Refresh(i) PROVE LooseInv'
  <2>1. UNCHANGED <<at, ls, results>> /\ var[i] # "ABSENT" /\ var' = [var EXCEPT ![i] = slurm[i]]
    BY <1>9 DEF Refresh
  <2>2. Settled' = Settled /\ \A j \in Jobs : var'[j] # "ABSENT" => var[j] # "ABSENT"
    BY <2>1 DEF Settled, HpcTypeInv
  <2>3. Loose' \subseteq Loose
    BY <2>1, <2>2 DEF Loose
  <2> QED
    BY <2>3, LooseShrinks
<1>10. ASSUME NEW i \in Jobs, LateWrite(i) PROVE LooseInv'
  <2>1. /\ UNCHANGED <<at, ls, results>> /\ late' = late + 1
        /\ var' = [var EXCEPT ![i] = slurm[i]]
    BY <1>10 DEF LateWrite
  <2>2. Settled' = Settled
    BY <2>1 DEF Settled
  <2>3. Loose' \subseteq Loose \cup {i}
    BY <2>1, <2>2 DEF Loose, HpcTypeInv
  <2> DEFINE L == Loose
             M == Loose'
  <2>4. IsFiniteSet(L) /\ Cardinality(L) <= late /\ M \subseteq L \cup {i} /\ late \in Nat
    BY <2>3 DEF LooseInv, HpcTypeInv
  <2> HIDE DEF L, M
  <2>5. IsFiniteSet(L \cup {i}) /\ Cardinality(L \cup {i}) <= Cardinality(L) + 1
    <3>1. /\ IsFiniteSet(L \cup {i})
          /\ Cardinality(L \cup {i}) = IF i \in L THEN Cardinality(L) ELSE Cardinality(L) + 1
      BY <2>4, FS_AddElement
    <3>2. Cardinality(L) \in Nat
      BY <2>4, FS_CardinalityType
    <3> QED
      BY <3>1, <3>2
  <2>6. IsFiniteSet(M) /\ Cardinality(M) <= Cardinality(L \cup {i})
    BY <2>4, <2>5, FS_Subset
  <2>7. /\ Cardinality(M) \in Nat /\ Cardinality(L) \in Nat
        /\ Cardinality(L \cup {i}) \in Nat
    BY <2>4, <2>5, <2>6, FS_CardinalityType
  <2>8. Cardinality(M) <= late'
    BY <2>1, <2>4, <2>5, <2>6, <2>7
  <2> QED
    BY <2>6, <2>8 DEF LooseInv, M
<1>11. RunCommand \/ UserCancels \/ UNCHANGED vars \/ (\E j \in Jobs : SlurmStep(j))
         => UNCHANGED <<at, ls, results, var>>
  BY DEF vars, launchVars, RunCommand, UserCancels, SlurmStep
<1> QED
  BY <1>1, <1>2, <1>3, <1>4, <1>5, <1>6, <1>7, <1>8, <1>9, <1>10, <1>11 DEF Next

-----------------------------------------------------------------------------
(* The flow: what a launch returns. *)

\* What was read of a summary lists the first main jobs of the script; all of
\* it, all of them.
LEMMA ParseIsTrue ==
  ASSUME SshInv, FlowInv, Succeeded, WellFormed(Summary)
  PROVE  /\ Begin(ByFirstLine(Summary), Launched)
         /\ dropped \/ ByFirstLine(Summary) = Launched
<1>1. sent = Len(output) /\ (~dropped => \A s \in Streams : TextOf(s) = Only(output, To(s)))
  BY CompleteText DEF Succeeded
<1>2. output \in Outputs /\ output \in Seq(Lines)
  BY OutputIsSeq DEF FlowInv, FlowTypes
<1>3. Launched = BySubmission(Only(output, Saying("submitted")))
  <2>1. SubSeq(output, 1, sent) = output
    BY <1>1, <1>2
  <2> QED
    BY <2>1 DEF Launched
<1>4. PICK s \in Streams : Summary = SummaryIn(s)
  BY DEF Summary, Streams
<1> DEFINE read == Summary
           whole == Only(Only(output, To(s)), Saying("summary"))
<1>5. /\ read \in Seq(Lines) /\ whole \in Seq(Lines)
      /\ Begins(read, whole)
      /\ ~dropped => read = whole
  <2>1. /\ Only(output, To(s)) \in Seq(Lines) /\ got[s] \in 0..Len(Only(output, To(s)))
        /\ TextOf(s) \in Seq(Lines)
    BY TextFacts
  <2>2. Begins(Only(TextOf(s), Saying("summary")), whole)
    BY <2>1, OnlyBegins DEF TextOf
  <2>3. read \in Seq(Lines) /\ whole \in Seq(Lines)
    BY <1>4, <2>1, OnlyFacts DEF SummaryIn
  <2> QED
    BY <1>1, <1>4, <2>2, <2>3 DEF SummaryIn
<1>6. /\ \A k \in DOMAIN read : read[k].run = read[1].run
      /\ \E k \in DOMAIN read : read[k].jobs # <<>>
  BY DEF WellFormed
<1>7. ByFirstLine(read) = BySubmission(read)
  <2>1. [k \in DOMAIN read |-> read[1].run] = [k \in DOMAIN read |-> read[k].run]
    BY <1>6
  <2> QED
    BY <2>1 DEF ByFirstLine, BySubmission
<1>8. BySubmission(whole) = Launched
  <2>1. \E k \in DOMAIN whole : whole[k].jobs # <<>>
    <3>1. DOMAIN read = 1..Len(read) /\ DOMAIN whole = 1..Len(whole)
      BY <1>5
    <3>2. Len(read) \in Nat /\ Len(whole) \in Nat
      BY <1>5
    <3> HIDE DEF read, whole
    <3> QED
      BY <1>5, <1>6, <3>1, <3>2 DEF Begins
  <2> QED
    BY <1>2, <1>3, <2>1, LauncherAssumption
<1>9. Begins(BySubmission(read), BySubmission(whole))
  <2>1. Len(read) \in 1..Len(whole) /\ read = SubSeq(whole, 1, Len(read))
    <3> HIDE DEF read, whole
    <3>1. Len(read) \in 0..Len(whole) /\ read = SubSeq(whole, 1, Len(read))
      BY <1>5, BeginsIsSubSeq
    <3>2. Len(read) # 0
      BY <1>5, <1>6
    <3> QED
      BY <3>1, <3>2
  <2> HIDE DEF read, whole
  <2> QED
    BY <1>5, <2>1, SubmissionsBegin
<1>10. DOMAIN BySubmission(read) = 1..Len(BySubmission(read))
  <2> DEFINE dirs == [k \in DOMAIN read |-> read[k].run]
  <2>1. \A k \in 1..Len(read) : dirs[k] \in {l.run : l \in Lines}
    BY <1>5
  <2> HIDE DEF dirs, read
  <2>2. Submissions(read, dirs) \in Seq(Submission)
    BY <1>5, <2>1, SubmissionsFacts
  <2> QED
    BY <2>2 DEF BySubmission, dirs
<1> HIDE DEF read, whole
<1>11. Begin(BySubmission(read), Launched)
  BY <1>8, <1>9, <1>10 DEF Begin, Begins
<1> QED
  BY <1>5, <1>7, <1>8, <1>11 DEF read

\* A launch is known when it is parsed, and nothing is submitted after that.
LEMMA KnownInvariance == SshInv /\ FlowInv /\ KnownInv /\ [Next]_vars => KnownInv'
<1> SUFFICES ASSUME SshInv, FlowInv, KnownInv, [Next]_vars, at' = "announce"
             PROVE  /\ pc' = "returned" /\ code' = "zero"
                    /\ Begin(ls', Launched')
                    /\ dropped' \/ ls' = Launched'
  BY DEF KnownInv, Begin
<1>1. CASE Parse
  <2>1. /\ UNCHANGED sshVars /\ Succeeded /\ WellFormed(Summary) /\ ls' = ByFirstLine(Summary)
    BY <1>1 DEF Parse
  <2>2. Launched' = Launched /\ UNCHANGED <<pc, code, dropped>>
    BY <2>1 DEF sshVars, Launched, BySubmission, Submissions, Saying
  <2> QED
    BY <2>1, <2>2, ParseIsTrue DEF Succeeded
<1>2. CASE ~Parse
  <2>1. at = "announce" /\ ls' = ls /\ (RunCommand \/ UNCHANGED sshVars)
    BY <1>2 DEF Next, vars, launchVars, RunCommand, LaunchFails, Announce, AnnounceFails, Guard,
       GuardBlind, ScancelAndFold, ReadVar, Publish, WaitFails, Interrupt, Rerun, UserCancels,
       SlurmStep, Refresh, LateWrite
  <2>2. pc = "returned" /\ code = "zero" /\ Begin(ls, Launched) /\ (dropped \/ ls = Launched)
    BY <2>1 DEF KnownInv
  <2>3. CASE UNCHANGED sshVars
    <3>1. Launched' = Launched /\ UNCHANGED <<pc, code, dropped>>
      BY <2>3 DEF sshVars, Launched, BySubmission, Submissions, Saying
    <3> QED
      BY <2>1, <2>2, <3>1
  <2>4. CASE RunCommand
    <3>1. World
      <4>1. ~Starting /\ ~Ending
        BY <2>2 DEF Starting, Ending, CheckFiles, CannotStart, StartProcess, Connect, ConnectFails,
           Exec, ExecFails, Read, Reading, EndOfOutput, AtEnd, RecvExitStatus, MakeResult,
           Undecodable, Close
      <4> QED
        BY <2>4, <4>1, SshCases DEF RunCommand
    <3>2. UNCHANGED <<pc, code, output>>
      BY <3>1 DEF World, Write, Exit, Die, Ends, Drop, Notice, client, command
    <3>3. proc = "exited"
      <4>1. Finished
        BY <2>2 DEF SshInv, CodeInv, Over
      <4> QED
        BY <2>2, <4>1, ReportedFacts DEF Finished, SshInv, PlaceInv, StatusInv
    <3>4. UNCHANGED sent /\ (dropped => dropped')
      BY <3>1, <3>3 DEF World, Write, Exit, Die, Ends, Drop, Notice, command
    <3>5. Launched' = Launched
      BY <3>2, <3>4 DEF Launched, BySubmission, Submissions, Saying
    <3> QED
      BY <2>1, <2>2, <3>2, <3>4, <3>5
  <2> QED
    BY <2>1, <2>3, <2>4
<1> QED
  BY <1>1, <1>2

-----------------------------------------------------------------------------
(* The flow: the theorems. *)

LaunchInv ==
  /\ SshInv /\ FlowInv /\ SshRest
  /\ FlowTypeInv /\ HpcTypeInv /\ TruthInv /\ KilledInv /\ LooseInv /\ KnownInv

LEMMA LaunchInvariance == LaunchSpec => []LaunchInv
<1>1. Init => LaunchInv
  BY InitSshInv, InitFlowInv, InitSshRest, InitFlow DEF Init, LaunchInv
<1>2. LaunchInv /\ [Next]_vars => LaunchInv'
  BY LaunchStepsSsh, SshInvariance, FlowInvariance, SshRestInvariance, FlowTypeInvariance,
     HpcTypeInvariance, TruthInvariance, KilledInvariance, LooseInvariance, KnownInvariance
     DEF LaunchInv
<1> QED
  BY <1>1, <1>2, PTL DEF LaunchSpec

\* The flow and its runner keep their types, whatever the script prints.
THEOREM LaunchTypeCorrect == LaunchSpec => []TypeOK
<1>1. LaunchInv => TypeOK
  BY SshTypes DEF LaunchInv, FlowTypeInv, HpcTypeInv, TypeOK
<1> QED
  BY <1>1, LaunchInvariance, PTL

\* What launch_slurm returns is the main jobs that the script submitted, the
\* first of them when the connection was lost, whichever stream the summary is
\* on and however many stages and jobs it lists.
THEOREM LaunchReportsAll == LaunchSpec => []LaunchIsKnown
<1>1. LaunchInv => LaunchIsKnown
  BY DEF LaunchInv, KnownInv, LaunchIsKnown, Begin
<1> QED
  BY <1>1, LaunchInvariance, PTL

\* wait_for_completion returns a state for each job that is the one Slurm ended
\* it in, or that of a cancellation, through any number of reruns.
THEOREM ResultsAreCorrect == LaunchSpec => []ResultsAreTrue
<1>1. LaunchInv => ResultsAreTrue
  BY DEF LaunchInv, TruthInv
<1> QED
  BY <1>1, LaunchInvariance, PTL

\* When it returns, no job runs on and no variable is left, but for late writes.
THEOREM WaitIsThorough == LaunchSpec => []WaitLeavesNothing
<1>1. LaunchInv => WaitLeavesNothing
  <2> SUFFICES ASSUME LaunchInv, at = "done"
               PROVE  /\ late = 0 => \A k \in DOMAIN ls : IsOver(ls[k].job) \/ ls[k].job \in killed
                      /\ Cardinality({j \in Jobs : var[j] # "ABSENT"}) <= late
    BY DEF WaitLeavesNothing
  <2>1. Settled = Len(ls) /\ DOMAIN ls = 1..Len(ls) /\ Len(ls) \in Nat
    BY SettledFacts DEF LaunchInv, FlowTypeInv, Settled
  <2>2. Loose = {j \in Jobs : var[j] # "ABSENT"}
    BY <2>1 DEF Loose
  <2> QED
    BY <2>1, <2>2 DEF LaunchInv, KilledInv, LooseInv
<1> QED
  BY <1>1, LaunchInvariance, PTL

-----------------------------------------------------------------------------
(* The refinement. *)

LEMMA InitRefines == SshInit => Contract!Init
  BY DEF SshInit, Contract!Init, Phase, Effect, Said

\* The steps CommandRun does not see.
LEMMA StutterRefines ==
  ASSUME UNCHANGED <<runner, proc, exit, code>>, pc' = pc \/ (pc \notin Over /\ pc' \notin Over)
  PROVE  UNCHANGED Contract!vars
  BY DEF Contract!vars, Phase, Effect, Said, Over

LEMMA FailRefines ==
  ASSUME UNCHANGED <<runner, proc, exit>>, pc \notin Over, pc' = "failed"
  PROVE  Contract!Fail
  BY DEF Contract!Fail, Phase, Effect, Said, Over

LEMMA StartRefines ==
  ASSUME proc = "none", proc' = "running", pc \notin Over, pc' \notin Over
  PROVE  Contract!Start
  BY DEF Contract!Start, Phase, Effect, Said, Over

LEMMA WorldRefines == SshInv /\ World => Contract!Next \/ UNCHANGED Contract!vars
<1> SUFFICES ASSUME SshInv, World PROVE Contract!Next \/ UNCHANGED Contract!vars
  OBVIOUS
<1>1. UNCHANGED <<runner, pc, code>>
  BY DEF World, Write, Exit, Die, Ends, Drop, Notice, client
<1>2. CASE Write \/ Drop \/ Notice
  <2>1. UNCHANGED <<proc, exit>>
    BY <1>2 DEF Write, Drop, Notice, command
  <2> QED
    BY <1>1, <2>1, StutterRefines
<1>3. CASE Exit \/ Die
  <2>1. proc = "running" /\ proc' = "exited"
    BY <1>3 DEF Exit, Die, Ends
  <2>2. Contract!Finish
    BY <1>1, <2>1 DEF Contract!Finish, Phase, Effect, Said
  <2> QED
    BY <2>2 DEF Contract!Next
<1> QED
  BY <1>2, <1>3 DEF World

LEMMA StartingRefines == SshInv /\ Starting => Contract!Next \/ UNCHANGED Contract!vars
<1> SUFFICES ASSUME SshInv, Starting PROVE Contract!Next \/ UNCHANGED Contract!vars
  OBVIOUS
<1>1. runner' = runner /\ exit' = exit /\ proc = "none" /\ pc \in {"start", "connect", "exec"}
  BY DEF Starting, CheckFiles, CannotStart, StartProcess, Connect, ConnectFails, Exec,
     ExecFails, client, command, SshInv, PlaceInv
<1>2. \/ proc' = "running" /\ pc' \notin Over
      \/ proc' = "none" /\ pc' = "failed"
      \/ proc' = "none" /\ pc' \notin Over
  BY <1>1 DEF Starting, CheckFiles, CannotStart, StartProcess, Connect, ConnectFails, Exec,
     ExecFails, StartCommand, Refuse, Raise, Over, command
<1>3. CASE proc' = "running" /\ pc' \notin Over
  BY <1>1, <1>3, StartRefines DEF Contract!Next, Over
<1>4. CASE proc' = "none" /\ pc' = "failed"
  BY <1>1, <1>4, FailRefines DEF Contract!Next, Over
<1>5. CASE proc' = "none" /\ pc' \notin Over
  BY <1>1, <1>5 DEF Contract!vars, Phase, Effect, Said, Over
<1> QED
  BY <1>2, <1>3, <1>4, <1>5

LEMMA EndingRefines == SshInv /\ Ending => Contract!Next \/ UNCHANGED Contract!vars
<1> SUFFICES ASSUME SshInv, Ending PROVE Contract!Next \/ UNCHANGED Contract!vars
  OBVIOUS
<1>1. UNCHANGED <<runner, proc, exit>>
  BY DEF Ending, Read, EndOfOutput, RecvExitStatus, MakeResult, Undecodable, Close, client,
     command
<1>2. CASE Close
  <2>1. /\ pc = "close" /\ code' = code
        /\ pc' = IF result = "ok" THEN "returned" ELSE "failed"
    BY <1>2 DEF Close
  <2>2. CASE result # "ok"
    BY <1>1, <2>1, <2>2, FailRefines DEF Contract!Next, Over
  <2>3. CASE result = "ok" /\ runner = "generic" /\ code = "-1"
    <3>1. Contract!Fail
      BY <1>1, <2>1, <2>3 DEF Contract!Fail, Phase, Effect, Said
    <3> QED
      BY <3>1 DEF Contract!Next
  <2>4. CASE result = "ok" /\ ~(runner = "generic" /\ code = "-1")
    <3>1. proc = "exited" /\ code = Reported(exit) /\ pc' = "returned"
      BY <2>1, <2>4 DEF SshInv, CodeInv, Finished
    <3>2. code = "zero" <=> exit = "zero"
      BY <3>1, ReportedFacts DEF SshInv, PlaceInv, StatusInv
    <3>3. Contract!Return
      BY <1>1, <2>1, <2>4, <3>1, <3>2 DEF Contract!Return, Phase, Effect, Said
    <3> QED
      BY <3>3 DEF Contract!Next
  <2> QED
    BY <2>2, <2>3, <2>4
<1>3. CASE ~Close
  <2>1. pc \notin Over /\ pc' \notin Over
    BY <1>3 DEF Ending, Read, Reading, EndOfOutput, AtEnd, RecvExitStatus, MakeResult,
       Undecodable, Raise, Over
  <2> QED
    BY <1>1, <2>1 DEF Contract!vars, Phase, Effect, Said, Over
<1> QED
  BY <1>2, <1>3

LEMMA SshRefines ==
  SshInv /\ [SshNext]_sshVars => [Contract!Next]_(Contract!vars)
<1> SUFFICES ASSUME SshInv, [SshNext]_sshVars
             PROVE  Contract!Next \/ UNCHANGED Contract!vars
  OBVIOUS
<1>1. CASE UNCHANGED sshVars
  BY <1>1, StutterRefines DEF sshVars
<1> QED
  BY <1>1, SshCases, WorldRefines, StartingRefines, EndingRefines

\* The four runners execute a command at most once and return only what it
\* ended in, whenever it dies, blocks or loses its connection.
THEOREM SshImplementsCommandRun == LaunchSpec => ImplementsCommandRun
<1>1. Init => Contract!Init
  BY InitRefines DEF Init
<1>2. SshInv /\ [Next]_vars => [Contract!Next]_(Contract!vars)
  BY SshRefines, LaunchStepsSsh
<1> QED
  BY <1>1, <1>2, LaunchSshInv, PTL
     DEF LaunchSpec, ImplementsCommandRun, Contract!CommandRunSpec
=============================================================================
