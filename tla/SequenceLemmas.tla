--------------------------- MODULE SequenceLemmas ---------------------------
(***************************************************************************)
(* What several of the proofs need to know of sequences, and how they do   *)
(* without an induction theorem.                                           *)
(***************************************************************************)
EXTENDS Integers, Sequences, SequencesExt, SequenceTheorems, WellFoundedInduction, TLAPS

-----------------------------------------------------------------------------
(* Functions on an initial interval.                                       *)
LEMMA FunctionsAreSequences ==
    ASSUME NEW n \in Nat, NEW S, NEW f \in [1..n -> S]
    PROVE  f \in Seq(S) /\ Len(f) = n
    OBVIOUS

(* Induction, by the least number that is not reached.                     *)

LEMMA NaturalsAreReached ==
    ASSUME NEW T, 0 \in T, \A n \in Nat : n \in T => n + 1 \in T
    PROVE  \A n \in Nat : n \in T
<1> DEFINE R == {ss \in Nat \X Nat : ss[1] < ss[2]}
           Missed == {n \in Nat : n \notin T}
<1>1. IsWellFoundedOn(R, Nat)
    BY NatLessThanWellFounded DEF OpToRel
<1>2. \A m, n \in Nat : m < n => <<m, n>> \in R
    OBVIOUS
<1> HIDE DEF R
<1>3. SUFFICES ASSUME Missed # {} PROVE FALSE
    OBVIOUS
<1>4. PICK n \in Missed : \A m \in Missed : ~(<<m, n>> \in R)
    BY <1>1, <1>3, WFMin
<1>5. n \in Nat /\ n \notin T
    BY <1>4
<1>6. n # 0 /\ n - 1 \in Nat /\ n - 1 < n /\ (n - 1) + 1 = n
    BY <1>5
<1>7. n - 1 \notin Missed
    BY <1>2, <1>4, <1>5, <1>6
<1>8. n - 1 \in T
    BY <1>6, <1>7
<1>9. QED BY <1>5, <1>6, <1>8

(* What FlattenSeq is made of: the concatenations of the first sequences.  *)
LEMMA Flattening ==
    ASSUME NEW S, NEW seqs \in Seq(Seq(S)), Len(seqs) > 0
    PROVE  \E f : /\ FlattenSeq(seqs) = f[Len(seqs)]
                  /\ \A i \in 1..Len(seqs) : f[i] = IF i = 1 THEN seqs[i] ELSE f[i - 1] \o seqs[i]
<1> DEFINE Def(f, n) == f = [i \in 1..n |-> IF i = 1 THEN seqs[i] ELSE f[i - 1] \o seqs[i]]
           F == CHOOSE f : Def(f, Len(seqs))
           Good == {n \in Nat : \E f : Def(f, n)}
<1>1. FlattenSeq(seqs) = F[Len(seqs)]
    BY DEF FlattenSeq
<1>2. \A n \in Nat : n \in Good
    <2>1. 0 \in Good
        <3> DEFINE f == [i \in 1..0 |-> 0]
        <3>1. Def(f, 0)
            OBVIOUS
        <3>2. QED BY <3>1
    <2>2. ASSUME NEW n \in Nat, n \in Good PROVE n + 1 \in Good
        <3>1. PICK f : Def(f, n)
            BY <2>2
        <3> DEFINE g == [i \in 1..n + 1 |->
                             IF i # n + 1 THEN f[i]
                             ELSE IF i = 1 THEN seqs[i] ELSE f[i - 1] \o seqs[i]]
        <3>2. ASSUME NEW i \in 1..n + 1 PROVE g[i] = IF i = 1 THEN seqs[i] ELSE g[i - 1] \o seqs[i]
            <4>1. CASE i = n + 1
                BY <4>1, <3>1
            <4>2. CASE i # n + 1
                <5>1. i \in 1..n /\ g[i] = f[i] /\ (i # 1 => g[i - 1] = f[i - 1])
                    BY <4>2
                <5>2. f[i] = IF i = 1 THEN seqs[i] ELSE f[i - 1] \o seqs[i]
                    BY <3>1, <5>1
                <5>3. QED BY <5>1, <5>2
            <4>3. QED BY <4>1, <4>2
        <3>3. g = [i \in 1..n + 1 |-> g[i]]
            OBVIOUS
        <3> HIDE DEF g
        <3>4. Def(g, n + 1)
            BY <3>2, <3>3
        <3>5. n + 1 \in Nat
            OBVIOUS
        <3> HIDE DEF Def
        <3>6. \E h : Def(h, n + 1)
            BY <3>4
        <3>7. QED BY <3>5, <3>6
    <2> HIDE DEF Good
    <2>3. QED BY <2>1, <2>2, NaturalsAreReached
<1>3. \E f : Def(f, Len(seqs))
    <2>1. Len(seqs) \in Nat
        OBVIOUS
    <2> HIDE DEF Good
    <2>2. Len(seqs) \in Good
        BY <1>2, <2>1
    <2> HIDE DEF Def
    <2>3. QED BY <2>2 DEF Good
<1>4. Def(F, Len(seqs))
    <2> HIDE DEF Def
    <2>1. QED BY <1>3, Zenon
<1> HIDE DEF F
<1>5. \A i \in 1..Len(seqs) : F[i] = IF i = 1 THEN seqs[i] ELSE F[i - 1] \o seqs[i]
    BY <1>4
<1>6. QED BY <1>1, <1>5

(* Flattened sequences have the elements of their parts, and in a relation *)
(* that holds along each part and from part to part any two of them are.   *)
LEMMA FlattenedInOrder ==
    ASSUME NEW S, NEW R, NEW seqs \in Seq(Seq(S)), Len(seqs) > 0,
           \A a \in 1..Len(seqs) : \A i, j \in 1..Len(seqs[a]) :
               i < j => <<seqs[a][i], seqs[a][j]>> \in R,
           \A a, b \in 1..Len(seqs) : a < b =>
               \A i \in 1..Len(seqs[a]), j \in 1..Len(seqs[b]) : <<seqs[a][i], seqs[b][j]>> \in R
    PROVE  /\ FlattenSeq(seqs) \in Seq(S)
           /\ \A i \in 1..Len(FlattenSeq(seqs)) :
                 \E a \in 1..Len(seqs) : \E k \in 1..Len(seqs[a]) : FlattenSeq(seqs)[i] = seqs[a][k]
           /\ \A a \in 1..Len(seqs) : \A k \in 1..Len(seqs[a]) :
                 \E i \in 1..Len(FlattenSeq(seqs)) : FlattenSeq(seqs)[i] = seqs[a][k]
           /\ \A i, j \in 1..Len(FlattenSeq(seqs)) :
                 i < j => <<FlattenSeq(seqs)[i], FlattenSeq(seqs)[j]>> \in R
<1> DEFINE Made(s, n) ==
               /\ s \in Seq(S)
               /\ \A i \in 1..Len(s) : \E a \in 1..n : \E k \in 1..Len(seqs[a]) : s[i] = seqs[a][k]
               /\ \A a \in 1..n : \A k \in 1..Len(seqs[a]) : \E i \in 1..Len(s) : s[i] = seqs[a][k]
               /\ \A i, j \in 1..Len(s) : i < j => <<s[i], s[j]>> \in R
<1>1. PICK f : /\ FlattenSeq(seqs) = f[Len(seqs)]
               /\ \A i \in 1..Len(seqs) : f[i] = IF i = 1 THEN seqs[i] ELSE f[i - 1] \o seqs[i]
    BY Flattening
<1> DEFINE Good == {n \in Nat : n \in 1..Len(seqs) => Made(f[n], n)}
<1>2. \A n \in Nat : n \in Good
    <2>1. 0 \in Good
        OBVIOUS
    <2>2. ASSUME NEW n \in Nat, n \in Good PROVE n + 1 \in Good
        <3>1. SUFFICES ASSUME n + 1 \in 1..Len(seqs) PROVE Made(f[n + 1], n + 1)
            <4> HIDE DEF Made
            <4>1. QED OBVIOUS
        <3> DEFINE m == n + 1
                   t == seqs[m]
        <3>2. m \in 1..Len(seqs) /\ m \in Nat /\ t \in Seq(S) /\ Len(t) \in Nat
            BY <3>1
        <3>3. CASE n = 0
            <4>1. m = 1 /\ f[m] = t
                BY <1>1, <3>2, <3>3
            <4>2. \A i, j \in 1..Len(t) : i < j => <<t[i], t[j]>> \in R
                BY <3>2
            <4> HIDE DEF t
            <4>3. Made(t, m)
                BY <3>2, <4>1, <4>2 DEF t
            <4>4. QED BY <4>1, <4>3
        <3>4. CASE n # 0
            <4> DEFINE s == f[n]
            <4>1. n \in 1..Len(seqs) /\ m # 1 /\ m - 1 = n
                BY <3>2, <3>4
            <4>2. Made(s, n)
                BY <2>2, <4>1
            <4>3. f[m] = s \o t
                BY <1>1, <3>2, <4>1
            <4> HIDE DEF s, t, m
            <4> DEFINE u == s \o t
            <4>4. /\ s \in Seq(S) /\ Len(s) \in Nat /\ u \in Seq(S) /\ Len(u) = Len(s) + Len(t)
                  /\ \A i \in 1..Len(s) : i \in 1..Len(u) /\ u[i] = s[i]
                  /\ \A k \in 1..Len(t) : Len(s) + k \in 1..Len(u) /\ u[Len(s) + k] = t[k]
                BY <3>2, <4>2
            <4>5. \A i \in 1..Len(u) : i \in 1..Len(s) \/ (i - Len(s) \in 1..Len(t) /\ u[i] = t[i - Len(s)])
                BY <3>2, <4>4
            <4> HIDE DEF u
            <4>6. \A a \in 1..m : a \in 1..n \/ a = m
                BY <4>1, <3>2 DEF m
            <4>7. n \in Nat /\ m \in 1..m /\ 1..n \subseteq 1..m
                BY <3>2, <4>1 DEF m
            <4>8. ASSUME NEW i \in 1..Len(u)
                  PROVE  \E a \in 1..m : \E k \in 1..Len(seqs[a]) : u[i] = seqs[a][k]
                <5>1. CASE i \in 1..Len(s)
                    <6>1. PICK a \in 1..n : \E k \in 1..Len(seqs[a]) : s[i] = seqs[a][k]
                        BY <4>2, <5>1
                    <6>2. a \in 1..m /\ u[i] = s[i]
                        BY <4>4, <4>7, <5>1
                    <6>3. QED BY <6>1, <6>2
                <5>2. CASE i - Len(s) \in 1..Len(t) /\ u[i] = t[i - Len(s)]
                    BY <4>7, <5>2 DEF t
                <5>3. QED BY <4>5, <5>1, <5>2
            <4>9. ASSUME NEW a \in 1..m, NEW k \in 1..Len(seqs[a])
                  PROVE  \E i \in 1..Len(u) : u[i] = seqs[a][k]
                <5>1. CASE a \in 1..n
                    BY <4>2, <4>4, <5>1
                <5>2. CASE a = m
                    BY <4>4, <5>2 DEF t
                <5>3. QED BY <4>6, <5>1, <5>2
            <4>10. ASSUME NEW i \in 1..Len(u), NEW j \in 1..Len(u), i < j
                   PROVE  <<u[i], u[j]>> \in R
                <5>1. CASE j \in 1..Len(s)
                    <6>1. i \in 1..Len(s)
                        BY <4>4, <4>10, <5>1
                    <6>2. QED BY <4>2, <4>4, <4>10, <5>1, <6>1
                <5>2. CASE j \notin 1..Len(s)
                    <6>1. j - Len(s) \in 1..Len(t) /\ u[j] = t[j - Len(s)]
                        BY <4>5, <5>2
                    <6>2. CASE i \in 1..Len(s)
                        <7>1. PICK a \in 1..n : \E k \in 1..Len(seqs[a]) : u[i] = seqs[a][k]
                            <8>1. u[i] = s[i]
                                BY <4>4, <6>2
                            <8>2. \E a \in 1..n : \E k \in 1..Len(seqs[a]) : s[i] = seqs[a][k]
                                BY <4>2, <6>2
                            <8>3. QED BY <8>1, <8>2
                        <7>2. a \in 1..Len(seqs) /\ a < m
                            BY <3>2, <4>1, <7>1 DEF m
                        <7>3. QED BY <3>2, <6>1, <7>1, <7>2 DEF t
                    <6>3. CASE i \notin 1..Len(s)
                        <7>1. i - Len(s) \in 1..Len(t) /\ u[i] = t[i - Len(s)] /\ i - Len(s) < j - Len(s)
                            BY <4>4, <4>5, <4>10, <6>3
                        <7>2. QED BY <3>2, <6>1, <7>1 DEF t
                    <6>4. QED BY <6>2, <6>3
                <5>3. QED BY <5>1, <5>2
            <4>11. Made(u, m)
                BY <4>4, <4>8, <4>9, <4>10
            <4> HIDE DEF Made
            <4>12. QED BY <4>3, <4>11 DEF u, m
        <3>5. QED BY <3>3, <3>4
    <2> HIDE DEF Good
    <2>3. QED BY <2>1, <2>2, NaturalsAreReached
<1>3. Len(seqs) \in Nat /\ Len(seqs) \in 1..Len(seqs)
    OBVIOUS
<1> HIDE DEF Made
<1>4. Made(f[Len(seqs)], Len(seqs))
    BY <1>2, <1>3
<1>5. QED BY <1>1, <1>4 DEF Made

(* A loop that starts like w and goes on like w ends like w.               *)
LEMMA LoopEnds ==
    ASSUME NEW n \in Nat, NEW F, NEW w, F[0] = w[0],
           \A i \in 1..n : F[i - 1] = w[i - 1] => F[i] = w[i]
    PROVE  F[n] = w[n]
<1> DEFINE Good == {i \in Nat : i \in 0..n => F[i] = w[i]}
<1>1. 0 \in Good
    OBVIOUS
<1>2. ASSUME NEW i \in Nat, i \in Good PROVE i + 1 \in Good
    <2>1. i + 1 \in 0..n => i \in 0..n /\ i + 1 \in 1..n /\ (i + 1) - 1 = i
        OBVIOUS
    <2>2. QED BY <1>2, <2>1
<1> HIDE DEF Good
<1>3. n \in Good
    BY <1>1, <1>2, NaturalsAreReached
<1>4. QED BY <1>3 DEF Good

(* Flattening one sequence more.                                           *)
LEMMA FlattenNone == FlattenSeq(<< >>) = << >>
    BY DEF FlattenSeq

LEMMA FlattenTyped ==
    ASSUME NEW S, NEW seqs \in Seq(Seq(S))
    PROVE  FlattenSeq(seqs) \in Seq(S)
<1>1. CASE Len(seqs) = 0
    BY <1>1, FlattenNone, EmptySeq
<1>2. CASE Len(seqs) > 0
    <2>1. PICK f : /\ FlattenSeq(seqs) = f[Len(seqs)]
                   /\ \A i \in 1..Len(seqs) : f[i] = IF i = 1 THEN seqs[i] ELSE f[i - 1] \o seqs[i]
        BY <1>2, Flattening
    <2> DEFINE Good == {i \in Nat : i \in 1..Len(seqs) => f[i] \in Seq(S)}
    <2>2. 0 \in Good
        OBVIOUS
    <2>3. ASSUME NEW i \in Nat, i \in Good PROVE i + 1 \in Good
        <3>1. SUFFICES ASSUME i + 1 \in 1..Len(seqs) PROVE f[i + 1] \in Seq(S)
            OBVIOUS
        <3>2. seqs[i + 1] \in Seq(S)
            BY <3>1, ElementOfSeq
        <3>3. CASE i = 0
            BY <2>1, <3>1, <3>2, <3>3
        <3>4. CASE i # 0
            <4>1. i \in 1..Len(seqs) /\ (i + 1) - 1 = i /\ i + 1 # 1
                BY <3>1, <3>4
            <4>2. f[i] \in Seq(S)
                BY <2>3, <4>1
            <4>3. f[i + 1] = f[i] \o seqs[i + 1]
                BY <2>1, <3>1, <4>1
            <4>4. QED BY <3>2, <4>2, <4>3, ConcatProperties
        <3>5. QED BY <3>3, <3>4
    <2> HIDE DEF Good
    <2>4. \A i \in Nat : i \in Good
        BY <2>2, <2>3, NaturalsAreReached
    <2>5. Len(seqs) \in Nat /\ Len(seqs) \in 1..Len(seqs)
        BY <1>2
    <2>6. QED BY <2>1, <2>4, <2>5 DEF Good
<1>3. QED BY <1>1, <1>2

LEMMA FlattenMore ==
    ASSUME NEW S, NEW seqs \in Seq(Seq(S)), NEW s \in Seq(S)
    PROVE  FlattenSeq(Append(seqs, s)) = FlattenSeq(seqs) \o s
<1> DEFINE t == Append(seqs, s)
           n == Len(seqs)
<1>1. /\ t \in Seq(Seq(S)) /\ Len(t) = n + 1 /\ n \in Nat /\ t[n + 1] = s
      /\ \A i \in 1..n : t[i] = seqs[i]
    BY AppendProperties
<1> HIDE DEF t
<1>2. PICK g : /\ FlattenSeq(t) = g[n + 1]
               /\ \A i \in 1..n + 1 : g[i] = IF i = 1 THEN t[i] ELSE g[i - 1] \o t[i]
    <2>1. Len(t) > 0
        BY <1>1
    <2>2. t \in Seq(Seq(S))
        BY <1>1
    <2>3. PICK g : /\ FlattenSeq(t) = g[Len(t)]
                   /\ \A i \in 1..Len(t) : g[i] = IF i = 1 THEN t[i] ELSE g[i - 1] \o t[i]
        BY <2>1, <2>2, Flattening
    <2>4. QED BY <1>1, <2>3
<1>3. CASE n = 0
    <2>1. FlattenSeq(t) = s
        BY <1>1, <1>2, <1>3
    <2>2. FlattenSeq(seqs) = << >>
        BY <1>3, FlattenNone
    <2>3. QED BY <2>1, <2>2, ConcatEmptySeq DEF t
<1>4. CASE n > 0
    <2>1. PICK f : /\ FlattenSeq(seqs) = f[n]
                   /\ \A i \in 1..n : f[i] = IF i = 1 THEN seqs[i] ELSE f[i - 1] \o seqs[i]
        BY <1>4, Flattening
    <2>2. \A i \in 1..n : i \in 1..n + 1
        BY <1>1
    <2>3. f[1] = g[1]
        <3>1. 1 \in 1..n /\ 1 \in 1..n + 1
            BY <1>1, <1>4
        <3>2. f[1] = seqs[1] /\ g[1] = t[1] /\ t[1] = seqs[1]
            BY <1>1, <1>2, <2>1, <3>1
        <3>3. QED BY <3>2
    <2> DEFINE F == [i \in 0..n |-> IF i = 0 THEN 0 ELSE f[i]]
               G == [i \in 0..n |-> IF i = 0 THEN 0 ELSE g[i]]
    <2>4. ASSUME NEW i \in 1..n, F[i - 1] = G[i - 1] PROVE F[i] = G[i]
        <3>1. F[i] = f[i] /\ G[i] = g[i] /\ i \in 1..n + 1
            BY <1>1, <2>2
        <3>2. CASE i = 1
            BY <2>3, <3>1, <3>2
        <3>3. CASE i # 1
            <4>1. i - 1 \in 0..n /\ i - 1 # 0
                BY <1>1, <3>3
            <4>2. f[i - 1] = g[i - 1]
                BY <2>4, <4>1
            <4>3. f[i] = f[i - 1] \o seqs[i] /\ g[i] = g[i - 1] \o t[i]
                BY <1>2, <2>1, <3>1, <3>3
            <4>4. QED BY <1>1, <3>1, <4>2, <4>3
        <3>4. QED BY <3>2, <3>3
    <2>5. F[0] = G[0]
        BY <1>1
    <2>6. f[n] = F[n] /\ g[n] = G[n]
        BY <1>1, <1>4
    <2> HIDE DEF F, G
    <2>7. F[n] = G[n]
        BY <1>1, <2>4, <2>5, LoopEnds
    <2>8. g[n + 1] = g[n] \o s
        <3>1. n + 1 \in 1..n + 1 /\ n + 1 # 1 /\ (n + 1) - 1 = n
            BY <1>1, <1>4
        <3>2. QED BY <1>1, <1>2, <3>1
    <2>9. QED BY <1>2, <2>1, <2>6, <2>7, <2>8 DEF t
<1>5. QED BY <1>1, <1>3, <1>4

LEMMA FlattenOne ==
    ASSUME NEW S, NEW s \in Seq(S)
    PROVE  FlattenSeq(<<s>>) = s
<1>1. <<s>> = Append(<< >>, s) /\ << >> \in Seq(Seq(S))
    OBVIOUS
<1>2. FlattenSeq(Append(<< >>, s)) = FlattenSeq(<< >>) \o s
    BY <1>1, FlattenMore
<1>3. QED BY <1>1, <1>2, FlattenNone, ConcatEmptySeq

LEMMA FlattenJoin ==
    ASSUME NEW S, NEW s \in Seq(Seq(S)), NEW t \in Seq(Seq(S))
    PROVE  FlattenSeq(s \o t) = FlattenSeq(s) \o FlattenSeq(t)
<1> DEFINE Good == {n \in Nat : n \in 0..Len(t) =>
                       FlattenSeq(s \o SubSeq(t, 1, n)) = FlattenSeq(s) \o FlattenSeq(SubSeq(t, 1, n))}
<1>1. 0 \in Good
    <2>1. SubSeq(t, 1, 0) = << >>
        BY SubSeqEmpty
    <2>2. FlattenSeq(s) \in Seq(S)
        BY FlattenTyped
    <2>3. QED BY <2>1, <2>2, ConcatEmptySeq, FlattenNone
<1>2. ASSUME NEW n \in Nat, n \in Good PROVE n + 1 \in Good
    <2>1. SUFFICES ASSUME n + 1 \in 0..Len(t)
                   PROVE  FlattenSeq(s \o SubSeq(t, 1, n + 1)) = FlattenSeq(s) \o FlattenSeq(SubSeq(t, 1, n + 1))
        OBVIOUS
    <2> DEFINE u == SubSeq(t, 1, n)
               e == t[n + 1]
    <2>2. n + 1 \in 1..Len(t) /\ n \in 0..Len(t) /\ 1 \in 1..Len(t) /\ (n + 1) - 1 = n
        BY <2>1
    <2>3. e \in Seq(S) /\ u \in Seq(Seq(S))
        BY <2>2, ElementOfSeq, SubSeqProperties
    <2>4. SubSeq(t, 1, n + 1) = Append(u, e)
        <3>1. SubSeq(t, 1, n + 1) = u \o <<e>>
            BY <2>2, SubSeqRecursiveSecond
        <3>2. QED BY <2>3, <3>1, AppendIsConcat
    <2>5. FlattenSeq(s \o u) = FlattenSeq(s) \o FlattenSeq(u)
        BY <1>2, <2>2
    <2> HIDE DEF u, e
    <2>6. s \o Append(u, e) = Append(s \o u, e) /\ s \o u \in Seq(Seq(S))
        BY <2>3
    <2>7. /\ FlattenSeq(s \o u) \in Seq(S) /\ FlattenSeq(s) \in Seq(S) /\ FlattenSeq(u) \in Seq(S)
        BY <2>3, <2>6, FlattenTyped
    <2>8. FlattenSeq(Append(s \o u, e)) = FlattenSeq(s \o u) \o e /\ FlattenSeq(Append(u, e)) = FlattenSeq(u) \o e
        BY <2>3, <2>6, FlattenMore
    <2>9. (FlattenSeq(s) \o FlattenSeq(u)) \o e = FlattenSeq(s) \o (FlattenSeq(u) \o e)
        <3> DEFINE a == FlattenSeq(s)
                   b == FlattenSeq(u)
        <3>1. a \in Seq(S) /\ b \in Seq(S) /\ e \in Seq(S)
            BY <2>3, <2>7
        <3> HIDE DEF a, b
        <3>2. (a \o b) \o e = a \o (b \o e)
            BY <3>1
        <3>3. QED BY <3>2 DEF a, b
    <2>10. QED BY <2>4, <2>5, <2>6, <2>8, <2>9
<1> HIDE DEF Good
<1>3. Len(t) \in Good
    <2>1. Len(t) \in Nat
        OBVIOUS
    <2>2. QED BY <1>1, <1>2, <2>1, NaturalsAreReached
<1>4. SubSeq(t, 1, Len(t)) = t /\ Len(t) \in 0..Len(t)
    BY SubSeqFull
<1>5. QED BY <1>3, <1>4 DEF Good

(* The beginnings of a sequence.                                           *)
LEMMA Beginnings ==
    ASSUME NEW S, NEW s \in Seq(S), NEW i \in 1..Len(s)
    PROVE  /\ SubSeq(s, 1, i) \in Seq(S) /\ SubSeq(s, 1, i - 1) \in Seq(S)
           /\ SubSeq(s, i + 1, Len(s)) \in Seq(S) /\ s[i] \in S
           /\ SubSeq(s, 1, i) = SubSeq(s, 1, i - 1) \o <<s[i]>>
           /\ s = SubSeq(s, 1, i) \o SubSeq(s, i + 1, Len(s))
           /\ Len(SubSeq(s, 1, i)) = i /\ SubSeq(s, 1, 0) = << >> /\ SubSeq(s, 1, Len(s)) = s
<1>1. /\ Len(s) \in Nat /\ i - 1 \in 0..Len(s) /\ 1 \in 1..Len(s) /\ i \in Int /\ i + 1 \in Int
      /\ i - 1 \in Int /\ i \in 1 - 1..Len(s) /\ 1 \in 1..Len(s) + 1 /\ Len(s) \in i..Len(s)
    OBVIOUS
<1>2. \A j \in 1..Len(s) : s[j] \in S
    BY ElementOfSeq
<1>3. /\ SubSeq(s, 1, i) \in Seq(S) /\ SubSeq(s, 1, i - 1) \in Seq(S)
      /\ SubSeq(s, i + 1, Len(s)) \in Seq(S) /\ s[i] \in S
    OBVIOUS
<1>4. SubSeq(s, 1, i) = SubSeq(s, 1, i - 1) \o <<s[i]>>
    BY <1>1, SubSeqRecursiveSecond
<1>5. s = SubSeq(s, 1, i) \o SubSeq(s, i + 1, Len(s))
    BY <1>1, SubSeqFull, ConcatAdjacentSubSeq
<1>6. Len(SubSeq(s, 1, i)) = i /\ SubSeq(s, 1, 0) = << >> /\ SubSeq(s, 1, Len(s)) = s
    BY <1>1, SubSeqFull, SubSeqEmpty
<1>7. QED BY <1>3, <1>4, <1>5, <1>6

(* What a function makes of the elements of a sequence.                    *)
Image(g, s) == [i \in DOMAIN s |-> g[s[i]]]

LEMMA ImageTyped ==
    ASSUME NEW X, NEW S, NEW g, NEW s \in Seq(X), \A x \in X : g[x] \in S
    PROVE  Image(g, s) \in Seq(S) /\ Len(Image(g, s)) = Len(s)
<1>1. DOMAIN s = 1..Len(s) /\ Len(s) \in Nat /\ \A i \in 1..Len(s) : s[i] \in X
    BY LenProperties, ElementOfSeq
<1>2. [i \in 1..Len(s) |-> g[s[i]]] \in [1..Len(s) -> S]
    BY <1>1
<1>3. QED BY <1>1, <1>2, FunctionsAreSequences DEF Image

LEMMA ImageJoin ==
    ASSUME NEW X, NEW g, NEW s \in Seq(X), NEW t \in Seq(X)
    PROVE  Image(g, s \o t) = Image(g, s) \o Image(g, t)
<1> DEFINE S == {g[x] : x \in X}
           u == s \o t
           gs == Image(g, s)
           gt == Image(g, t)
           gu == Image(g, u)
<1>1. /\ u \in Seq(X) /\ Len(u) = Len(s) + Len(t) /\ Len(s) \in Nat /\ Len(t) \in Nat
      /\ DOMAIN s = 1..Len(s) /\ DOMAIN t = 1..Len(t) /\ DOMAIN u = 1..Len(u)
      /\ \A i \in 1..Len(s) + Len(t) : u[i] = IF i <= Len(s) THEN s[i] ELSE t[i - Len(s)]
    BY ConcatProperties, LenProperties
<1> HIDE DEF u
<1>2. /\ gs \in Seq(S) /\ Len(gs) = Len(s) /\ gt \in Seq(S) /\ Len(gt) = Len(t)
      /\ gu \in Seq(S) /\ Len(gu) = Len(u)
    <2>1. \A x \in X : g[x] \in S
        OBVIOUS
    <2> HIDE DEF S
    <2> HIDE DEF gs, gt, gu
    <2>2. gs \in Seq(S) /\ Len(gs) = Len(s)
        BY <2>1, ImageTyped DEF gs
    <2>3. gt \in Seq(S) /\ Len(gt) = Len(t)
        BY <2>1, ImageTyped DEF gt
    <2>4. gu \in Seq(S) /\ Len(gu) = Len(u)
        <3>1. u \in Seq(X)
            BY <1>1
        <3>2. QED BY <2>1, <3>1, ImageTyped DEF gu
    <2>5. QED BY <2>2, <2>3, <2>4
<1>3. /\ \A i \in 1..Len(s) : gs[i] = g[s[i]]
      /\ \A i \in 1..Len(t) : gt[i] = g[t[i]]
      /\ \A i \in 1..Len(u) : gu[i] = g[u[i]]
    BY <1>1 DEF Image
<1> HIDE DEF gs, gt, gu
<1>4. /\ gs \o gt \in Seq(S) /\ Len(gs \o gt) = Len(gu)
      /\ \A i \in 1..Len(s) + Len(t) : (gs \o gt)[i] = IF i <= Len(s) THEN gs[i] ELSE gt[i - Len(s)]
    <2>1. /\ gs \o gt \in Seq(S) /\ Len(gs \o gt) = Len(gs) + Len(gt)
          /\ \A i \in 1..Len(gs) + Len(gt) : (gs \o gt)[i] = IF i <= Len(gs) THEN gs[i] ELSE gt[i - Len(gs)]
        BY <1>2, ConcatProperties
    <2>2. QED BY <1>1, <1>2, <2>1
<1>5. ASSUME NEW i \in 1..Len(gu) PROVE gu[i] = (gs \o gt)[i]
    <2>1. i \in 1..Len(s) + Len(t) /\ i \in 1..Len(u)
        BY <1>1, <1>2
    <2>2. CASE i <= Len(s)
        <3>1. i \in 1..Len(s)
            BY <1>1, <2>1, <2>2
        <3>2. gu[i] = g[s[i]] /\ (gs \o gt)[i] = g[s[i]]
            BY <1>1, <1>3, <1>4, <2>1, <2>2, <3>1
        <3>3. QED BY <3>2
    <2>3. CASE ~(i <= Len(s))
        <3>1. i - Len(s) \in 1..Len(t)
            BY <1>1, <2>1, <2>3
        <3>2. gu[i] = g[t[i - Len(s)]] /\ (gs \o gt)[i] = g[t[i - Len(s)]]
            BY <1>1, <1>3, <1>4, <2>1, <2>3, <3>1
        <3>3. QED BY <3>2
    <2>4. QED BY <2>2, <2>3
<1>6. gu = gs \o gt
    BY <1>2, <1>4, <1>5, SeqEqual
<1>7. QED BY <1>6 DEF gs, gt, gu, u

(* The beginnings of a sequence, each one longer.                          *)
LEMMA OneMore ==
    ASSUME NEW X, NEW outs \in Seq(X)
    PROVE  /\ SubSeq(outs, 1, 0) = << >> /\ SubSeq(outs, 1, Len(outs)) = outs
           /\ \A i \in 1..Len(outs) : SubSeq(outs, 1, i) = Append(SubSeq(outs, 1, i - 1), outs[i])
<1>1. SubSeq(outs, 1, 0) = << >> /\ SubSeq(outs, 1, Len(outs)) = outs
    BY SubSeqEmpty, SubSeqFull
<1>2. ASSUME NEW i \in 1..Len(outs) PROVE SubSeq(outs, 1, i) = Append(SubSeq(outs, 1, i - 1), outs[i])
    <2>1. /\ SubSeq(outs, 1, i) = SubSeq(outs, 1, i - 1) \o <<outs[i]>>
          /\ SubSeq(outs, 1, i - 1) \in Seq(X) /\ outs[i] \in X
        BY Beginnings
    <2>2. QED BY <2>1, AppendIsConcat
<1>3. QED BY <1>1, <1>2

(* Two ways to cut a sequence at the same place.                           *)
LEMMA SameCut ==
    ASSUME NEW S, NEW a \in Seq(S), NEW b \in Seq(S), NEW c \in Seq(S), NEW d \in Seq(S),
           a \o b = c \o d, Len(a) = Len(c)
    PROVE  a = c /\ b = d
<1>1. /\ Len(a) \in Nat /\ Len(b) \in Nat /\ Len(d) \in Nat
      /\ Len(a \o b) = Len(a) + Len(b) /\ Len(c \o d) = Len(c) + Len(d)
      /\ \A i \in 1..Len(a) + Len(b) : (a \o b)[i] = IF i <= Len(a) THEN a[i] ELSE b[i - Len(a)]
      /\ \A i \in 1..Len(c) + Len(d) : (c \o d)[i] = IF i <= Len(c) THEN c[i] ELSE d[i - Len(c)]
    BY ConcatProperties, LenProperties
<1>2. Len(b) = Len(d)
    BY <1>1
<1>3. ASSUME NEW i \in 1..Len(a) PROVE a[i] = c[i]
    <2>1. i \in 1..Len(a) + Len(b) /\ i <= Len(a)
        BY <1>1
    <2>2. QED BY <1>1, <1>2, <2>1
<1>4. ASSUME NEW i \in 1..Len(b) PROVE b[i] = d[i]
    <2>1. Len(a) + i \in 1..Len(a) + Len(b) /\ ~(Len(a) + i <= Len(a)) /\ (Len(a) + i) - Len(a) = i
        BY <1>1
    <2>2. (a \o b)[Len(a) + i] = b[i]
        BY <1>1, <2>1
    <2>3. (c \o d)[Len(a) + i] = d[i]
        BY <1>1, <1>2, <2>1
    <2>4. QED BY <2>2, <2>3
<1>5. a = c
    BY <1>3, SeqEqual
<1>6. b = d
    BY <1>2, <1>4, SeqEqual
<1>7. QED BY <1>5, <1>6

(* Joining three or four.                                                  *)
LEMMA JoinRegroups ==
    ASSUME NEW S, NEW a \in Seq(S), NEW b \in Seq(S), NEW c \in Seq(S)
    PROVE  (a \o b) \o c = a \o (b \o c)
    OBVIOUS

LEMMA JoinNone ==
    ASSUME NEW S, NEW a \in Seq(S)
    PROVE  a \o << >> = a /\ << >> \o a = a
    BY ConcatEmptySeq

(* The first of a sequence and the others.                                 *)
LEMMA FirstAndRest ==
    ASSUME NEW S, NEW s \in Seq(S), s # << >>
    PROVE  Head(s) \in S /\ Tail(s) \in Seq(S) /\ <<Head(s)>> \in Seq(S) /\ s = <<Head(s)>> \o Tail(s)
    BY HeadTailProperties
=============================================================================
