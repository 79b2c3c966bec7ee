------------------------- MODULE CollectionProofs -------------------------
(***************************************************************************)
(* What the workers make of the collectors' answers, for all endpoints,    *)
(* answers, limits and numbers of collections: which of it is stored and   *)
(* defined under which IDs, and that the list of the JSON collector, the   *)
(* metrics of the Jolokia collector and the families of the Prometheus     *)
(* collector all get there.                                                *)
(***************************************************************************)
EXTENDS Collection, MetricsTrackerProofs, SequenceTheorems, FunctionTheorems, WellFoundedInduction, TLAPS

-----------------------------------------------------------------------------
(* Lemmas about numbers and sequences.                                     *)

\* The order of the numbers, of which it only matters that one is less than the
\* next and that sets of numbers have a least one.
LEMMA Less == \E R : IsWellFoundedOn(R, Nat) /\ \A n \in Nat : <<n, n + 1>> \in R
  <1>1. \A n \in Nat : <<n, n + 1>> \in OpToRel(<, Nat) BY DEF OpToRel
  <1> QED BY <1>1, NatLessThanWellFounded

\* Induction, for a set in place of a predicate.
LEMMA Induction ==
    ASSUME NEW S, 0 \in S, \A n \in Nat : n \in S => n + 1 \in S
    PROVE  Nat \subseteq S
  <1> SUFFICES ASSUME Nat \ S # {} PROVE FALSE
    OBVIOUS
  <1>1. PICK R : IsWellFoundedOn(R, Nat) /\ \A n \in Nat : <<n, n + 1>> \in R BY Less
  <1>2. PICK x \in Nat \ S : \A y \in Nat \ S : ~(<<y, x>> \in R) BY <1>1, WFMin
  <1>3. x - 1 \in Nat /\ x - 1 \notin S /\ x = (x - 1) + 1 BY <1>2
  <1>4. <<x - 1, x>> \in R
    <2>1. <<x - 1, (x - 1) + 1>> \in R BY <1>1, <1>3
    <2> QED BY <2>1, <1>3
  <1> QED BY <1>2, <1>3, <1>4

\* A set of some of the numbers up to n has a greatest.
LEMMA MaxIsIn ==
    ASSUME NEW n \in Nat, NEW S \in SUBSET (0 .. n), S # {}
    PROVE  Max(S) \in S /\ \A x \in S : Max(S) >= x
  <1> DEFINE HasMax(s) == \E x \in s : \A y \in s : x >= y
             Good == {k \in Nat : \A s \in SUBSET (0 .. k) : s # {} => HasMax(s)}
  <1>1. 0 \in Good
    <2> SUFFICES ASSUME NEW s \in SUBSET (0 .. 0), s # {} PROVE HasMax(s)
      OBVIOUS
    <2>1. \A x, y \in s : x >= y OBVIOUS
    <2> QED BY <2>1
  <1>2. ASSUME NEW k \in Nat, k \in Good
        PROVE  k + 1 \in Good
    <2> SUFFICES ASSUME NEW s \in SUBSET (0 .. k + 1), s # {} PROVE HasMax(s)
      OBVIOUS
    <2>1. CASE k + 1 \in s BY <2>1
    <2>2. CASE k + 1 \notin s
      <3>1. s \in SUBSET (0 .. k) BY <2>2
      <3> QED BY <1>2, <3>1
    <2> QED BY <2>1, <2>2
  <1> HIDE DEF Good
  <1>3. n \in Good BY <1>1, <1>2, Induction
  <1>4. HasMax(S) BY <1>3 DEF Good
  <1> QED BY <1>4 DEF Max

\* The values of f from m to n follow from one another.
Follows(f, a, H, m, n) == f[m] = a /\ \A i \in m .. n : i # m => f[i] = H[i][f[i - 1]]

\* A function on the numbers from m to n may be defined by its first value and
\* how each value follows from the one before.
LEMMA Recursion ==
    ASSUME NEW T, NEW a \in T, NEW H \in [Nat -> [T -> T]], NEW m \in Nat, NEW n \in Nat, m <= n
    PROVE  \E f \in [m .. n -> T] : Follows(f, a, H, m, n)
  <1> DEFINE Right(f, j) == f[m] = a /\ \A i \in m + 1 .. m + j : f[i] = H[i][f[i - 1]]
             Good == {j \in Nat : \E f \in [m .. m + j -> T] : Right(f, j)}
  <1>1. 0 \in Good
    <2> DEFINE f == [i \in m .. m + 0 |-> a]
    <2>1. f \in [m .. m + 0 -> T] /\ Right(f, 0) OBVIOUS
    <2> QED BY <2>1
  <1>2. ASSUME NEW j \in Nat, j \in Good
        PROVE  j + 1 \in Good
    <2>1. PICK f \in [m .. m + j -> T] : Right(f, j) BY <1>2
    <2> DEFINE g == [i \in m .. m + (j + 1) |-> IF i = m + (j + 1) THEN H[i][f[m + j]] ELSE f[i]]
    <2>2. m + (j + 1) \in Nat /\ m + j \in m .. m + j OBVIOUS
    <2>3. H[m + (j + 1)][f[m + j]] \in T
      <3>1. H[m + (j + 1)] \in [T -> T] BY <2>2
      <3> QED BY <2>1, <2>2, <3>1
    <2>4. \A i \in m .. m + (j + 1) : i # m + (j + 1) => i \in m .. m + j OBVIOUS
    <2>5. g \in [m .. m + (j + 1) -> T] BY <2>1, <2>3, <2>4
    <2>6. g[m] = a
      <3>1. m \in m .. m + (j + 1) /\ m # m + (j + 1) OBVIOUS
      <3> QED BY <2>1, <3>1
    <2>7. ASSUME NEW i \in m + 1 .. m + (j + 1)
          PROVE  g[i] = H[i][g[i - 1]]
      <3>1. i \in m .. m + (j + 1) /\ i - 1 \in m .. m + (j + 1) /\ i - 1 # m + (j + 1) OBVIOUS
      <3>2. g[i - 1] = f[i - 1] BY <3>1
      <3>3. CASE i = m + (j + 1)
        <4>1. i - 1 = m + j BY <3>3
        <4>2. g[i] = H[i][f[m + j]] BY <3>1, <3>3
        <4> QED BY <3>2, <4>1, <4>2
      <3>4. CASE i # m + (j + 1)
        <4>1. i \in m + 1 .. m + j BY <3>4
        <4>2. g[i] = f[i] BY <3>1, <3>4
        <4> QED BY <2>1, <3>2, <4>1, <4>2
      <3> QED BY <3>3, <3>4
    <2> HIDE DEF g
    <2> QED BY <2>5, <2>6, <2>7
  <1> HIDE DEF Good
  <1>3. n - m \in Nat /\ m + (n - m) = n OBVIOUS
  <1>4. n - m \in Good BY <1>1, <1>2, <1>3, Induction
  <1>5. PICK f \in [m .. n -> T] : Right(f, n - m) BY <1>3, <1>4 DEF Good
  <1>6. \A i \in m .. n : i # m => i \in m + 1 .. m + (n - m) OBVIOUS
  <1> QED BY <1>5, <1>6 DEF Follows

\* The elements of two sequences, one after the other.
LEMMA JoinedSets ==
    ASSUME NEW S, NEW s \in Seq(S), NEW t \in Seq(S)
    PROVE  ToSet(s \o t) = ToSet(s) \cup ToSet(t)
  <1>1. /\ DOMAIN s = 1 .. Len(s) /\ DOMAIN t = 1 .. Len(t) /\ DOMAIN (s \o t) = 1 .. Len(s) + Len(t)
        /\ \A i \in 1 .. Len(s) + Len(t) : (s \o t)[i] = IF i <= Len(s) THEN s[i] ELSE t[i - Len(s)]
        /\ Len(s) \in Nat /\ Len(t) \in Nat
    OBVIOUS
  <1>2. ASSUME NEW x \in ToSet(s \o t)
        PROVE  x \in ToSet(s) \cup ToSet(t)
    <2>1. PICK i \in 1 .. Len(s) + Len(t) : x = (s \o t)[i] BY <1>1 DEF ToSet
    <2>2. i \in 1 .. Len(s) \/ i - Len(s) \in 1 .. Len(t) BY <1>1, <2>1
    <2>3. CASE i <= Len(s) BY <1>1, <2>1, <2>2, <2>3 DEF ToSet
    <2>4. CASE ~(i <= Len(s)) BY <1>1, <2>1, <2>2, <2>4 DEF ToSet
    <2> QED BY <2>3, <2>4
  <1>3. ASSUME NEW x \in ToSet(s)
        PROVE  x \in ToSet(s \o t)
    <2>1. PICK i \in 1 .. Len(s) : x = s[i] BY <1>1 DEF ToSet
    <2>2. i \in 1 .. Len(s) + Len(t) /\ i <= Len(s) BY <1>1
    <2> QED BY <1>1, <2>1, <2>2 DEF ToSet
  <1>4. ASSUME NEW x \in ToSet(t)
        PROVE  x \in ToSet(s \o t)
    <2>1. PICK i \in 1 .. Len(t) : x = t[i] BY <1>1 DEF ToSet
    <2>2. /\ i + Len(s) \in 1 .. Len(s) + Len(t) /\ ~(i + Len(s) <= Len(s))
          /\ (i + Len(s)) - Len(s) = i
      BY <1>1
    <2>3. (s \o t)[i + Len(s)] = t[i] BY <1>1, <2>2
    <2> QED BY <1>1, <2>1, <2>2, <2>3 DEF ToSet
  <1> QED BY <1>2, <1>3, <1>4

\* The first m of the sequences have one element, the others none.
OnesFirst(seqs, m) == \A i \in DOMAIN seqs : Len(seqs[i]) = IF i <= m THEN 1 ELSE 0

\* A sequence of sequences, flattened: a sequence of the elements of all, in
\* which the i-th is that of the i-th as far as each has one, and none follow.
LEMMA Flattened ==
    ASSUME NEW S, NEW seqs \in Seq(Seq(S)), NEW m \in 0 .. Len(seqs)
    PROVE  /\ FlattenSeq(seqs) \in Seq(S)
           /\ ToSet(FlattenSeq(seqs)) = UNION {ToSet(seqs[i]) : i \in DOMAIN seqs}
           /\ OnesFirst(seqs, m) =>
                /\ Len(FlattenSeq(seqs)) = m
                /\ \A i \in 1 .. m : FlattenSeq(seqs)[i] = seqs[i][1]
  <1> DEFINE Firsts(t, k) == OnesFirst(seqs, m) =>
                                /\ Len(t) = IF k <= m THEN k ELSE m
                                /\ \A i \in 1 .. Len(t) : t[i] = seqs[i][1]
  <1>1. CASE Len(seqs) = 0
    <2>1. seqs = <<>> BY <1>1
    <2>2. FlattenSeq(seqs) = <<>> BY <1>1, <2>1 DEF FlattenSeq
    <2>3. ToSet(<<>>) = {} BY DEF ToSet
    <2>4. DOMAIN seqs = {} /\ UNION {ToSet(seqs[i]) : i \in DOMAIN seqs} = {} BY <2>1
    <2>5. <<>> \in Seq(S) OBVIOUS
    <2> HIDE DEF Firsts
    <2>6. m = 0 /\ Len(<<>>) = 0 /\ \A i \in 1 .. 0 : FALSE BY <1>1
    <2> QED BY <2>1, <2>2, <2>3, <2>4, <2>5, <2>6
  <1>2. CASE Len(seqs) # 0
    <2> DEFINE n == Len(seqs)
               F(f) == [i \in 1 .. n |-> IF i = 1 THEN seqs[i] ELSE f[i - 1] \o seqs[i]]
               flatten == CHOOSE f : f = F(f)
    <2>1. n \in Nat \ {0} /\ DOMAIN seqs = 1 .. n /\ \A i \in 1 .. n : seqs[i] \in Seq(S)
      BY <1>2
    <2>2. FlattenSeq(seqs) = flatten[n] BY <1>2 DEF FlattenSeq
    <2>3. PICK f \in [1 .. n -> Seq(S)] : f[1] = seqs[1] /\ \A i \in 2 .. n : f[i] = f[i - 1] \o seqs[i]
      <3> DEFINE H == [i \in Nat |-> [t \in Seq(S) |-> IF i \in 1 .. n THEN t \o seqs[i] ELSE t]]
      <3>1. H \in [Nat -> [Seq(S) -> Seq(S)]] BY <2>1
      <3>2. n \in Nat /\ 1 <= n /\ seqs[1] \in Seq(S) BY <2>1
      <3>3. PICK f \in [1 .. n -> Seq(S)] : f[1] = seqs[1] /\ \A i \in 1 .. n : i # 1 => f[i] = H[i][f[i - 1]]
        <4> HIDE DEF H, n
        <4>1. PICK one \in Nat : one = 1 OBVIOUS
        <4>2. \E f \in [one .. n -> Seq(S)] : Follows(f, seqs[1], H, one, n) BY <3>1, <3>2, <4>1, Recursion
        <4> QED BY <4>1, <4>2 DEF Follows
      <3>4. \A i \in 2 .. n : i # 1 /\ i - 1 \in 1 .. n /\ i \in 1 .. n /\ i \in Nat BY <3>2
      <3>5. \A i \in 2 .. n : f[i] = H[i][f[i - 1]] /\ f[i - 1] \in Seq(S)
        <4> HIDE DEF H, n
        <4> QED BY <3>3, <3>4
      <3>6. \A i \in Nat, t \in Seq(S) : H[i][t] = IF i \in 1 .. n THEN t \o seqs[i] ELSE t OBVIOUS
      <3>7. \A i \in 2 .. n : f[i] = f[i - 1] \o seqs[i]
        <4> HIDE DEF H, n
        <4> QED BY <3>4, <3>5, <3>6
      <3> QED BY <3>3, <3>7
    <2>4. f = F(f)
      <3>1. \A i \in 1 .. n : i # 1 => i \in 2 .. n BY <2>1
      <3>2. \A i \in 1 .. n : f[i] = IF i = 1 THEN seqs[i] ELSE f[i - 1] \o seqs[i] BY <2>3, <3>1
      <3> QED BY <2>3, <3>2
    <2>5. flatten = F(flatten) BY <2>4
    <2> HIDE DEF flatten
    <2>6. \A i \in 1 .. n : flatten[i] = IF i = 1 THEN seqs[i] ELSE flatten[i - 1] \o seqs[i]
      BY <2>5
    <2> DEFINE Good == {k \in Nat : k + 1 \in 1 .. n =>
                            /\ flatten[k + 1] \in Seq(S)
                            /\ \A x : x \in ToSet(flatten[k + 1]) <=> \E i \in 1 .. k + 1 : x \in ToSet(seqs[i])
                            /\ Firsts(flatten[k + 1], k + 1)}
    <2> HIDE DEF Firsts
    <2>7. 0 \in Good
      <3>1. flatten[1] = seqs[1] BY <2>1, <2>6
      <3>2. \A i : i \in 1 .. 0 + 1 <=> i = 1 OBVIOUS
      <3>3. Firsts(flatten[1], 1)
        <4>1. 1 \in DOMAIN seqs /\ (\A i \in 1 .. 1 : i = 1) /\ \A i \in 1 .. 0 : FALSE BY <2>1
        <4>2. m \in Nat BY <2>1
        <4>3. (1 <= m) \/ m = 0 BY <4>2
        <4>4. m = 0 => ~(1 <= m) OBVIOUS
        <4> HIDE DEF n
        <4> QED BY <3>1, <4>1, <4>3, <4>4 DEF Firsts, OnesFirst
      <3> QED BY <2>1, <3>1, <3>2, <3>3
    <2>8. ASSUME NEW k \in Nat, k \in Good
          PROVE  k + 1 \in Good
      <3> SUFFICES ASSUME k + 2 \in 1 .. n
                   PROVE  /\ flatten[k + 2] \in Seq(S)
                          /\ \A x : x \in ToSet(flatten[k + 2]) <=> \E i \in 1 .. k + 2 : x \in ToSet(seqs[i])
                          /\ Firsts(flatten[k + 2], k + 2)
        <4>1. (k + 1) + 1 = k + 2 OBVIOUS
        <4> QED BY <4>1
      <3>1. k + 1 \in 1 .. n BY <2>1
      <3>2. /\ flatten[k + 1] \in Seq(S)
            /\ \A x : x \in ToSet(flatten[k + 1]) <=> \E i \in 1 .. k + 1 : x \in ToSet(seqs[i])
            /\ Firsts(flatten[k + 1], k + 1)
        BY <2>8, <3>1
      <3>3. flatten[k + 2] = flatten[k + 1] \o seqs[k + 2]
        <4>1. k + 2 # 1 /\ (k + 2) - 1 = k + 1 OBVIOUS
        <4> QED BY <2>6, <4>1
      <3>4. seqs[k + 2] \in Seq(S) BY <2>1
      <3>5. ToSet(flatten[k + 2]) = ToSet(flatten[k + 1]) \cup ToSet(seqs[k + 2])
        BY <3>2, <3>3, <3>4, JoinedSets
      <3>6. \A i : i \in 1 .. k + 2 <=> i \in 1 .. k + 1 \/ i = k + 2 OBVIOUS
      <3>7. \A x : x \in ToSet(flatten[k + 2]) <=> \E i \in 1 .. k + 2 : x \in ToSet(seqs[i])
        <4> HIDE DEF Good, n
        <4> QED BY <3>2, <3>5, <3>6
      <3>8. Firsts(flatten[k + 2], k + 2)
        <4> DEFINE t == flatten[k + 1]  u == seqs[k + 2]
        <4> SUFFICES ASSUME OnesFirst(seqs, m)
                     PROVE  /\ Len(t \o u) = IF k + 2 <= m THEN k + 2 ELSE m
                            /\ \A i \in 1 .. Len(t \o u) : (t \o u)[i] = seqs[i][1]
          BY <3>3 DEF Firsts
        <4>1. /\ Len(t) = IF k + 1 <= m THEN k + 1 ELSE m
              /\ \A i \in 1 .. Len(t) : t[i] = seqs[i][1]
          BY <3>2 DEF Firsts
        <4>2. Len(u) = IF k + 2 <= m THEN 1 ELSE 0 BY <2>1 DEF OnesFirst
        <4>3. t \in Seq(S) /\ u \in Seq(S) BY <3>2, <3>4
        <4>4. m \in Nat BY <2>1
        <4> HIDE DEF t, u, n, Good
        <4>5. Len(t \o u) = Len(t) + Len(u) BY <4>3
        <4>6. \A i \in 1 .. Len(t) : (t \o u)[i] = seqs[i][1] BY <4>1, <4>3
        <4>7. CASE k + 2 <= m
          <5>1. Len(t) = k + 1 /\ Len(u) = 1 /\ Len(t \o u) = k + 2 BY <4>1, <4>2, <4>4, <4>5, <4>7
          <5>2. (t \o u)[k + 2] = u[1]
            <6>1. k + 2 \in 1 .. Len(t) + Len(u) /\ ~(k + 2 <= Len(t)) /\ (k + 2) - Len(t) = 1 BY <5>1
            <6>2. (t \o u)[k + 2] = u[(k + 2) - Len(t)] BY <4>3, <6>1
            <6> QED BY <6>1, <6>2
          <5> QED BY <3>6, <4>6, <4>7, <5>1, <5>2 DEF u
        <4>8. CASE ~(k + 2 <= m)
          <5>1. Len(u) = 0 /\ Len(t) = m /\ Len(t \o u) = Len(t) BY <4>1, <4>2, <4>4, <4>5, <4>8
          <5> QED BY <4>6, <4>8, <5>1
        <4> QED BY <4>7, <4>8
      <3> QED BY <3>2, <3>3, <3>4, <3>7, <3>8
    <2> HIDE DEF Good
    <2>9. n - 1 \in Good
      <3>1. n - 1 \in Nat BY <2>1
      <3>2. Nat \subseteq Good BY <2>7, <2>8, Induction
      <3> QED BY <3>1, <3>2
    <2>10. (n - 1) + 1 = n /\ n \in 1 .. n BY <2>1
    <2>11. \A x : x \in ToSet(flatten[n]) <=> \E i \in 1 .. n : x \in ToSet(seqs[i])
      BY <2>9, <2>10 DEF Good
    <2>12. ToSet(flatten[n]) = UNION {ToSet(seqs[i]) : i \in DOMAIN seqs}
      <3> HIDE DEF n
      <3> QED BY <2>1, <2>11
    <2>13. Firsts(flatten[n], n) BY <2>9, <2>10 DEF Good
    <2>14. flatten[n] \in Seq(S) BY <2>9, <2>10 DEF Good
    <2>15. m \in 0 .. n /\ (n <= m => n = m)
      <3> HIDE DEF Firsts
      <3>1. m \in 0 .. n OBVIOUS
      <3>2. n \in Nat BY <2>1
      <3> HIDE DEF n
      <3> QED BY <3>1, <3>2
    <2> HIDE DEF Good, n
    <2>16. OnesFirst(seqs, m) => Len(flatten[n]) = m /\ \A i \in 1 .. m : flatten[n][i] = seqs[i][1]
      BY <2>13, <2>15 DEF Firsts
    <2> QED BY <2>2, <2>12, <2>14, <2>16
  <1> QED BY <1>1, <1>2

IsList(s) == s \in Seq(ToSet(s))

\* A list is a sequence of anything.
LEMMA ListFacts ==
    ASSUME NEW S, NEW s \in Seq(S)
    PROVE  /\ IsList(s) /\ ToSet(s) \subseteq S
           /\ Len(s) \in Nat /\ DOMAIN s = 1 .. Len(s)
  <1>1. Len(s) \in Nat /\ DOMAIN s = 1 .. Len(s) /\ \A i \in 1 .. Len(s) : s[i] \in S OBVIOUS
  <1>2. ToSet(s) \subseteq S BY <1>1 DEF ToSet
  <1>3. s = [i \in 1 .. Len(s) |-> s[i]] BY <1>1
  <1>4. \A i \in 1 .. Len(s) : s[i] \in ToSet(s) BY <1>1 DEF ToSet
  <1>5. s \in Seq(ToSet(s)) BY <1>1, <1>3, <1>4
  <1> QED BY <1>1, <1>2, <1>5 DEF IsList

\* A function on the places of a list is a list.
LEMMA MappedList ==
    ASSUME NEW s, IsList(s), NEW f, f = [i \in DOMAIN s |-> f[i]]
    PROVE  IsList(f) /\ Len(f) = Len(s) /\ ToSet(f) = {f[i] : i \in DOMAIN s}
  <1>1. Len(s) \in Nat /\ DOMAIN s = 1 .. Len(s) BY ListFacts DEF IsList
  <1> DEFINE S == {f[i] : i \in DOMAIN s}
  <1>2. \A i \in 1 .. Len(s) : f[i] \in S BY <1>1
  <1>3. DOMAIN f = DOMAIN s OBVIOUS
  <1> HIDE DEF S
  <1>4. f \in [1 .. Len(s) -> S] BY <1>1, <1>2
  <1>5. f \in Seq(S) BY <1>1, <1>4
  <1>6. Len(f) = Len(s) BY <1>1, <1>3, <1>5
  <1>7. IsList(f) BY <1>5, ListFacts
  <1>8. ToSet(f) = S BY <1>3 DEF ToSet, S
  <1> QED BY <1>6, <1>7, <1>8 DEF S

\* A list of lists, flattened.
LEMMA FlattenedList ==
    ASSUME NEW seqs, IsList(seqs), \A i \in DOMAIN seqs : IsList(seqs[i])
    PROVE  /\ IsList(FlattenSeq(seqs))
           /\ ToSet(FlattenSeq(seqs)) = UNION {ToSet(seqs[i]) : i \in DOMAIN seqs}
           /\ \A m \in 0 .. Len(seqs) : OnesFirst(seqs, m) =>
                /\ Len(FlattenSeq(seqs)) = m
                /\ \A i \in 1 .. m : FlattenSeq(seqs)[i] = seqs[i][1]
  <1> DEFINE S == UNION {ToSet(seqs[i]) : i \in DOMAIN seqs}
  <1>1. Len(seqs) \in Nat /\ DOMAIN seqs = 1 .. Len(seqs) BY ListFacts DEF IsList
  <1>2. ASSUME NEW i \in DOMAIN seqs
        PROVE  seqs[i] \in Seq(S)
    <2>1. ToSet(seqs[i]) \subseteq S BY <1>2
    <2>2. seqs[i] \in Seq(ToSet(seqs[i])) BY DEF IsList
    <2> HIDE DEF S
    <2> QED BY <2>1, <2>2, SeqMonotonic
  <1>3. seqs = [i \in 1 .. Len(seqs) |-> seqs[i]] BY <1>1 DEF IsList
  <1> HIDE DEF S
  <1>4. seqs \in Seq(Seq(S)) BY <1>1, <1>2, <1>3
  <1>5. FlattenSeq(seqs) \in Seq(S) /\ ToSet(FlattenSeq(seqs)) = S
    <2>1. 0 \in 0 .. Len(seqs) BY <1>1
    <2> QED BY <1>4, <2>1, Flattened DEF S
  <1>6. \A m \in 0 .. Len(seqs) : OnesFirst(seqs, m) =>
            Len(FlattenSeq(seqs)) = m /\ \A i \in 1 .. m : FlattenSeq(seqs)[i] = seqs[i][1]
    BY <1>4, Flattened
  <1> QED BY <1>5, <1>6, ListFacts DEF S

\* Lists of no and of one element, and two lists one after the other.
LEMMA SmallLists ==
    /\ IsList(<<>>) /\ ToSet(<<>>) = {}
    /\ \A x : IsList(<<x>>) /\ ToSet(<<x>>) = {x}
    /\ \A x, y : IsList(<<x, y>>) /\ ToSet(<<x, y>>) = {x, y}
    /\ \A s, t : IsList(s) /\ IsList(t) =>
            IsList(s \o t) /\ Len(s \o t) = Len(s) + Len(t) /\ ToSet(s \o t) = ToSet(s) \cup ToSet(t)
  <1>1. IsList(<<>>) /\ ToSet(<<>>) = {} BY DEF IsList, ToSet
  <1>2. ASSUME NEW x PROVE IsList(<<x>>) /\ ToSet(<<x>>) = {x}
    <2>1. ToSet(<<x>>) = {x} BY DEF ToSet
    <2> QED BY <2>1 DEF IsList
  <1>3. ASSUME NEW x, NEW y PROVE IsList(<<x, y>>) /\ ToSet(<<x, y>>) = {x, y}
    <2>1. ToSet(<<x, y>>) = {x, y} BY DEF ToSet
    <2> QED BY <2>1 DEF IsList
  <1>4. ASSUME NEW s, NEW t, IsList(s), IsList(t)
        PROVE  IsList(s \o t) /\ Len(s \o t) = Len(s) + Len(t) /\ ToSet(s \o t) = ToSet(s) \cup ToSet(t)
    <2> DEFINE S == ToSet(s) \cup ToSet(t)
    <2>1. ToSet(s) \subseteq S /\ ToSet(t) \subseteq S OBVIOUS
    <2>2. s \in Seq(ToSet(s)) /\ t \in Seq(ToSet(t)) BY <1>4 DEF IsList
    <2> HIDE DEF S
    <2>3. s \in Seq(S) /\ t \in Seq(S) BY <2>1, <2>2, SeqMonotonic
    <2>4. s \o t \in Seq(S) /\ Len(s \o t) = Len(s) + Len(t) BY <2>3
    <2>5. ToSet(s \o t) = S BY <2>3, JoinedSets DEF S
    <2> QED BY <2>4, <2>5, ListFacts DEF S
  <1> QED BY <1>1, <1>2, <1>3, <1>4
-----------------------------------------------------------------------------
(* Lemmas about strings.                                                   *)

\* What a string is.
LEMMA StringFacts ==
    ASSUME NEW s
    PROVE  IsString(s) <=> IsList(s) /\ \A part \in ToSet(s) : part[1] \in {"text", "token"}
  BY DEF IsString, IsList, ToSet

\* Expanding makes a string of as many parts, without tokens unless unknown ones
\* are kept.
LEMMA ExpandFacts ==
    ASSUME NEW s, IsString(s), NEW env, NEW keep
    PROVE  LET e == Expand(s, env, keep) IN
           IsString(e) /\ Len(e) = Len(s) /\ (keep = FALSE => ~HasTokens(e))
  <1> DEFINE e == Expand(s, env, keep)
  <1>1. e = [i \in DOMAIN s |-> e[i]] BY DEF Expand
  <1>2. IsList(s) BY StringFacts
  <1>3. ASSUME NEW i \in DOMAIN s
        PROVE  e[i][1] \in {"text", "token"} /\ (keep = FALSE => e[i][1] = "text")
    <2>1. e[i] = MappingFunc(s[i], env, keep) BY DEF Expand
    <2>2. s[i][1] \in {"text", "token"} BY DEF IsString
    <2>3. \A x : Text(x)[1] = "text" BY DEF Text
    <2>4. CASE s[i][1] = "text"
      <3>1. e[i] = s[i] BY <2>1, <2>4 DEF MappingFunc
      <3> QED BY <2>4, <3>1
    <2>5. CASE s[i][1] = "token"
      <3>1. CASE s[i][2] \in DOMAIN env BY <2>1, <2>3, <2>5, <3>1 DEF MappingFunc
      <3>2. CASE s[i][2] \notin DOMAIN env BY <2>1, <2>3, <2>5, <3>2 DEF MappingFunc
      <3> QED BY <3>1, <3>2
    <2> QED BY <2>2, <2>4, <2>5
  <1>4. IsList(e) /\ Len(e) = Len(s) /\ ToSet(e) = {e[i] : i \in DOMAIN s} /\ DOMAIN e = DOMAIN s
    <2>1. DOMAIN e = DOMAIN s BY <1>1
    <2> HIDE DEF e
    <2> QED BY <1>1, <1>2, <2>1, MappedList
  <1> HIDE DEF e
  <1>5. \A part \in ToSet(e) : part[1] \in {"text", "token"} BY <1>3, <1>4
  <1>6. keep = FALSE => ~HasTokens(e) BY <1>3, <1>4 DEF HasTokens
  <1> QED BY <1>4, <1>5, <1>6, StringFacts DEF e

\* The parts of two strings make a string.
LEMMA JoinedString ==
    ASSUME NEW s, NEW t, IsString(s), IsString(t)
    PROVE  IsString(s \o t) /\ Len(s \o t) = Len(s) + Len(t)
  BY SmallLists, StringFacts
-----------------------------------------------------------------------------
(* Lemmas about tags.                                                      *)

\* Maps laid over one another.
LEMMA OverFacts ==
    /\ \A f, g : DOMAIN Over(f, g) = DOMAIN f \cup DOMAIN g
    /\ \A f, g : \A k \in DOMAIN f : Over(f, g)[k] = f[k]
    /\ \A f, g, h : Over(Over(f, g), h) = Over(f, Over(g, h))
  <1>1. \A f, g : DOMAIN Over(f, g) = DOMAIN f \cup DOMAIN g BY DEF Over
  <1>2. \A f, g : \A k \in DOMAIN f : Over(f, g)[k] = f[k] BY DEF Over
  <1>3. ASSUME NEW f, NEW g, NEW h
        PROVE  Over(Over(f, g), h) = Over(f, Over(g, h))
    <2> DEFINE K == (DOMAIN f \cup DOMAIN g) \cup DOMAIN h
               all == [k \in K |-> IF k \in DOMAIN f THEN f[k] ELSE IF k \in DOMAIN g THEN g[k] ELSE h[k]]
    <2>1. Over(Over(f, g), h) = all
      <3>1. Over(Over(f, g), h) = [k \in K |-> IF k \in DOMAIN f \cup DOMAIN g THEN Over(f, g)[k] ELSE h[k]]
        BY <1>1 DEF Over
      <3>2. \A k \in DOMAIN f \cup DOMAIN g : Over(f, g)[k] = IF k \in DOMAIN f THEN f[k] ELSE g[k]
        BY DEF Over
      <3> QED BY <3>1, <3>2
    <2>2. Over(f, Over(g, h)) = all
      <3>1. DOMAIN f \cup DOMAIN Over(g, h) = K
        <4>1. DOMAIN Over(g, h) = DOMAIN g \cup DOMAIN h BY <1>1
        <4> QED BY <4>1
      <3>2. Over(f, Over(g, h)) = [k \in K |-> IF k \in DOMAIN f THEN f[k] ELSE Over(g, h)[k]]
        <4>1. Over(f, Over(g, h)) = [k \in DOMAIN f \cup DOMAIN Over(g, h) |->
                                        IF k \in DOMAIN f THEN f[k] ELSE Over(g, h)[k]]
          BY DEF Over
        <4> HIDE DEF K
        <4> QED BY <3>1, <4>1
      <3>3. \A k \in DOMAIN g \cup DOMAIN h : Over(g, h)[k] = IF k \in DOMAIN g THEN g[k] ELSE h[k]
        BY DEF Over
      <3> QED BY <3>2, <3>3
    <2> QED BY <2>1, <2>2
  <1> QED BY <1>1, <1>2, <1>3
-----------------------------------------------------------------------------
(* The JSON collector: what of the metrics that the walk sends reaches the *)
(* list its goroutine makes and the list CollectMetrics returns.  For any  *)
(* documents of any depth, and any order of the walk.                      *)

\* What the goroutine has handled of what was sent.
Handled == IF receiver.pc = "append" THEN SubSeq(sent, 1, Len(sent) - 1) ELSE sent

\* No two places of the list have the same ID and tags.
EachOnce(list) == \A i, j \in 1..Len(list) : list[i].key = list[j].key => i = j
-----------------------------------------------------------------------------
(* The inductive invariant of the JSON collector.                          *)

Lists == IsList(sent) /\ IsList(metrics) /\ IsList(returned)

\* The goroutine runs since the walk began, and ends no sooner than the channel
\* was closed; then nothing is left to be sent.
Phases ==
    /\ monitored \in MonitoredSets
    /\ collector \in {"scrape", "failed", "walk", "panicked", "return", "returned"}
    /\ DOMAIN receiver = {"pc", "metric"}
    /\ receiver.pc \in {"none", "receive", "append", "ended"}
    /\ collector \in {"scrape", "failed"} <=> receiver.pc = "none"
    /\ closed \in BOOLEAN /\ (closed <=> collector \in {"return", "returned"})
    /\ closed => stack = <<>> /\ outbox = <<>>
    /\ receiver.pc = "ended" => closed

\* The list has the metrics that were handled, the first of each key.
Gathering ==
    /\ receiver.pc = "none" => sent = <<>>
    /\ receiver.pc = "append" => sent # <<>> /\ receiver.metric = sent[Len(sent)]
    /\ Keys(metrics) = Keys(Handled)
    /\ ToSet(metrics) \subseteq ToSet(sent)
    /\ EachOnce(metrics)

Returning ==
    /\ ToSet(returned) \subseteq ToSet(sent) \cup {Blank}
    /\ OnlyTheLastIsLost

JSONInv == Lists /\ Phases /\ Gathering /\ Returning
-----------------------------------------------------------------------------
(* Lemmas about its lists.                                                 *)

\* A list with one more element.
LEMMA Appended ==
    ASSUME NEW list, list \in Seq(ToSet(list)), NEW m
    PROVE  LET longer == Append(list, m) IN
           /\ longer \in Seq(ToSet(longer)) /\ longer # <<>>
           /\ Len(longer) = Len(list) + 1 /\ longer[Len(longer)] = m
           /\ SubSeq(longer, 1, Len(longer) - 1) = list
           /\ \A i \in 1..Len(list) : longer[i] = list[i]
           /\ ToSet(longer) = ToSet(list) \cup {m}
           /\ Keys(longer) = Keys(list) \cup {m.key}
  <1> DEFINE S == ToSet(list) \cup {m}  longer == Append(list, m)
  <1>1. list \in Seq(S) BY SeqMonotonic
  <1>2. /\ longer \in Seq(S) /\ Len(longer) = Len(list) + 1 /\ longer[Len(longer)] = m
        /\ \A i \in 1..Len(list) : longer[i] = list[i]
        /\ Len(list) \in Nat
        /\ DOMAIN list = 1..Len(list) /\ DOMAIN longer = 1..Len(longer)
    <2> HIDE DEF S
    <2>1. m \in S BY DEF S
    <2> QED BY <1>1, <2>1
  <1> HIDE DEF longer
  <1>3. ToSet(longer) = S
    <2>1. \A i \in DOMAIN longer : i \in DOMAIN list \/ i = Len(longer) BY <1>2
    <2>2. DOMAIN list \subseteq DOMAIN longer /\ Len(longer) \in DOMAIN longer BY <1>2
    <2> QED BY <1>2, <2>1, <2>2 DEF ToSet
  <1>4. Keys(longer) = Keys(list) \cup {m.key} BY <1>3 DEF Keys
  <1>5. SubSeq(longer, 1, Len(longer) - 1) = list
    <2>1. Len(longer) - 1 = Len(list) BY <1>2
    <2>2. SubSeq(longer, 1, Len(list)) = list
      <3> HIDE DEF S
      <3>1. \A i \in 1..Len(list) : longer[i] \in S BY <1>1, <1>2
      <3>2. /\ SubSeq(longer, 1, Len(list)) \in Seq(S)
            /\ Len(SubSeq(longer, 1, Len(list))) = Len(list)
            /\ \A i \in 1..Len(list) : SubSeq(longer, 1, Len(list))[i] = longer[i]
        BY <1>2, <3>1
      <3> QED BY <1>1, <1>2, <3>2, SeqEqual
    <2> QED BY <2>1, <2>2
  <1>6. longer # <<>> BY <1>2
  <1>7. longer \in Seq(ToSet(longer)) BY <1>2, <1>3
  <1> QED BY <1>2, <1>3, <1>4, <1>5, <1>6, <1>7 DEF longer

\* The keys of a list are those of what comes before its last element, and that
\* of the last.
LEMMA KeysUpToLast ==
    ASSUME NEW list, list \in Seq(ToSet(list)), list # <<>>
    PROVE  Keys(list) = Keys(SubSeq(list, 1, Len(list) - 1)) \cup {list[Len(list)].key}
  <1> DEFINE S == ToSet(list)  n == Len(list)  front == SubSeq(list, 1, n - 1)
  <1>1. n \in Nat \ {0} /\ DOMAIN list = 1..n OBVIOUS
  <1>2. DOMAIN front = 1..(n - 1) /\ \A i \in 1..(n - 1) : front[i] = list[i]
    <2> HIDE DEF S
    <2> QED BY <1>1
  <1> HIDE DEF front, n
  <1>3. \A i \in DOMAIN list : i \in DOMAIN front \/ i = n BY <1>1, <1>2
  <1>4. DOMAIN front \subseteq DOMAIN list /\ n \in DOMAIN list BY <1>1, <1>2
  <1>5. ToSet(list) = ToSet(front) \cup {list[n]} BY <1>2, <1>3, <1>4 DEF ToSet
  <1> QED BY <1>5 DEF Keys, front, n

\* A new key is put behind the others.
LEMMA OnceMore ==
    ASSUME NEW list, list \in Seq(ToSet(list)), EachOnce(list), NEW m, m.key \notin Keys(list)
    PROVE  EachOnce(Append(list, m))
  <1> DEFINE longer == Append(list, m)
  <1>1. /\ Len(longer) = Len(list) + 1 /\ longer[Len(longer)] = m
        /\ \A i \in 1..Len(list) : longer[i] = list[i]
    BY Appended
  <1>2. Len(list) \in Nat /\ DOMAIN list = 1..Len(list) OBVIOUS
  <1>3. \A i \in 1..Len(list) : list[i].key # m.key BY <1>2 DEF Keys, ToSet
  <1> HIDE DEF longer
  <1>4. \A i \in 1..Len(longer) : i \in 1..Len(list) \/ i = Len(longer) BY <1>1, <1>2
  <1>5. ASSUME NEW i \in 1..Len(longer), NEW j \in 1..Len(longer), longer[i].key = longer[j].key
        PROVE  i = j
    <2>1. CASE i \in 1..Len(list) /\ j \in 1..Len(list) BY <1>1, <1>5, <2>1 DEF EachOnce
    <2>2. CASE i \in 1..Len(list) /\ j = Len(longer) BY <1>1, <1>3, <1>5, <2>2
    <2>3. CASE i = Len(longer) /\ j \in 1..Len(list) BY <1>1, <1>3, <1>5, <2>3
    <2> QED BY <1>4, <2>1, <2>2, <2>3
  <1> QED BY <1>5 DEF EachOnce, longer
-----------------------------------------------------------------------------
(* Its steps.                                                              *)

\* The walk: nothing is sent, or gathered, but the channel may be closed.
WalkSteps == processJSON \/ LoopEnds \/ Panic \/ Close

\* At first nothing is scraped, sent or gathered.
LEMMA JSONInitially == JSONInit => JSONInv
  <1> SUFFICES ASSUME JSONInit PROVE JSONInv
    OBVIOUS
  <1>1. ToSet(<<>>) = {} /\ Keys(<<>>) = {} BY DEF ToSet, Keys
  <1>2. Lists BY EmptySeq DEF JSONInit, Lists, IsList
  <1>3. Phases BY DEF JSONInit, Phases
  <1>4. Handled = <<>> BY DEF JSONInit, Handled
  <1>5. Gathering BY <1>1, <1>4 DEF JSONInit, Gathering, EachOnce
  <1>6. Returning BY <1>1 DEF JSONInit, Returning, OnlyTheLastIsLost
  <1> QED BY <1>2, <1>3, <1>5, <1>6 DEF JSONInv

\* Scraping, and the steps of the walk, leave all lists as they are.
LEMMA WalkKeeps ==
    ASSUME JSONInv, ScrapeFails \/ Scrape \/ WalkSteps
    PROVE  JSONInv'
  <1>1. UNCHANGED <<monitored, sent, metrics, returned>>
    BY DEF ScrapeFails, Scrape, WalkSteps, processJSON, LoopEnds, Panic, Close
  <1>2. Lists' BY <1>1 DEF JSONInv, Lists
  <1>3. collector' # "returned" /\ collector # "returned"
    BY DEF ScrapeFails, Scrape, WalkSteps, processJSON, LoopEnds, Panic, Close
  <1>4. /\ Phases'
        /\ receiver' = receiver \/ (receiver.pc = "none" /\ receiver'.pc = "receive")
    <2> USE DEF JSONInv, Phases
    <2>1. CASE ScrapeFails BY <2>1 DEF ScrapeFails
    <2>2. CASE Scrape
      <3>1. DOMAIN receiver' = {"pc", "metric"} /\ receiver'.pc = "receive" BY <2>2 DEF Scrape
      <3> QED BY <2>2, <3>1 DEF Scrape
    <2>3. CASE processJSON BY <2>3 DEF processJSON
    <2>4. CASE LoopEnds BY <2>4 DEF LoopEnds
    <2>5. CASE Panic BY <2>5 DEF Panic
    <2>6. CASE Close BY <2>6 DEF Close
    <2> QED BY <2>1, <2>2, <2>3, <2>4, <2>5, <2>6 DEF WalkSteps
  <1>5. Handled' = Handled BY <1>1, <1>4 DEF Handled
  <1>6. Gathering' BY <1>1, <1>4, <1>5 DEF JSONInv, Gathering, EachOnce, Keys
  <1>7. Returning' BY <1>1, <1>3 DEF JSONInv, Returning, OnlyTheLastIsLost
  <1> QED BY <1>2, <1>4, <1>6, <1>7 DEF JSONInv

\* What is sent is the last, and the only one the goroutine has not handled.
LEMMA SendKeeps ==
    ASSUME JSONInv, Send
    PROVE  JSONInv'
  <1> DEFINE m == Head(outbox)
  <1>1. /\ sent' = Append(sent, m) /\ receiver' = [pc |-> "append", metric |-> m]
        /\ UNCHANGED <<monitored, document, collector, stack, closed, metrics, returned>>
        /\ collector = "walk" /\ receiver.pc = "receive"
    BY DEF Send
  <1> HIDE DEF m
  <1>2. sent \in Seq(ToSet(sent)) BY DEF JSONInv, Lists, IsList
  <1>3. /\ sent' \in Seq(ToSet(sent')) /\ sent' # <<>> /\ sent'[Len(sent')] = m
        /\ SubSeq(sent', 1, Len(sent') - 1) = sent
        /\ ToSet(sent') = ToSet(sent) \cup {m}
    BY <1>1, <1>2, Appended
  <1>4. Lists' BY <1>1, <1>3 DEF JSONInv, Lists, IsList
  <1>5. Phases' BY <1>1 DEF JSONInv, Phases
  <1>6. Handled' = sent /\ Handled = sent BY <1>1, <1>3 DEF Handled
  <1>7. Gathering' BY <1>1, <1>3, <1>6 DEF JSONInv, Gathering, EachOnce, Keys
  <1>8. Returning' BY <1>1, <1>3 DEF JSONInv, Returning, OnlyTheLastIsLost
  <1> QED BY <1>4, <1>5, <1>7, <1>8 DEF JSONInv

\* The goroutine appends what it received, or has its key already.
LEMMA GatherKeeps ==
    ASSUME JSONInv, Gather
    PROVE  JSONInv'
  <1> DEFINE m == receiver.metric
  <1>1. /\ receiver.pc = "append" /\ receiver' = [receiver EXCEPT !.pc = "receive"]
        /\ metrics' = IF m.key \notin Keys(metrics) THEN Append(metrics, m) ELSE metrics
        /\ UNCHANGED <<monitored, document, collector, stack, outbox, closed, returned, sent>>
    BY DEF Gather, IsNew
  <1>2. sent # <<>> /\ m = sent[Len(sent)] BY <1>1 DEF JSONInv, Gathering
  <1>3. receiver'.pc = "receive" BY <1>1 DEF JSONInv, Phases
  <1>4. Keys(sent) = Keys(metrics) \cup {m.key}
    BY <1>1, <1>2, KeysUpToLast DEF JSONInv, Lists, Gathering, Handled, IsList
  <1>5. m \in ToSet(sent)
    <2>1. Len(sent) \in DOMAIN sent BY <1>2 DEF JSONInv, Lists
    <2> QED BY <1>2, <2>1 DEF ToSet
  <1> HIDE DEF m
  <1>6. /\ metrics' \in Seq(ToSet(metrics')) /\ Keys(metrics') = Keys(metrics) \cup {m.key}
        /\ ToSet(metrics') \subseteq ToSet(sent) /\ EachOnce(metrics')
    <2>1. CASE m.key \in Keys(metrics) BY <1>1, <2>1 DEF JSONInv, Lists, Gathering, IsList
    <2>2. CASE m.key \notin Keys(metrics)
      BY <1>1, <1>5, <2>2, Appended, OnceMore DEF JSONInv, Lists, Gathering, IsList
    <2> QED BY <2>1, <2>2
  <1>7. Lists' BY <1>1, <1>6 DEF JSONInv, Lists, IsList
  <1>8. Phases' BY <1>1, <1>3 DEF JSONInv, Phases
  <1>9. Handled' = sent BY <1>1, <1>3 DEF Handled
  <1>10. Gathering' BY <1>1, <1>3, <1>4, <1>6, <1>9 DEF Gathering, EachOnce, Keys
  <1>11. Returning' BY <1>1 DEF JSONInv, Returning, OnlyTheLastIsLost
  <1> QED BY <1>7, <1>8, <1>10, <1>11 DEF JSONInv

\* The goroutine ends after it has handled everything.
LEMMA ReceiverEndsKeeps ==
    ASSUME JSONInv, ReceiverEnds
    PROVE  JSONInv'
  <1>1. /\ receiver.pc = "receive" /\ closed /\ receiver' = [receiver EXCEPT !.pc = "ended"]
        /\ UNCHANGED <<monitored, document, collector, stack, outbox, closed, metrics, returned, sent>>
    BY DEF ReceiverEnds
  <1>2. receiver'.pc = "ended" /\ DOMAIN receiver' = DOMAIN receiver BY <1>1 DEF JSONInv, Phases
  <1>3. Handled' = Handled BY <1>1, <1>2 DEF Handled
  <1>4. Lists' BY <1>1 DEF JSONInv, Lists
  <1>5. Phases' BY <1>1, <1>2 DEF JSONInv, Phases
  <1>6. Gathering' BY <1>1, <1>2, <1>3 DEF JSONInv, Gathering, EachOnce, Keys
  <1>7. Returning' BY <1>1 DEF JSONInv, Returning, OnlyTheLastIsLost
  <1> QED BY <1>4, <1>5, <1>6, <1>7 DEF JSONInv

\* Whatever the reader finds while the goroutine writes, it has what was handled.
LEMMA ReturnKeeps ==
    ASSUME JSONInv, Return
    PROVE  JSONInv'
  <1>1. /\ collector = "return" /\ collector' = "returned" /\ returned' \in Readable
        /\ UNCHANGED <<monitored, document, stack, outbox, closed, receiver, metrics, sent>>
    BY DEF Return
  <1>2. sent \in Seq(ToSet(sent)) /\ metrics \in Seq(ToSet(metrics)) BY DEF JSONInv, Lists, IsList
  <1>3. /\ Keys(metrics) \subseteq Keys(returned') /\ ToSet(returned') \subseteq ToSet(sent) \cup {Blank}
        /\ IsList(returned')
    <2>1. CASE returned' = metrics BY <2>1 DEF JSONInv, Lists, Gathering
    <2>2. ASSUME IsNew, NEW m \in {receiver.metric, Blank}, returned' = Append(metrics, m)
          PROVE  /\ Keys(metrics) \subseteq Keys(returned') /\ ToSet(returned') \subseteq ToSet(sent) \cup {Blank}
                 /\ IsList(returned')
      <3>1. /\ ToSet(returned') = ToSet(metrics) \cup {m}
            /\ Keys(returned') = Keys(metrics) \cup {m.key}
            /\ IsList(returned')
        BY <1>2, <2>2, Appended DEF IsList
      <3>2. sent # <<>> /\ receiver.metric = sent[Len(sent)] BY <2>2 DEF JSONInv, Gathering, IsNew
      <3>3. Len(sent) \in DOMAIN sent BY <1>2, <3>2
      <3>4. receiver.metric \in ToSet(sent) BY <3>2, <3>3 DEF ToSet
      <3> QED BY <3>1, <3>4 DEF JSONInv, Gathering
    <2> QED BY <1>1, <2>1, <2>2 DEF Readable
  <1>4. Keys(SubSeq(sent, 1, Len(sent) - 1)) \subseteq Keys(Handled)
    <2>1. CASE receiver.pc = "append" BY <2>1 DEF Handled
    <2>2. CASE receiver.pc # "append" /\ sent # <<>> BY <1>2, <2>2, KeysUpToLast DEF Handled
    <2>3. CASE receiver.pc # "append" /\ sent = <<>>
      <3>1. SubSeq(sent, 1, Len(sent) - 1) = <<>>
        <4>1. Len(sent) - 1 \in Int /\ Len(sent) - 1 < 1 BY <2>3
        <4> QED BY <4>1, SubSeqEmpty
      <3> QED BY <2>3, <3>1 DEF Handled
    <2> QED BY <2>1, <2>2, <2>3
  <1>5. Lists' BY <1>1, <1>3 DEF JSONInv, Lists, IsList
  <1>6. Phases' BY <1>1 DEF JSONInv, Phases
  <1>7. Handled' = Handled BY <1>1 DEF Handled
  <1>8. Gathering' BY <1>1, <1>7 DEF JSONInv, Gathering, EachOnce, Keys
  <1>9. Returning' BY <1>1, <1>3, <1>4 DEF JSONInv, Gathering, Returning, OnlyTheLastIsLost
  <1> QED BY <1>5, <1>6, <1>8, <1>9 DEF JSONInv

\* Every step keeps the invariant.
LEMMA JSONStepKeeps ==
    ASSUME JSONInv, [JSONNext]_jsonVars
    PROVE  JSONInv'
  <1>1. CASE UNCHANGED jsonVars
    <2>1. Handled' = Handled BY <1>1 DEF jsonVars, Handled
    <2>2. Lists' /\ Phases' BY <1>1 DEF jsonVars, JSONInv, Lists, Phases
    <2>3. Gathering' BY <1>1, <2>1 DEF jsonVars, JSONInv, Gathering, EachOnce, Keys
    <2>4. Returning' BY <1>1 DEF jsonVars, JSONInv, Returning, OnlyTheLastIsLost
    <2> QED BY <2>2, <2>3, <2>4 DEF JSONInv
  <1>2. CASE ScrapeFails \/ Scrape \/ WalkSteps BY <1>2, WalkKeeps
  <1>3. CASE Return BY <1>3, ReturnKeeps
  <1>4. CASE Send BY <1>4, SendKeeps
  <1>5. CASE Gather BY <1>5, GatherKeeps
  <1>6. CASE ReceiverEnds BY <1>6, ReceiverEndsKeeps
  <1> QED BY <1>1, <1>2, <1>3, <1>4, <1>5, <1>6 DEF JSONNext, Walk, WalkSteps, Receive

\* The invariant holds in every behaviour.
LEMMA JSONInvariant == JSONSpec => []JSONInv
  BY JSONInitially, JSONStepKeeps, PTL DEF JSONSpec
-----------------------------------------------------------------------------
(* Theorems about the JSON collector.                                      *)

\* Nothing is left to be sent when the channel is closed, and what is gathered
\* or returned was sent, or is a place that is not written yet.
THEOREM JSONTypeCorrect == JSONSpec => []JSONTypeOK
  <1>1. JSONInv => JSONTypeOK BY DEF JSONInv, Phases, Gathering, Returning, JSONTypeOK
  <1> QED BY <1>1, JSONInvariant, PTL

\* CollectMetrics loses nothing but the last metric that it sent.
THEOREM OnlyTheLastIsLostHolds == JSONSpec => []OnlyTheLastIsLost
  <1>1. JSONInv => OnlyTheLastIsLost BY DEF JSONInv, Returning
  <1> QED BY <1>1, JSONInvariant, PTL

\* The goroutine loses nothing: when it has ended, its list has each ID and tags
\* that were sent, once.
THEOREM AllIsGatheredOnce ==
    JSONSpec => [](receiver.pc = "ended" => Keys(metrics) = Keys(sent) /\ EachOnce(metrics))
  <1>1. JSONInv => (receiver.pc = "ended" => Keys(metrics) = Keys(sent) /\ EachOnce(metrics))
    BY DEF JSONInv, Gathering, Handled
  <1> QED BY <1>1, JSONInvariant, PTL
-----------------------------------------------------------------------------
(* The Jolokia collector returns lists.                                    *)

\* The values below a value: those of the fields of the maps one level above.
LEMMA BelowFacts ==
    ASSUME NEW v
    PROVE  /\ Below(v)[0] = {v}
           /\ \A n \in 0 .. Nesting + 1 : \A x \in Below(v)[n] :
                x.kind = "map" => \A i \in DOMAIN x.fields : x.fields[i][2] \in Below(v)[n + 1]
  <1> DEFINE next(s) == UNION {{f[2] : f \in ToSet(x.fields)} : x \in {y \in s : y.kind = "map"}}
             F(f, k) == [n \in 0 .. k |-> IF n = 0 THEN {v} ELSE next(f[n - 1])]
             Good == {k \in Nat : \E f : f = F(f, k)}
             below == CHOOSE f : f = F(f, Nesting + 2)
  <1>1. Below(v) = below BY DEF Below
  <1> HIDE DEF next
  <1>2. 0 \in Good
    <2>1. [n \in 0 .. 0 |-> {v}] = F([n \in 0 .. 0 |-> {v}], 0) OBVIOUS
    <2> QED BY <2>1
  <1>3. ASSUME NEW k \in Nat, k \in Good
        PROVE  k + 1 \in Good
    <2>1. PICK f : f = F(f, k) BY <1>3
    <2> DEFINE g == [n \in 0 .. k + 1 |-> IF n = k + 1 THEN next(f[k]) ELSE f[n]]
    <2>2. \A n \in 0 .. k + 1 : g[n] = IF n = 0 THEN {v} ELSE next(g[n - 1])
      <3> SUFFICES ASSUME NEW n \in 0 .. k + 1 PROVE g[n] = IF n = 0 THEN {v} ELSE next(g[n - 1])
        OBVIOUS
      <3>1. CASE n = k + 1
        <4>1. g[n] = next(f[k]) /\ n # 0 /\ n - 1 = k /\ k \in 0 .. k + 1 /\ k # k + 1 BY <3>1
        <4>2. g[k] = f[k] BY <4>1
        <4> QED BY <4>1, <4>2
      <3>2. CASE n # k + 1 /\ n # 0
        <4>1. n \in 0 .. k /\ n - 1 \in 0 .. k + 1 /\ n - 1 # k + 1 BY <3>2
        <4>2. g[n] = f[n] /\ g[n - 1] = f[n - 1] BY <3>2, <4>1
        <4>3. f[n] = next(f[n - 1]) BY <2>1, <3>2, <4>1
        <4> QED BY <3>2, <4>2, <4>3
      <3>3. CASE n = 0
        <4>1. n \in 0 .. k /\ n # k + 1 BY <3>3
        <4> QED BY <2>1, <3>3, <4>1
      <3> QED BY <3>1, <3>2, <3>3
    <2>3. g = F(g, k + 1)
      <3>1. g = [n \in 0 .. k + 1 |-> g[n]] OBVIOUS
      <3> HIDE DEF g
      <3> QED BY <2>2, <3>1
    <2> HIDE DEF g, F
    <2> QED BY <2>3
  <1> HIDE DEF Good, F
  <1>4. Nesting + 2 \in Nat BY JolokiaConstants
  <1>5. \E f : f = F(f, Nesting + 2)
    <2>1. Nesting + 2 \in Good BY <1>2, <1>3, <1>4, Induction
    <2> QED BY <2>1 DEF Good
  <1>6. below = F(below, Nesting + 2) BY <1>5
  <1> HIDE DEF below
  <1>7. \A n \in 0 .. Nesting + 2 : below[n] = IF n = 0 THEN {v} ELSE next(below[n - 1])
    BY <1>6 DEF F
  <1>8. 0 \in 0 .. Nesting + 2 BY JolokiaConstants
  <1>9. ASSUME NEW n \in 0 .. Nesting + 1, NEW x \in below[n], x.kind = "map", NEW i \in DOMAIN x.fields
        PROVE  x.fields[i][2] \in below[n + 1]
    <2>1. n + 1 \in 0 .. Nesting + 2 /\ n + 1 # 0 /\ (n + 1) - 1 = n BY JolokiaConstants
    <2>2. below[n + 1] = next(below[n]) BY <1>7, <2>1
    <2>3. x.fields[i] \in ToSet(x.fields) BY DEF ToSet
    <2> QED BY <1>9, <2>2, <2>3 DEF next
  <1> QED BY <1>1, <1>7, <1>8, <1>9

\* A map that is at most as deep in an answer as composite attributes are.
IsMap(a, k, v) ==
    /\ IsAnswer(a) /\ a.kind # "error"
    /\ v \in Below(a)[k] /\ v.kind = "map"

\* The fields of a map are a list, and their values are one level further down.
LEMMA MapFacts ==
    ASSUME NEW a, NEW k \in 0 .. Nesting + 2, NEW v, IsMap(a, k, v)
    PROVE  /\ IsList(v.fields)
           /\ k # Nesting + 2 => \A i \in DOMAIN v.fields : v.fields[i][2] \in Below(a)[k + 1]
  <1>1. IsList(v.fields) BY DEF IsMap, IsAnswer, IsList
  <1>2. k # Nesting + 2 => k \in 0 .. Nesting + 1 BY JolokiaConstants
  <1> QED BY <1>1, <1>2, BelowFacts DEF IsMap

\* The place of the last map is 0 or that of a map.
LEMMA LastMapFacts ==
    ASSUME NEW v, IsList(v.fields), LastMap(v) # 0
    PROVE  LastMap(v) \in DOMAIN v.fields /\ v.fields[LastMap(v)][2].kind = "map"
  <1> DEFINE S == {0} \cup {i \in DOMAIN v.fields : v.fields[i][2].kind = "map"}
  <1>1. Len(v.fields) \in Nat /\ DOMAIN v.fields = 1 .. Len(v.fields) BY ListFacts DEF IsList
  <1>2. S \in SUBSET (0 .. Len(v.fields)) /\ S # {} BY <1>1
  <1> HIDE DEF S
  <1>3. Max(S) \in S BY <1>1, <1>2, MaxIsIn
  <1>4. LastMap(v) = Max(S) BY DEF LastMap, S
  <1> QED BY <1>3, <1>4 DEF S

\* Points that are given tags remain a list.
LEMMA PutTagsList ==
    ASSUME NEW points, IsList(points), NEW tags
    PROVE  IsList(PutTags(points, tags))
  <1> DEFINE f == PutTags(points, tags)
  <1>1. f = [i \in DOMAIN points |-> f[i]] BY DEF PutTags
  <1> HIDE DEF f
  <1>2. IsList(f) BY <1>1, MappedList
  <1> QED BY <1>2 DEF f

\* The metrics of fields are a list.
LEMMA FieldMetricsList ==
    ASSUME NEW parts, NEW v, IsList(v.fields)
    PROVE  IsList(FieldMetrics(parts, v))
  <1> DEFINE point(i) == Point(IF IsAllPaths(parts) THEN Tag("2", v.fields[i][1]) ELSE <<>>, v.fields[i][2])
             f == [i \in DOMAIN v.fields |->
                      IF i > LastMap(v) /\ IsFloat(v.fields[i][2]) THEN <<point(i)>> ELSE <<>>]
  <1>1. FieldMetrics(parts, v) = FlattenSeq(f) BY DEF FieldMetrics
  <1>2. f = [i \in DOMAIN v.fields |-> f[i]] OBVIOUS
  <1>3. \A i \in DOMAIN f : IsList(f[i])
    <2>1. \A i \in DOMAIN f : f[i] = <<point(i)>> \/ f[i] = <<>> OBVIOUS
    <2> HIDE DEF f, point
    <2> QED BY <2>1, SmallLists
  <1> HIDE DEF f
  <1>4. IsList(f) BY <1>2, MappedList
  <1> QED BY <1>1, <1>3, <1>4, FlattenedList

NoMap == [kind |-> "map", fields |-> <<>>]

\* The map that counts in a map, and what is found with it.
Inner(w) == IF LastMap(w) = 0 THEN NoMap ELSE w.fields[LastMap(w)][2]
FoundWith(parts, w, n, points) ==
    (IF LastMap(w) = 0 \/ n = 0 THEN <<>> ELSE PutTags(points, Tag("1", w.fields[LastMap(w)][1]))) \o FieldMetrics(parts, w)

\* The maps that count in v from the outermost one, and what is found from the
\* innermost one.
Maps(v, maps, j) == maps = [n \in 0 .. j |-> IF n = 0 THEN v ELSE Inner(maps[n - 1])]
Metrics(parts, maps, found, j) == found = [n \in 0 .. j |-> FoundWith(parts, maps[Nesting - n], n, found[n - 1])]

\* There are such maps,
LEMMA MapsExist ==
    ASSUME NEW v
    PROVE  \E maps : Maps(v, maps, Nesting)
  <1> DEFINE Good == {j \in Nat : \E f : Maps(v, f, j)}
  <1>1. 0 \in Good
    <2>1. Maps(v, [n \in 0 .. 0 |-> v], 0) BY DEF Maps
    <2> QED BY <2>1
  <1>2. ASSUME NEW j \in Nat, j \in Good
        PROVE  j + 1 \in Good
    <2>1. PICK f : Maps(v, f, j) BY <1>2
    <2> DEFINE g == [n \in 0 .. j + 1 |-> IF n = j + 1 THEN Inner(f[j]) ELSE f[n]]
    <2>2. \A n \in 0 .. j + 1 : g[n] = IF n = 0 THEN v ELSE Inner(g[n - 1])
      <3> SUFFICES ASSUME NEW n \in 0 .. j + 1 PROVE g[n] = IF n = 0 THEN v ELSE Inner(g[n - 1])
        OBVIOUS
      <3>1. CASE n = j + 1
        <4>1. g[n] = Inner(f[j]) /\ n # 0 /\ n - 1 = j /\ j \in 0 .. j + 1 /\ j # j + 1 BY <3>1
        <4>2. g[j] = f[j] BY <4>1
        <4> QED BY <4>1, <4>2
      <3>2. CASE n # j + 1 /\ n # 0
        <4>1. n \in 0 .. j /\ n - 1 \in 0 .. j + 1 /\ n - 1 # j + 1 BY <3>2
        <4>2. g[n] = f[n] /\ g[n - 1] = f[n - 1] BY <3>2, <4>1
        <4>3. f[n] = Inner(f[n - 1]) BY <2>1, <3>2, <4>1 DEF Maps
        <4> QED BY <3>2, <4>2, <4>3
      <3>3. CASE n = 0
        <4>1. n \in 0 .. j /\ n # j + 1 BY <3>3
        <4> QED BY <2>1, <3>3, <4>1 DEF Maps
      <3> QED BY <3>1, <3>2, <3>3
    <2>3. Maps(v, g, j + 1)
      <3>1. g = [n \in 0 .. j + 1 |-> g[n]] OBVIOUS
      <3> HIDE DEF g
      <3> QED BY <2>2, <3>1 DEF Maps
    <2> HIDE DEF g
    <2> QED BY <2>3
  <1> HIDE DEF Good
  <1>3. Nesting \in Good BY <1>1, <1>2, Induction, JolokiaConstants
  <1> QED BY <1>3 DEF Good

\* and this is what they yield.
LEMMA MetricsExist ==
    ASSUME NEW parts, NEW maps
    PROVE  \E found : Metrics(parts, maps, found, Nesting)
  <1> DEFINE F(n, points) == FoundWith(parts, maps[Nesting - n], n, points)
             Good == {j \in Nat : \E f : Metrics(parts, maps, f, j)}
  <1>1. \A x, y : F(0, x) = F(0, y) BY DEF FoundWith
  <1> HIDE DEF F
  <1>2. \A f, j : Metrics(parts, maps, f, j) <=> f = [n \in 0 .. j |-> F(n, f[n - 1])] BY DEF Metrics, F
  <1>3. 0 \in Good
    <2> DEFINE g == [n \in 0 .. 0 |-> F(0, maps)]
    <2>1. \A n \in 0 .. 0 : n = 0 OBVIOUS
    <2>2. g = [n \in 0 .. 0 |-> F(n, g[n - 1])] BY <1>1, <2>1
    <2> HIDE DEF g
    <2> QED BY <1>2, <2>2
  <1>4. ASSUME NEW j \in Nat, j \in Good
        PROVE  j + 1 \in Good
    <2>1. PICK f : f = [n \in 0 .. j |-> F(n, f[n - 1])] BY <1>2, <1>4
    <2> DEFINE g == [n \in 0 .. j + 1 |-> IF n = j + 1 THEN F(n, f[j]) ELSE f[n]]
    <2>2. \A n \in 0 .. j + 1 : g[n] = F(n, g[n - 1])
      <3> SUFFICES ASSUME NEW n \in 0 .. j + 1 PROVE g[n] = F(n, g[n - 1])
        OBVIOUS
      <3>1. CASE n = j + 1
        <4>1. g[n] = F(n, f[j]) /\ n - 1 = j /\ j \in 0 .. j + 1 /\ j # j + 1 BY <3>1
        <4>2. g[j] = f[j] BY <4>1
        <4> QED BY <4>1, <4>2
      <3>2. CASE n # j + 1 /\ n # 0
        <4>1. n \in 0 .. j /\ n - 1 \in 0 .. j + 1 /\ n - 1 # j + 1 BY <3>2
        <4>2. g[n] = f[n] /\ g[n - 1] = f[n - 1] BY <3>2, <4>1
        <4>3. f[n] = F(n, f[n - 1]) BY <2>1, <4>1
        <4> QED BY <4>2, <4>3
      <3>3. CASE n = 0
        <4>1. n \in 0 .. j /\ n # j + 1 BY <3>3
        <4>2. g[n] = f[n] BY <4>1
        <4>3. f[n] = F(n, f[n - 1]) BY <2>1, <4>1
        <4> QED BY <1>1, <3>3, <4>2, <4>3
      <3> QED BY <3>1, <3>2, <3>3
    <2>3. g = [n \in 0 .. j + 1 |-> F(n, g[n - 1])]
      <3>1. g = [n \in 0 .. j + 1 |-> g[n]] OBVIOUS
      <3> HIDE DEF g
      <3> QED BY <2>2, <3>1
    <2> HIDE DEF g
    <2>4. Metrics(parts, maps, g, j + 1) BY <2>3 DEF Metrics, F
    <2> QED BY <2>4
  <1> HIDE DEF Good
  <1>5. Nesting \in Good BY <1>3, <1>4, Induction, JolokiaConstants
  <1> QED BY <1>5 DEF Good

\* What a composite attribute yields.
LEMMA CompositeUnfolds ==
    ASSUME NEW parts, NEW v
    PROVE  \E maps, found :
              /\ Maps(v, maps, Nesting) /\ Metrics(parts, maps, found, Nesting)
              /\ processSingleCompositeAttribute(parts, v) = found[Nesting]
  <1> DEFINE maps == CHOOSE maps : Maps(v, maps, Nesting)
             found == CHOOSE found : Metrics(parts, maps, found, Nesting)
  <1>1. Maps(v, maps, Nesting) BY MapsExist
  <1>2. processSingleCompositeAttribute(parts, v) = found[Nesting]
    BY DEF processSingleCompositeAttribute, Maps, Metrics, Inner, NoMap, FoundWith
  <1> HIDE DEF maps
  <1>3. Metrics(parts, maps, found, Nesting) BY MetricsExist
  <1> HIDE DEF found
  <1> QED BY <1>1, <1>2, <1>3

\* A composite attribute that is within the bound on nesting yields a list.
LEMMA CompositeList ==
    ASSUME NEW a, NEW k \in 0 .. 2, NEW v, IsMap(a, k, v), NEW parts
    PROVE  IsList(processSingleCompositeAttribute(parts, v))
  <1>1. Nesting \in Nat \ {0} BY JolokiaConstants
  <1>2. PICK maps, found :
            /\ Maps(v, maps, Nesting) /\ Metrics(parts, maps, found, Nesting)
            /\ processSingleCompositeAttribute(parts, v) = found[Nesting]
    BY CompositeUnfolds
  <1>3. \A n \in 0 .. Nesting : maps[n] = IF n = 0 THEN v ELSE Inner(maps[n - 1]) BY <1>2 DEF Maps
  <1>4. \A n \in 0 .. Nesting : found[n] = FoundWith(parts, maps[Nesting - n], n, found[n - 1])
    BY <1>2 DEF Metrics
  \* The maps that count are in the answer, as deep as it may be, or empty.
  <1> DEFINE Within == {n \in Nat : n \in 0 .. Nesting => maps[n] = NoMap \/ IsMap(a, k + n, maps[n])}
  <1>5. 0 \in Within
    <2>1. k + 0 = k /\ 0 \in 0 .. Nesting BY <1>1
    <2> QED BY <1>3, <2>1
  <1>6. ASSUME NEW n \in Nat, n \in Within
        PROVE  n + 1 \in Within
    <2> SUFFICES ASSUME n + 1 \in 0 .. Nesting
                 PROVE  maps[n + 1] = NoMap \/ IsMap(a, k + (n + 1), maps[n + 1])
      OBVIOUS
    <2>1. n \in 0 .. Nesting /\ n + 1 # 0 /\ (n + 1) - 1 = n BY <1>1
    <2>2. maps[n + 1] = Inner(maps[n]) BY <1>3, <2>1
    <2>3. CASE maps[n] = NoMap
      <3>1. LastMap(NoMap) = 0
        <4>1. LastMap(NoMap) = Max({0}) BY DEF LastMap, NoMap
        <4>2. {0} \in SUBSET (0 .. 0) /\ {0} # {} OBVIOUS
        <4>3. Max({0}) \in {0} BY <4>2, MaxIsIn
        <4> QED BY <4>1, <4>3
      <3> QED BY <2>2, <2>3, <3>1 DEF Inner
    <2>4. CASE IsMap(a, k + n, maps[n])
      <3>1. k + n \in 0 .. Nesting + 2 /\ k + n # Nesting + 2 /\ (k + n) + 1 = k + (n + 1) BY <1>1
      <3>2. /\ IsList(maps[n].fields)
            /\ \A i \in DOMAIN maps[n].fields : maps[n].fields[i][2] \in Below(a)[k + (n + 1)]
        BY <2>4, <3>1, MapFacts
      <3>3. CASE LastMap(maps[n]) = 0 BY <2>2, <3>3 DEF Inner
      <3>4. CASE LastMap(maps[n]) # 0
        <4>1. /\ LastMap(maps[n]) \in DOMAIN maps[n].fields
              /\ maps[n].fields[LastMap(maps[n])][2].kind = "map"
          BY <3>2, <3>4, LastMapFacts
        <4>2. maps[n + 1] = maps[n].fields[LastMap(maps[n])][2] BY <2>2, <3>4 DEF Inner
        <4> QED BY <2>4, <3>2, <4>1, <4>2 DEF IsMap
      <3> QED BY <3>3, <3>4
    <2> QED BY <1>6, <2>1, <2>3, <2>4
  <1>7. ASSUME NEW n \in 0 .. Nesting
        PROVE  IsList(maps[n].fields)
    <2>1. n \in Within
      <3> HIDE DEF Within
      <3> QED BY <1>5, <1>6, Induction
    <2>2. k + n \in 0 .. Nesting + 2 BY <1>1
    <2>3. IsList(NoMap.fields) BY SmallLists DEF NoMap
    <2> QED BY <2>1, <2>2, <2>3, MapFacts
  \* What is found with them is a list, from the innermost one.
  <1> DEFINE Right == {n \in Nat : n \in 0 .. Nesting => IsList(found[n])}
  <1>8. ASSUME NEW n \in 0 .. Nesting, n = 0 \/ IsList(found[n - 1])
        PROVE  IsList(found[n])
    <2>1. Nesting - n \in 0 .. Nesting BY <1>1
    <2>2. IsList(FieldMetrics(parts, maps[Nesting - n])) BY <1>7, <2>1, FieldMetricsList
    <2> DEFINE w == maps[Nesting - n]
               inner == IF LastMap(w) = 0 \/ n = 0 THEN <<>>
                        ELSE PutTags(found[n - 1], Tag("1", w.fields[LastMap(w)][1]))
    <2>3. found[n] = inner \o FieldMetrics(parts, w) BY <1>4 DEF FoundWith
    <2>4. IsList(inner) BY <1>8, PutTagsList, SmallLists
    <2> HIDE DEF inner, w
    <2>5. IsList(FieldMetrics(parts, w)) BY <2>2 DEF w
    <2> QED BY <2>3, <2>4, <2>5, SmallLists
  <1>9. 0 \in Right BY <1>8
  <1>10. ASSUME NEW n \in Nat, n \in Right
         PROVE  n + 1 \in Right
    <2> SUFFICES ASSUME n + 1 \in 0 .. Nesting PROVE IsList(found[n + 1])
      OBVIOUS
    <2>1. n \in 0 .. Nesting /\ (n + 1) - 1 = n BY <1>1
    <2> QED BY <1>8, <1>10, <2>1
  <1> HIDE DEF Right
  <1>11. Nesting \in Right BY <1>1, <1>9, <1>10, Induction
  <1> QED BY <1>1, <1>2, <1>11 DEF Right

\* An attribute yields a list.
LEMMA AttributeList ==
    ASSUME NEW a, IsAnswer(a), a.kind # "error", NEW k \in 0 .. 2, NEW v \in Below(a)[k], NEW parts
    PROVE  IsList(processSingleAttribute(parts, v))
  <1>1. CASE v.kind = "map"
    <2>1. IsMap(a, k, v) BY <1>1 DEF IsMap
    <2>2. ~IsFloat(v) BY <1>1 DEF IsFloat
    <2>3. processSingleAttribute(parts, v) = processSingleCompositeAttribute(parts, v)
      BY <1>1, <2>2 DEF processSingleAttribute
    <2> QED BY <2>1, <2>3, CompositeList
  <1>2. CASE v.kind # "map"
    <2>1. processSingleAttribute(parts, v) = <<Point(<<>>, v)>> \/ processSingleAttribute(parts, v) = <<>>
      BY <1>2 DEF processSingleAttribute
    <2> QED BY <2>1, SmallLists
  <1> QED BY <1>1, <1>2

\* An MBean yields a list.
LEMMA MBeanList ==
    ASSUME NEW a, IsAnswer(a), a.kind # "error", NEW k \in 0 .. 1, NEW v \in Below(a)[k], NEW parts
    PROVE  IsList(processSingleMBean(parts, v))
  <1> DEFINE f == [i \in DOMAIN v.fields |->
                      PutTags(processSingleAttribute(parts, v.fields[i][2]), Tag("1", v.fields[i][1]))]
  <1>1. CASE ~IsAllAttributes(parts)
    <2>1. processSingleMBean(parts, v) = processSingleAttribute(parts, v) BY <1>1 DEF processSingleMBean
    <2>2. k \in 0 .. 2 OBVIOUS
    <2> QED BY <2>1, <2>2, AttributeList
  <1>2. CASE IsAllAttributes(parts) /\ v.kind # "map" BY <1>2, SmallLists DEF processSingleMBean
  <1>3. CASE IsAllAttributes(parts) /\ v.kind = "map"
    <2>1. processSingleMBean(parts, v) = FlattenSeq(f) BY <1>3 DEF processSingleMBean
    <2>2. k \in 0 .. Nesting + 2 /\ k # Nesting + 2 /\ k + 1 \in 0 .. 2 BY JolokiaConstants
    <2>3. /\ IsList(v.fields)
          /\ \A i \in DOMAIN v.fields : v.fields[i][2] \in Below(a)[k + 1]
      BY <1>3, <2>2, MapFacts DEF IsMap
    <2>4. \A i \in DOMAIN v.fields : IsList(processSingleAttribute(parts, v.fields[i][2]))
      BY <2>2, <2>3, AttributeList
    <2>5. \A i \in DOMAIN v.fields : IsList(f[i]) BY <2>4, PutTagsList
    <2>6. f = [i \in DOMAIN v.fields |-> f[i]] /\ DOMAIN f = DOMAIN v.fields OBVIOUS
    <2> HIDE DEF f
    <2>7. IsList(f) BY <2>3, <2>6, MappedList
    <2> QED BY <2>1, <2>5, <2>6, <2>7, FlattenedList
  <1> QED BY <1>1, <1>2, <1>3

\* An answer yields a list.
LEMMA AnswerList ==
    ASSUME NEW a, IsAnswer(a), a.kind # "error", NEW parts
    PROVE  IsList(ProcessJolokiaResponseValueObject(parts, a))
  <1> DEFINE f == [i \in DOMAIN a.fields |->
                      PutTags(processSingleMBean(parts, a.fields[i][2]), WildcardTags(parts, a.fields[i][1]))]
  <1>1. a \in Below(a)[0] BY BelowFacts
  <1>2. CASE ~IsMBeanQuery(parts)
    <2>1. ProcessJolokiaResponseValueObject(parts, a) = processSingleMBean(parts, a)
      BY <1>2 DEF ProcessJolokiaResponseValueObject
    <2>2. 0 \in 0 .. 1 OBVIOUS
    <2> QED BY <1>1, <2>1, <2>2, MBeanList
  <1>3. CASE IsMBeanQuery(parts) /\ a.kind # "map"
    BY <1>3, SmallLists DEF ProcessJolokiaResponseValueObject, processMultipleMBeans
  <1>4. CASE IsMBeanQuery(parts) /\ a.kind = "map"
    <2>1. ProcessJolokiaResponseValueObject(parts, a) = FlattenSeq(f)
      BY <1>4 DEF ProcessJolokiaResponseValueObject, processMultipleMBeans
    <2>2. 0 \in 0 .. Nesting + 2 /\ 0 # Nesting + 2 /\ 0 + 1 = 1 /\ 1 \in 0 .. 1 BY JolokiaConstants
    <2>3. IsList(a.fields) /\ \A i \in DOMAIN a.fields : a.fields[i][2] \in Below(a)[1]
      BY <1>1, <1>4, <2>2, MapFacts DEF IsMap
    <2>4. \A i \in DOMAIN a.fields : IsList(processSingleMBean(parts, a.fields[i][2]))
      BY <2>2, <2>3, MBeanList
    <2>5. \A i \in DOMAIN a.fields : IsList(f[i]) BY <2>4, PutTagsList
    <2>6. f = [i \in DOMAIN a.fields |-> f[i]] /\ DOMAIN f = DOMAIN a.fields OBVIOUS
    <2> HIDE DEF f
    <2>7. IsList(f) BY <2>3, <2>6, MappedList
    <2> QED BY <2>1, <2>5, <2>6, <2>7, FlattenedList
  <1> QED BY <1>2, <1>3, <1>4
-----------------------------------------------------------------------------
(* What the Jolokia collector finds in an answer.                          *)

\* A map of tags, and points that have one.
IsTags(t) == t = [k \in DOMAIN t |-> t[k]]
ArePoints(S) == \A x \in S : x = Point(x.tags, x) /\ IsTags(x.tags)

\* The points with tags over those they have.
Retagged(S, tags) == {Point(Over(tags, x.tags), x) : x \in S}

\* An attribute whose fields, if any, hold no maps.
IsFlatAttribute(v) ==
    v.kind = "map" => IsList(v.fields) /\ \A i \in DOMAIN v.fields : v.fields[i][2].kind # "map"

\* The leaves of an attribute and of an MBean, with tags.
AttributeLeaves(parts, tags, v) ==
    IF v.kind = "map"
    THEN {Point(IF IsAllPaths(parts) THEN Over(Tag("2", f[1]), tags) ELSE tags, f[2]) :
            f \in {g \in ToSet(v.fields) : IsFloat(g[2])}}
    ELSE IF IsFloat(v) THEN {Point(tags, v)} ELSE {}

MBeanLeaves(parts, tags, v) ==
    IF ~IsAllAttributes(parts) THEN AttributeLeaves(parts, tags, v)
    ELSE IF v.kind = "map"
    THEN UNION {AttributeLeaves(parts, Over(Tag("1", f[1]), tags), f[2]) : f \in ToSet(v.fields)} ELSE {}

\* Tags over none, none over tags, and tags over others.
LEMMA TagsFacts ==
    /\ \A f, g : IsTags(Over(f, g))
    /\ \A k, v : IsTags(Tag(k, v)) /\ DOMAIN Tag(k, v) = {k}
    /\ IsTags(<<>>) /\ DOMAIN <<>> = {}
    /\ \A t : IsTags(t) => Over(t, <<>>) = t /\ Over(<<>>, t) = t
    /\ \A f, g : DOMAIN f \cap DOMAIN g = {} => Over(f, g) = Over(g, f)
  <1>1. \A f, g : IsTags(Over(f, g)) BY DEF IsTags, Over
  <1>2. \A k, v : IsTags(Tag(k, v)) /\ DOMAIN Tag(k, v) = {k} BY DEF IsTags, Tag
  <1>3. IsTags(<<>>) /\ DOMAIN <<>> = {} BY DEF IsTags
  <1>4. ASSUME NEW t, IsTags(t)
        PROVE  Over(t, <<>>) = t /\ Over(<<>>, t) = t
    <2>1. Over(t, <<>>) = [k \in DOMAIN t |-> t[k]] BY <1>3 DEF Over
    <2>2. Over(<<>>, t) = [k \in DOMAIN t |-> t[k]] BY <1>3 DEF Over
    <2> QED BY <1>4, <2>1, <2>2 DEF IsTags
  <1>5. ASSUME NEW f, NEW g, DOMAIN f \cap DOMAIN g = {}
        PROVE  Over(f, g) = Over(g, f)
    BY <1>5 DEF Over
  <1> QED BY <1>1, <1>2, <1>3, <1>4, <1>5

\* Putting tags over the points of a list, and once more.
LEMMA RetaggedFacts ==
    /\ \A points, tags : IsList(points) /\ ArePoints(ToSet(points)) =>
            ToSet(PutTags(points, tags)) = Retagged(ToSet(points), tags)
    /\ \A S, t : ArePoints(Retagged(S, t))
    /\ \A S, t, u : Retagged(Retagged(S, t), u) = Retagged(S, Over(u, t))
    /\ \A S : ArePoints(S) => Retagged(S, <<>>) = S
  <1>1. ASSUME NEW points, NEW tags, IsList(points), ArePoints(ToSet(points))
        PROVE  ToSet(PutTags(points, tags)) = Retagged(ToSet(points), tags)
    <2> DEFINE f == PutTags(points, tags)
    <2>1. f = [i \in DOMAIN points |-> f[i]] /\ DOMAIN f = DOMAIN points BY DEF PutTags
    <2>2. \A i \in DOMAIN points : f[i] = [points[i] EXCEPT !.tags = Over(tags, points[i].tags)]
      <3>1. \A i \in DOMAIN points : f[i] = [points[i] EXCEPT !.tags = Over(tags, @)] BY DEF PutTags
      <3>2. \A i \in DOMAIN points : "tags" \in DOMAIN points[i] BY <1>1 DEF ArePoints, ToSet, Point
      <3> QED BY <3>1, <3>2
    <2> HIDE DEF f
    <2>3. \A i \in DOMAIN points : f[i] = Point(Over(tags, points[i].tags), points[i])
      <3> SUFFICES ASSUME NEW i \in DOMAIN points PROVE f[i] = Point(Over(tags, points[i].tags), points[i])
        OBVIOUS
      <3>1. points[i] = [tags |-> points[i].tags, value |-> points[i].value]
        BY <1>1 DEF ArePoints, ToSet, Point
      <3> QED BY <2>2, <3>1 DEF Point
    <2> QED BY <2>1, <2>3 DEF f, ToSet, Retagged
  <1>2. \A S, t : ArePoints(Retagged(S, t))
    BY TagsFacts DEF ArePoints, Retagged, Point
  <1>3. ASSUME NEW S, NEW t, NEW u
        PROVE  Retagged(Retagged(S, t), u) = Retagged(S, Over(u, t))
    <2>1. \A x : Point(Over(u, Point(Over(t, x.tags), x).tags), Point(Over(t, x.tags), x)) =
                 Point(Over(Over(u, t), x.tags), x)
      BY OverFacts DEF Point
    <2> QED BY <2>1 DEF Retagged
  <1>4. ASSUME NEW S, ArePoints(S)
        PROVE  Retagged(S, <<>>) = S
    <2>1. \A x \in S : Point(Over(<<>>, x.tags), x) = x BY <1>4, TagsFacts DEF ArePoints
    <2> QED BY <2>1 DEF Retagged
  <1> QED BY <1>1, <1>2, <1>3, <1>4

\* In a map without maps all fields count.
LEMMA FlatComposite ==
    ASSUME NEW parts, NEW v, v.kind = "map", IsFlatAttribute(v)
    PROVE  LET points == processSingleCompositeAttribute(parts, v) IN
           IsList(points) /\ ToSet(points) = AttributeLeaves(parts, <<>>, v)
  <1>1. /\ IsList(v.fields) /\ Len(v.fields) \in Nat /\ DOMAIN v.fields = 1 .. Len(v.fields)
        /\ \A i \in DOMAIN v.fields : v.fields[i][2].kind # "map"
    BY ListFacts DEF IsFlatAttribute, IsList
  <1>2. LastMap(v) = 0 BY <1>1, LastMapFacts
  <1>3. processSingleCompositeAttribute(parts, v) = <<>> \o FieldMetrics(parts, v)
    <2>1. PICK maps, found :
            /\ Maps(v, maps, Nesting) /\ Metrics(parts, maps, found, Nesting)
            /\ processSingleCompositeAttribute(parts, v) = found[Nesting]
      BY CompositeUnfolds
    <2>2. Nesting \in Nat /\ 0 \in 0 .. Nesting /\ Nesting \in 0 .. Nesting /\ Nesting - Nesting = 0
      BY JolokiaConstants
    <2>3. maps[0] = v BY <2>1, <2>2 DEF Maps
    <2>4. found[Nesting] = FoundWith(parts, v, Nesting, found[Nesting - 1])
      <3>1. found[Nesting] = FoundWith(parts, maps[Nesting - Nesting], Nesting, found[Nesting - 1])
        BY <2>1, <2>2 DEF Metrics
      <3> QED BY <2>2, <2>3, <3>1
    <2> QED BY <1>2, <2>1, <2>4 DEF FoundWith
  <1> DEFINE tags(i) == IF IsAllPaths(parts) THEN Tag("2", v.fields[i][1]) ELSE <<>>
             Good(i) == i > LastMap(v) /\ IsFloat(v.fields[i][2])
             f == [i \in DOMAIN v.fields |-> IF Good(i) THEN <<Point(tags(i), v.fields[i][2])>> ELSE <<>>]
  <1>4. FieldMetrics(parts, v) = FlattenSeq(f) BY DEF FieldMetrics
  <1>5. f = [i \in DOMAIN v.fields |-> f[i]] /\ DOMAIN f = DOMAIN v.fields OBVIOUS
  <1>6. \A i \in DOMAIN v.fields : f[i] = IF Good(i) THEN <<Point(tags(i), v.fields[i][2])>> ELSE <<>>
    OBVIOUS
  <1>7. \A i \in DOMAIN v.fields : Good(i) <=> IsFloat(v.fields[i][2]) BY <1>1, <1>2
  <1> HIDE DEF f, Good
  <1>8. \A i \in DOMAIN v.fields :
            /\ IsList(f[i])
            /\ ToSet(f[i]) = IF IsFloat(v.fields[i][2]) THEN {Point(tags(i), v.fields[i][2])} ELSE {}
    <2> HIDE DEF tags
    <2> QED BY <1>6, <1>7, SmallLists
  <1>9. IsList(f) BY <1>1, <1>5, MappedList
  <1>10. /\ IsList(FlattenSeq(f))
         /\ ToSet(FlattenSeq(f)) = UNION {ToSet(f[i]) : i \in DOMAIN v.fields}
    BY <1>5, <1>8, <1>9, FlattenedList
  <1>11. AttributeLeaves(parts, <<>>, v) =
            {Point(IF IsAllPaths(parts) THEN Tag("2", g[1]) ELSE <<>>, g[2]) :
                g \in {x \in ToSet(v.fields) : IsFloat(x[2])}}
    <2>1. \A k, x : Over(Tag(k, x), <<>>) = Tag(k, x) BY TagsFacts
    <2> QED BY <2>1 DEF AttributeLeaves
  <1>12. AttributeLeaves(parts, <<>>, v) = UNION {ToSet(f[i]) : i \in DOMAIN v.fields}
    <2> DEFINE P(g) == Point(IF IsAllPaths(parts) THEN Tag("2", g[1]) ELSE <<>>, g[2])
    <2>1. AttributeLeaves(parts, <<>>, v) = {P(g) : g \in {x \in ToSet(v.fields) : IsFloat(x[2])}}
      BY <1>11
    <2>2. \A i \in DOMAIN v.fields : ToSet(f[i]) = IF IsFloat(v.fields[i][2]) THEN {P(v.fields[i])} ELSE {}
      BY <1>8
    <2>3. ToSet(v.fields) = {v.fields[i] : i \in DOMAIN v.fields} BY DEF ToSet
    <2> HIDE DEF P
    <2>4. ASSUME NEW x \in AttributeLeaves(parts, <<>>, v)
          PROVE  \E i \in DOMAIN v.fields : x \in ToSet(f[i])
      BY <2>1, <2>2, <2>3
    <2>5. ASSUME NEW i \in DOMAIN v.fields, NEW x \in ToSet(f[i])
          PROVE  x \in AttributeLeaves(parts, <<>>, v)
      BY <2>1, <2>2, <2>3
    <2> QED BY <2>4, <2>5
  <1>13. IsList(processSingleCompositeAttribute(parts, v))
         /\ ToSet(processSingleCompositeAttribute(parts, v)) = {} \cup ToSet(FieldMetrics(parts, v))
    BY <1>3, <1>4, <1>10, SmallLists
  <1> QED BY <1>4, <1>10, <1>12, <1>13

\* The points of an attribute are its leaves, whatever tags are put over them.
LEMMA AttributePoints ==
    ASSUME NEW parts, NEW v, IsFlatAttribute(v), NEW tags, IsTags(tags), "2" \notin DOMAIN tags
    PROVE  LET points == processSingleAttribute(parts, v) IN
           /\ IsList(points) /\ ArePoints(ToSet(points))
           /\ Retagged(ToSet(points), tags) = AttributeLeaves(parts, tags, v)
  <1> DEFINE points == processSingleAttribute(parts, v)
  <1>1. IsList(points) /\ ToSet(points) = AttributeLeaves(parts, <<>>, v)
    <2>1. CASE v.kind = "map"
      <3>1. points = processSingleCompositeAttribute(parts, v)
        BY <2>1 DEF processSingleAttribute, IsFloat
      <3> QED BY <2>1, <3>1, FlatComposite
    <2>2. CASE v.kind # "map" /\ IsFloat(v)
      <3>1. points = <<Point(<<>>, v)>> BY <2>2 DEF processSingleAttribute
      <3> QED BY <2>2, <3>1, SmallLists DEF AttributeLeaves
    <2>3. CASE v.kind # "map" /\ ~IsFloat(v)
      <3>1. points = <<>> BY <2>3 DEF processSingleAttribute
      <3> QED BY <2>3, <3>1, SmallLists DEF AttributeLeaves
    <2> QED BY <2>1, <2>2, <2>3
  <1> HIDE DEF points
  <1>2. ArePoints(AttributeLeaves(parts, <<>>, v))
    BY TagsFacts DEF ArePoints, AttributeLeaves, Point
  <1>3. \A t, x, y : Point(t, x).tags = t /\ Point(y, Point(t, x)) = Point(y, x) BY DEF Point
  <1>4. Over(tags, <<>>) = tags BY TagsFacts
  <1>5. \A k : Over(tags, Over(Tag("2", k), <<>>)) = Over(Tag("2", k), tags)
    <2> SUFFICES ASSUME NEW k PROVE Over(tags, Over(Tag("2", k), <<>>)) = Over(Tag("2", k), tags)
      OBVIOUS
    <2>1. IsTags(Tag("2", k)) /\ DOMAIN Tag("2", k) = {"2"} BY TagsFacts
    <2>2. Over(Tag("2", k), <<>>) = Tag("2", k) BY <2>1, TagsFacts
    <2>3. DOMAIN tags \cap DOMAIN Tag("2", k) = {} BY <2>1
    <2>4. Over(tags, Tag("2", k)) = Over(Tag("2", k), tags) BY <2>3, TagsFacts
    <2> QED BY <2>2, <2>4
  <1>6. Retagged(AttributeLeaves(parts, <<>>, v), tags) = AttributeLeaves(parts, tags, v)
    <2>1. CASE v.kind = "map"
      <3> DEFINE F == {g \in ToSet(v.fields) : IsFloat(g[2])}
                 under(t, g) == IF IsAllPaths(parts) THEN Over(Tag("2", g[1]), t) ELSE t
      <3>1. \A t : AttributeLeaves(parts, t, v) = {Point(under(t, g), g[2]) : g \in F}
        BY <2>1 DEF AttributeLeaves
      <3>2. \A g \in F : Over(tags, under(<<>>, g)) = under(tags, g) BY <1>4, <1>5
      <3> HIDE DEF F, under
      <3>3. Retagged(AttributeLeaves(parts, <<>>, v), tags) =
                {Point(Over(tags, Point(under(<<>>, g), g[2]).tags), Point(under(<<>>, g), g[2])) : g \in F}
        BY <3>1 DEF Retagged
      <3>4. \A g \in F : Point(Over(tags, Point(under(<<>>, g), g[2]).tags), Point(under(<<>>, g), g[2])) =
                        Point(under(tags, g), g[2])
        BY <1>3, <3>2
      <3>5. {Point(Over(tags, Point(under(<<>>, g), g[2]).tags), Point(under(<<>>, g), g[2])) : g \in F} =
            {Point(under(tags, g), g[2]) : g \in F}
        BY <3>4
      <3> QED BY <3>1, <3>3, <3>5
    <2>2. CASE v.kind # "map" BY <1>3, <1>4, <2>2 DEF AttributeLeaves, Retagged
    <2> QED BY <2>1, <2>2
  <1> QED BY <1>1, <1>2, <1>6 DEF points

\* An MBean of which each attribute is like that.
IsFlatMBean(parts, v) ==
    IF IsAllAttributes(parts)
    THEN v.kind = "map" => IsList(v.fields) /\ \A i \in DOMAIN v.fields : IsFlatAttribute(v.fields[i][2])
    ELSE IsFlatAttribute(v)

\* The points of several lists.
LEMMA FlattenedPoints ==
    ASSUME NEW lists, IsList(lists), NEW tags,
           \A i \in DOMAIN lists : IsList(lists[i]) /\ ArePoints(ToSet(lists[i]))
    PROVE  /\ IsList(FlattenSeq(lists)) /\ ArePoints(ToSet(FlattenSeq(lists)))
           /\ ToSet(FlattenSeq(lists)) = UNION {ToSet(lists[i]) : i \in DOMAIN lists}
           /\ Retagged(ToSet(FlattenSeq(lists)), tags) =
                UNION {Retagged(ToSet(lists[i]), tags) : i \in DOMAIN lists}
  <1>1. /\ IsList(FlattenSeq(lists))
        /\ ToSet(FlattenSeq(lists)) = UNION {ToSet(lists[i]) : i \in DOMAIN lists}
    BY FlattenedList
  <1>2. ArePoints(ToSet(FlattenSeq(lists))) BY <1>1 DEF ArePoints
  <1>3. ASSUME NEW x \in Retagged(ToSet(FlattenSeq(lists)), tags)
        PROVE  \E i \in DOMAIN lists : x \in Retagged(ToSet(lists[i]), tags)
    BY <1>1 DEF Retagged
  <1>4. ASSUME NEW i \in DOMAIN lists, NEW x \in Retagged(ToSet(lists[i]), tags)
        PROVE  x \in Retagged(ToSet(FlattenSeq(lists)), tags)
    BY <1>1 DEF Retagged
  <1> QED BY <1>1, <1>2, <1>3, <1>4

\* The points of an MBean are its leaves.
LEMMA MBeanPoints ==
    ASSUME NEW parts, NEW v, IsFlatMBean(parts, v),
           NEW tags, IsTags(tags), "1" \notin DOMAIN tags, "2" \notin DOMAIN tags
    PROVE  LET points == processSingleMBean(parts, v) IN
           /\ IsList(points) /\ ArePoints(ToSet(points))
           /\ Retagged(ToSet(points), tags) = MBeanLeaves(parts, tags, v)
  <1>1. CASE ~IsAllAttributes(parts)
    <2>1. processSingleMBean(parts, v) = processSingleAttribute(parts, v) BY <1>1 DEF processSingleMBean
    <2>2. MBeanLeaves(parts, tags, v) = AttributeLeaves(parts, tags, v) BY <1>1 DEF MBeanLeaves
    <2> QED BY <1>1, <2>1, <2>2, AttributePoints DEF IsFlatMBean
  <1>2. CASE IsAllAttributes(parts) /\ v.kind # "map"
    <2>1. processSingleMBean(parts, v) = <<>> /\ MBeanLeaves(parts, tags, v) = {}
      BY <1>2 DEF processSingleMBean, MBeanLeaves
    <2> QED BY <2>1, SmallLists DEF ArePoints, Retagged
  <1>3. CASE IsAllAttributes(parts) /\ v.kind = "map"
    <2> DEFINE one(i) == Tag("1", v.fields[i][1])
               f == [i \in DOMAIN v.fields |-> PutTags(processSingleAttribute(parts, v.fields[i][2]), one(i))]
    <2>1. processSingleMBean(parts, v) = FlattenSeq(f) BY <1>3 DEF processSingleMBean
    <2>2. f = [i \in DOMAIN v.fields |-> f[i]] /\ DOMAIN f = DOMAIN v.fields OBVIOUS
    <2>3. \A i \in DOMAIN v.fields : f[i] = PutTags(processSingleAttribute(parts, v.fields[i][2]), one(i))
      OBVIOUS
    <2> HIDE DEF f
    <2>4. IsList(v.fields) /\ \A i \in DOMAIN v.fields : IsFlatAttribute(v.fields[i][2])
      BY <1>3 DEF IsFlatMBean
    <2>5. ASSUME NEW i \in DOMAIN v.fields
          PROVE  /\ IsList(f[i]) /\ ArePoints(ToSet(f[i]))
                 /\ Retagged(ToSet(f[i]), tags) =
                        AttributeLeaves(parts, Over(one(i), tags), v.fields[i][2])
      <3> DEFINE points == processSingleAttribute(parts, v.fields[i][2])
                 both == Over(one(i), tags)
      <3>1. IsTags(one(i)) /\ DOMAIN one(i) = {"1"} BY TagsFacts
      <3>2. IsTags(both) /\ DOMAIN both = {"1"} \cup DOMAIN tags
        <4> HIDE DEF one
        <4>1. DOMAIN both = DOMAIN one(i) \cup DOMAIN tags BY OverFacts
        <4>2. IsTags(both) BY TagsFacts
        <4> QED BY <3>1, <4>1, <4>2
      <3>3. Over(tags, one(i)) = both
        <4>1. DOMAIN tags \cap DOMAIN one(i) = {} BY <3>1
        <4> QED BY <4>1, TagsFacts
      <3>4. "2" \notin DOMAIN both BY <3>2
      <3> HIDE DEF both, one
      <3>5. /\ IsList(points) /\ ArePoints(ToSet(points))
            /\ Retagged(ToSet(points), both) = AttributeLeaves(parts, both, v.fields[i][2])
        BY <2>4, <3>2, <3>4, AttributePoints
      <3> HIDE DEF points
      <3>6. f[i] = PutTags(points, one(i)) BY <2>3 DEF points
      <3>7. ToSet(f[i]) = Retagged(ToSet(points), one(i)) BY <3>5, <3>6, RetaggedFacts
      <3>8. IsList(f[i]) BY <3>5, <3>6, PutTagsList
      <3>9. Retagged(ToSet(f[i]), tags) = Retagged(ToSet(points), both) BY <3>3, <3>7, RetaggedFacts
      <3>10. ArePoints(ToSet(f[i])) BY <3>7, RetaggedFacts
      <3> QED BY <3>5, <3>8, <3>9, <3>10 DEF both
    <2>6. IsList(f) BY <2>2, <2>4, MappedList
    <2>7. /\ IsList(FlattenSeq(f)) /\ ArePoints(ToSet(FlattenSeq(f)))
          /\ Retagged(ToSet(FlattenSeq(f)), tags) = UNION {Retagged(ToSet(f[i]), tags) : i \in DOMAIN f}
      BY <2>2, <2>5, <2>6, FlattenedPoints
    <2>8. MBeanLeaves(parts, tags, v) =
            UNION {AttributeLeaves(parts, Over(Tag("1", g[1]), tags), g[2]) : g \in ToSet(v.fields)}
      BY <1>3 DEF MBeanLeaves
    <2>9. ASSUME NEW x \in Retagged(ToSet(FlattenSeq(f)), tags)
          PROVE  x \in MBeanLeaves(parts, tags, v)
      <3>0. PICK i \in DOMAIN v.fields : x \in Retagged(ToSet(f[i]), tags) BY <2>2, <2>7, <2>9
      <3>1. x \in AttributeLeaves(parts, Over(one(i), tags), v.fields[i][2])
        <4> HIDE DEF one
        <4> QED BY <2>5, <3>0
      <3>2. v.fields[i] \in ToSet(v.fields) BY DEF ToSet
      <3> QED BY <2>8, <3>1, <3>2
    <2>10. ASSUME NEW x \in MBeanLeaves(parts, tags, v)
           PROVE  x \in Retagged(ToSet(FlattenSeq(f)), tags)
      <3>1. PICK g \in ToSet(v.fields) : x \in AttributeLeaves(parts, Over(Tag("1", g[1]), tags), g[2])
        BY <2>8
      <3>2. PICK i \in DOMAIN v.fields : g = v.fields[i] BY DEF ToSet
      <3>3. x \in Retagged(ToSet(f[i]), tags) BY <2>5, <3>1, <3>2
      <3> QED BY <2>2, <2>7, <3>3
    <2> QED BY <2>1, <2>7, <2>9, <2>10
  <1> QED BY <1>1, <1>2, <1>3

\* The leaves of an answer, those of its MBeans.
LEMMA LeavesUnfold ==
    ASSUME NEW parts, NEW v
    PROVE  Leaves(parts, v) =
              IF ~IsMBeanQuery(parts) THEN MBeanLeaves(parts, <<>>, v)
              ELSE IF v.kind = "map"
              THEN UNION {MBeanLeaves(parts, WildcardTags(parts, f[1]), f[2]) : f \in ToSet(v.fields)} ELSE {}
  <1> DEFINE fields(x) == IF x.kind = "map" THEN ToSet(x.fields) ELSE {}
             beans == IF IsMBeanQuery(parts)
                      THEN {<<WildcardTags(parts, f[1]), f[2]>> : f \in fields(v)} ELSE {<< <<>>, v>>}
             attributes(b) == IF IsAllAttributes(parts)
                              THEN {<<Over(Tag("1", f[1]), b[1]), f[2]>> : f \in fields(b[2])} ELSE {b}
             all == IF IsAllAttributes(parts)
                    THEN UNION {{<<Over(Tag("1", f[1]), b[1]), f[2]>> : f \in fields(b[2])} : b \in beans}
                    ELSE beans
             paths(a) == IF a[2].kind = "map"
                         THEN {<<IF IsAllPaths(parts) THEN Over(Tag("2", f[1]), a[1]) ELSE a[1], f[2]>> : f \in fields(a[2])}
                         ELSE {a}
             found(a) == {Point(x[1], x[2]) : x \in {y \in paths(a) : IsFloat(y[2])}}
  <1>1. Leaves(parts, v) = {Point(x[1], x[2]) : x \in {y \in UNION {paths(a) : a \in all} : IsFloat(y[2])}}
    BY DEF Leaves
  <1>2. \A x : x \in Leaves(parts, v) <=> \E a \in all : x \in found(a)
    <2> HIDE DEF paths, all
    <2> QED BY <1>1
  <1>3. \A tags, w : found(<<tags, w>>) = AttributeLeaves(parts, tags, w)
    <2> SUFFICES ASSUME NEW tags, NEW w
                 PROVE  found(<<tags, w>>) = AttributeLeaves(parts, tags, w)
      OBVIOUS
    <2>1. CASE w.kind = "map"
      <3> DEFINE under(f) == IF IsAllPaths(parts) THEN Over(Tag("2", f[1]), tags) ELSE tags
      <3>1. paths(<<tags, w>>) = {<<under(f), f[2]>> : f \in ToSet(w.fields)} BY <2>1
      <3>2. AttributeLeaves(parts, tags, w) = {Point(under(f), f[2]) : f \in {g \in ToSet(w.fields) : IsFloat(g[2])}}
        BY <2>1 DEF AttributeLeaves
      <3>3. found(<<tags, w>>) = {Point(x[1], x[2]) : x \in {y \in paths(<<tags, w>>) : IsFloat(y[2])}}
        OBVIOUS
      <3> HIDE DEF paths, under, found
      <3>4. {y \in paths(<<tags, w>>) : IsFloat(y[2])} =
                {<<under(f), f[2]>> : f \in {g \in ToSet(w.fields) : IsFloat(g[2])}}
        BY <3>1
      <3>5. ASSUME NEW x \in found(<<tags, w>>)
            PROVE  x \in AttributeLeaves(parts, tags, w)
        BY <3>2, <3>3, <3>4
      <3>6. ASSUME NEW x \in AttributeLeaves(parts, tags, w)
            PROVE  x \in found(<<tags, w>>)
        <4>1. PICK f \in {g \in ToSet(w.fields) : IsFloat(g[2])} : x = Point(under(f), f[2]) BY <3>2
        <4>2. <<under(f), f[2]>> \in {y \in paths(<<tags, w>>) : IsFloat(y[2])} BY <3>4
        <4> QED BY <3>3, <4>1, <4>2
      <3> QED BY <3>5, <3>6
    <2>2. CASE w.kind # "map"
      <3>1. paths(<<tags, w>>) = {<<tags, w>>} BY <2>2
      <3> HIDE DEF paths
      <3> QED BY <2>2, <3>1 DEF AttributeLeaves
    <2> QED BY <2>1, <2>2
  <1> HIDE DEF found
  <1>4. \A tags, w, x : (\E a \in attributes(<<tags, w>>) : x \in found(a)) <=> x \in MBeanLeaves(parts, tags, w)
    <2> SUFFICES ASSUME NEW tags, NEW w, NEW x
                 PROVE  (\E a \in attributes(<<tags, w>>) : x \in found(a)) <=> x \in MBeanLeaves(parts, tags, w)
      OBVIOUS
    <2>1. CASE ~IsAllAttributes(parts)
      <3>1. attributes(<<tags, w>>) = {<<tags, w>>} BY <2>1
      <3>2. MBeanLeaves(parts, tags, w) = AttributeLeaves(parts, tags, w) BY <2>1 DEF MBeanLeaves
      <3> HIDE DEF attributes
      <3> QED BY <1>3, <3>1, <3>2
    <2>2. CASE IsAllAttributes(parts) /\ w.kind = "map"
      <3>1. attributes(<<tags, w>>) = {<<Over(Tag("1", f[1]), tags), f[2]>> : f \in ToSet(w.fields)} BY <2>2
      <3>2. MBeanLeaves(parts, tags, w) =
                UNION {AttributeLeaves(parts, Over(Tag("1", f[1]), tags), f[2]) : f \in ToSet(w.fields)}
        BY <2>2 DEF MBeanLeaves
      <3> HIDE DEF attributes
      <3> QED BY <1>3, <3>1, <3>2
    <2>3. CASE IsAllAttributes(parts) /\ w.kind # "map" BY <2>3 DEF MBeanLeaves
    <2> QED BY <2>1, <2>2, <2>3
  <1>5. \A a : a \in all <=> \E b \in beans : a \in attributes(b)
    <2> HIDE DEF beans, fields
    <2> QED OBVIOUS
  <1> HIDE DEF all, attributes
  <1>6. \A x : x \in Leaves(parts, v) <=> \E b \in beans : \E a \in attributes(b) : x \in found(a)
    BY <1>2, <1>5
  <1>7. CASE ~IsMBeanQuery(parts)
    <2>1. beans = {<< <<>>, v>>} BY <1>7
    <2> HIDE DEF beans
    <2> QED BY <1>4, <1>6, <1>7, <2>1
  <1>8. CASE IsMBeanQuery(parts) /\ v.kind = "map"
    <2>1. beans = {<<WildcardTags(parts, f[1]), f[2]>> : f \in ToSet(v.fields)} BY <1>8
    <2> HIDE DEF beans
    <2>2. \A x : x \in Leaves(parts, v) <=>
            \E f \in ToSet(v.fields) : x \in MBeanLeaves(parts, WildcardTags(parts, f[1]), f[2])
      <3> SUFFICES ASSUME NEW x
                   PROVE  x \in Leaves(parts, v) <=>
                            \E f \in ToSet(v.fields) : x \in MBeanLeaves(parts, WildcardTags(parts, f[1]), f[2])
        OBVIOUS
      <3>1. x \in Leaves(parts, v) <=> \E b \in beans : \E a \in attributes(b) : x \in found(a) BY <1>6
      <3>2. ASSUME NEW f \in ToSet(v.fields)
            PROVE  (\E a \in attributes(<<WildcardTags(parts, f[1]), f[2]>>) : x \in found(a))
                        <=> x \in MBeanLeaves(parts, WildcardTags(parts, f[1]), f[2])
        BY <1>4
      <3> QED BY <2>1, <3>1, <3>2
    <2> QED BY <1>8, <2>2
  <1>9. CASE IsMBeanQuery(parts) /\ v.kind # "map"
    <2>1. beans = {} BY <1>9
    <2> HIDE DEF beans
    <2> QED BY <1>6, <1>9, <2>1
  <1> QED BY <1>7, <1>8, <1>9

\* The points that the collector makes of an answer are its leaves, as long as
\* composite attributes hold no maps, and no key of an MBean is called like the
\* tags of attributes and paths.
THEOREM PointsAreLeaves ==
    ASSUME NEW a, IsAnswer(a), a.kind # "error",
           NEW parts, IsFlat(parts, a), "1" \notin parts.keys, "2" \notin parts.keys
    PROVE  ToSet(ProcessJolokiaResponseValueObject(parts, a)) = Leaves(parts, a)
  <1> DEFINE points == ProcessJolokiaResponseValueObject(parts, a)
  <1>1. Nesting \in Nat \ {0} BY JolokiaConstants
  <1>2. a \in Below(a)[0] BY BelowFacts
  <1>3. ASSUME NEW n \in 0 .. 2, NEW v \in Below(a)[n], v.kind = "map"
        PROVE  IsList(v.fields) /\ \A i \in DOMAIN v.fields : v.fields[i][2] \in Below(a)[n + 1]
    <2>1. n \in 0 .. Nesting + 2 /\ n # Nesting + 2 BY <1>1
    <2> QED BY <1>3, <2>1, MapFacts DEF IsMap
  <1> DEFINE bean == IF IsMBeanQuery(parts) THEN 1 ELSE 0
             attribute == bean + (IF IsAllAttributes(parts) THEN 1 ELSE 0)
  <1>4. bean \in 0 .. 1 /\ attribute \in 0 .. 2 OBVIOUS
  <1>5. \A x \in Below(a)[attribute + 1] : x.kind # "map"
    <2>1. attribute + 1 = 1 + (IF IsMBeanQuery(parts) THEN 1 ELSE 0) + (IF IsAllAttributes(parts) THEN 1 ELSE 0)
      OBVIOUS
    <2> QED BY <2>1 DEF IsFlat
  <1>6. attribute = IF IsAllAttributes(parts) THEN bean + 1 ELSE bean OBVIOUS
  <1> HIDE DEF attribute
  <1>7. \A v \in Below(a)[attribute] : IsFlatAttribute(v)
    BY <1>3, <1>4, <1>5 DEF IsFlatAttribute
  <1>8. ASSUME NEW v \in Below(a)[bean]
        PROVE  IsFlatMBean(parts, v)
    <2>1. bean \in 0 .. 2 BY <1>4
    <2> HIDE DEF bean
    <2>2. CASE IsAllAttributes(parts) BY <1>3, <1>6, <1>7, <2>1, <2>2 DEF IsFlatMBean
    <2>3. CASE ~IsAllAttributes(parts) BY <1>6, <1>7, <2>3 DEF IsFlatMBean
    <2> QED BY <2>2, <2>3
  <1>9. CASE ~IsMBeanQuery(parts)
    <2>1. points = processSingleMBean(parts, a) BY <1>9 DEF ProcessJolokiaResponseValueObject
    <2>2. IsFlatMBean(parts, a) BY <1>2, <1>8, <1>9
    <2>3. /\ ArePoints(ToSet(points))
          /\ Retagged(ToSet(points), <<>>) = MBeanLeaves(parts, <<>>, a)
      <3>1. IsTags(<<>>) /\ "1" \notin DOMAIN <<>> /\ "2" \notin DOMAIN <<>> BY TagsFacts
      <3> HIDE DEF points
      <3> QED BY <2>1, <2>2, <3>1, MBeanPoints
    <2>4. Leaves(parts, a) = MBeanLeaves(parts, <<>>, a) BY <1>9, LeavesUnfold
    <2> HIDE DEF points
    <2> QED BY <2>3, <2>4, RetaggedFacts DEF points
  <1>10. CASE IsMBeanQuery(parts) /\ a.kind # "map"
    <2>1. points = <<>> BY <1>10 DEF ProcessJolokiaResponseValueObject, processMultipleMBeans
    <2>2. Leaves(parts, a) = {} BY <1>10, LeavesUnfold
    <2> QED BY <2>1, <2>2, SmallLists
  <1>11. CASE IsMBeanQuery(parts) /\ a.kind = "map"
    <2> DEFINE wild(i) == WildcardTags(parts, a.fields[i][1])
               f == [i \in DOMAIN a.fields |-> PutTags(processSingleMBean(parts, a.fields[i][2]), wild(i))]
    <2>1. points = FlattenSeq(f) BY <1>11 DEF ProcessJolokiaResponseValueObject, processMultipleMBeans
    <2>2. f = [i \in DOMAIN a.fields |-> f[i]] /\ DOMAIN f = DOMAIN a.fields OBVIOUS
    <2>3. \A i \in DOMAIN a.fields : f[i] = PutTags(processSingleMBean(parts, a.fields[i][2]), wild(i))
      OBVIOUS
    <2> HIDE DEF f
    <2>4. IsList(a.fields) /\ \A i \in DOMAIN a.fields : IsFlatMBean(parts, a.fields[i][2])
      <3>1. 0 \in 0 .. 2 /\ 0 + 1 = 1 /\ bean = 1 BY <1>11
      <3> HIDE DEF bean
      <3> QED BY <1>2, <1>3, <1>8, <1>11, <3>1
    <2>5. ASSUME NEW i \in DOMAIN a.fields
          PROVE  /\ IsList(f[i]) /\ ArePoints(ToSet(f[i]))
                 /\ ToSet(f[i]) = MBeanLeaves(parts, wild(i), a.fields[i][2])
      <3> DEFINE own == processSingleMBean(parts, a.fields[i][2])
      <3>1. IsTags(wild(i)) /\ "1" \notin DOMAIN wild(i) /\ "2" \notin DOMAIN wild(i)
        BY TagsFacts DEF WildcardTags, IsTags
      <3> HIDE DEF wild
      <3>2. /\ IsList(own) /\ ArePoints(ToSet(own))
            /\ Retagged(ToSet(own), wild(i)) = MBeanLeaves(parts, wild(i), a.fields[i][2])
        BY <2>4, <3>1, MBeanPoints
      <3> HIDE DEF own
      <3>3. f[i] = PutTags(own, wild(i)) BY <2>3 DEF own
      <3>4. ToSet(f[i]) = Retagged(ToSet(own), wild(i)) BY <3>2, <3>3, RetaggedFacts
      <3>5. IsList(f[i]) BY <3>2, <3>3, PutTagsList
      <3>6. ArePoints(ToSet(f[i])) BY <3>4, RetaggedFacts
      <3> QED BY <3>2, <3>4, <3>5, <3>6
    <2>6. IsList(f) BY <2>2, <2>4, MappedList
    <2>7. ToSet(points) = UNION {ToSet(f[i]) : i \in DOMAIN f} BY <2>1, <2>2, <2>5, <2>6, FlattenedList
    <2>8. Leaves(parts, a) =
            UNION {MBeanLeaves(parts, WildcardTags(parts, g[1]), g[2]) : g \in ToSet(a.fields)}
      BY <1>11, LeavesUnfold
    <2> HIDE DEF points
    <2>9. ASSUME NEW x \in ToSet(points)
          PROVE  x \in Leaves(parts, a)
      <3>1. PICK i \in DOMAIN a.fields : x \in MBeanLeaves(parts, wild(i), a.fields[i][2])
        BY <2>2, <2>5, <2>7
      <3>2. a.fields[i] \in ToSet(a.fields) BY DEF ToSet
      <3> QED BY <2>8, <3>1, <3>2
    <2>10. ASSUME NEW x \in Leaves(parts, a)
           PROVE  x \in ToSet(points)
      <3>1. PICK g \in ToSet(a.fields) : x \in MBeanLeaves(parts, WildcardTags(parts, g[1]), g[2]) BY <2>8
      <3>2. PICK i \in DOMAIN a.fields : g = a.fields[i] BY DEF ToSet
      <3>3. x \in ToSet(f[i]) BY <2>5, <3>1, <3>2
      <3> QED BY <2>2, <2>7, <3>3
    <2> QED BY <2>9, <2>10 DEF points
  <1> QED BY <1>9, <1>10, <1>11

\* A header that can be split: its data points are a list.
IsHeader(h) == IsList(h.data)

\* The headers of the Jolokia collector.
LEMMA JolokiaHeadersFacts ==
    ASSUME NEW ms, IsList(ms), NEW beans \in Beans
    PROVE  /\ IsList(JolokiaHeaders(ms, beans))
           /\ \A h \in ToSet(JolokiaHeaders(ms, beans)) : IsHeader(h)
  <1> DEFINE names == [i \in DOMAIN ms |-> IF NewMetricNameParts(ms[i].name).valid THEN <<ms[i].name>> ELSE <<>>]
             responses == SendRequests(Requests(ms), beans)
             points(i) == IF responses[i].kind = "error" THEN <<>>
                          ELSE ProcessJolokiaResponseValueObject(PartsOf(ms[i].name), responses[i])
             header(i, j) == [name |-> ms[i].name, type |-> ms[i].type, data |-> <<points(i)[j]>>]
             headers == [i \in DOMAIN responses |-> [j \in DOMAIN points(i) |-> header(i, j)]]
  <1>1. JolokiaHeaders(ms, beans) = FlattenSeq(headers) BY DEF JolokiaHeaders
  <1>2. Requests(ms) = FlattenSeq(names) BY DEF Requests
  <1>3. IsList(Requests(ms))
    <2>1. names = [i \in DOMAIN ms |-> names[i]] OBVIOUS
    <2>2. \A i \in DOMAIN names : names[i] = <<ms[i].name>> \/ names[i] = <<>> OBVIOUS
    <2> HIDE DEF names
    <2>3. IsList(names) BY <2>1, MappedList
    <2>4. \A i \in DOMAIN names : IsList(names[i]) BY <2>2, SmallLists
    <2> QED BY <1>2, <2>3, <2>4, FlattenedList
  <1>4. /\ DOMAIN responses = DOMAIN Requests(ms)
        /\ responses = [i \in DOMAIN Requests(ms) |-> responses[i]]
        /\ \A i \in DOMAIN responses : responses[i].kind # "error" => IsAnswer(responses[i])
    <2>1. \A n \in DOMAIN beans : IsAnswer(beans[n]) BY CollectionConstants
    <2> QED BY <2>1 DEF SendRequests
  <1> HIDE DEF responses
  <1>5. IsList(responses) BY <1>3, <1>4, MappedList
  <1>6. \A i \in DOMAIN responses : IsList(points(i)) BY <1>4, AnswerList, SmallLists
  <1> HIDE DEF points
  <1>7. ASSUME NEW i \in DOMAIN responses
        PROVE  IsList(headers[i]) /\ \A h \in ToSet(headers[i]) : IsHeader(h)
    <2> DEFINE f == [j \in DOMAIN points(i) |-> header(i, j)]
    <2>1. headers[i] = f OBVIOUS
    <2>2. f = [j \in DOMAIN points(i) |-> f[j]] OBVIOUS
    <2>3. \A j \in DOMAIN points(i) : f[j].data = <<points(i)[j]>> OBVIOUS
    <2> HIDE DEF f
    <2>4. \A j \in DOMAIN points(i) : IsHeader(f[j]) BY <2>3, SmallLists DEF IsHeader
    <2>5. IsList(f) /\ ToSet(f) = {f[j] : j \in DOMAIN points(i)} BY <1>6, <2>2, MappedList
    <2> QED BY <2>1, <2>4, <2>5
  <1>8. headers = [i \in DOMAIN responses |-> headers[i]] /\ DOMAIN headers = DOMAIN responses OBVIOUS
  <1> HIDE DEF headers
  <1>9. IsList(headers) BY <1>5, <1>8, MappedList
  <1>10. /\ IsList(FlattenSeq(headers))
         /\ ToSet(FlattenSeq(headers)) = UNION {ToSet(headers[i]) : i \in DOMAIN headers}
    BY <1>7, <1>8, <1>9, FlattenedList
  <1> QED BY <1>1, <1>7, <1>8, <1>10

\* No invalid name comes before a valid one.  The i-th answer is taken for the i-th
\* metric although those with invalid names are not asked for
\* (jolokia_metrics_collector.go:104, :124), so that only then it is its own.
ValidFirst(names) ==
    \A i, j \in DOMAIN names :
        i < j /\ NewMetricNameParts(names[j]).valid => NewMetricNameParts(names[i]).valid

\* The answer to a name is taken apart completely: no composite attribute in it
\* holds maps, each of which would replace the metrics found before it
\* (process_jolokia_response.go:264), and no wildcard is the value of a key called
\* 1 or 2, whose tag would replace that of an attribute or a path.
TakenApart(n, beans) ==
    n \in DOMAIN beans /\ beans[n].kind # "error" =>
        LET parts == NewMetricNameParts(n)
        IN  IsFlat(parts, beans[n]) /\ "1" \notin parts.keys /\ "2" \notin parts.keys

LeavesOf(n, beans) ==
    IF n \in DOMAIN beans /\ NewMetricNameParts(n).valid /\ beans[n].kind # "error"
    THEN Leaves(NewMetricNameParts(n), beans[n]) ELSE {}

\* The names that are asked for are then the first ones.
LEMMA FirstAreAsked ==
    ASSUME NEW ms, IsList(ms), ValidFirst([i \in DOMAIN ms |-> ms[i].name])
    PROVE  \E k \in 0 .. Len(ms) :
                /\ \A i \in DOMAIN ms : NewMetricNameParts(ms[i].name).valid <=> i <= k
                /\ Len(Requests(ms)) = k /\ DOMAIN Requests(ms) = 1 .. k
                /\ \A i \in 1 .. k : Requests(ms)[i] = ms[i].name
  <1> DEFINE valid(i) == NewMetricNameParts(ms[i].name).valid
             V == {0} \cup {i \in DOMAIN ms : valid(i)}
             names == [i \in DOMAIN ms |-> IF valid(i) THEN <<ms[i].name>> ELSE <<>>]
  <1>1. Len(ms) \in Nat /\ DOMAIN ms = 1 .. Len(ms) BY ListFacts DEF IsList
  <1>2. \A i, j \in DOMAIN ms : i < j /\ valid(j) => valid(i) BY DEF ValidFirst
  <1>3. Requests(ms) = FlattenSeq(names) BY DEF Requests
  <1>4. names = [i \in DOMAIN ms |-> names[i]] /\ DOMAIN names = DOMAIN ms OBVIOUS
  <1>5. \A i \in DOMAIN ms : IF valid(i) THEN names[i] = <<ms[i].name>> ELSE names[i] = <<>> OBVIOUS
  <1> HIDE DEF valid, names
  <1>6. PICK k \in V : \A i \in V : i <= k
    <2>1. V \subseteq 0 .. Len(ms) /\ 0 \in V BY <1>1
    <2> HIDE DEF V
    <2>2. Max(V) \in V /\ \A i \in V : Max(V) >= i BY <1>1, <2>1, MaxIsIn
    <2>3. \A i \in V : i \in Int BY <2>1
    <2> QED BY <2>2, <2>3
  <1>7. k \in 0 .. Len(ms) BY <1>1
  <1>8. \A i \in DOMAIN ms : valid(i) <=> i <= k
    <2>1. ASSUME NEW i \in DOMAIN ms, i <= k PROVE valid(i)
      <3>1. k # 0 /\ k \in DOMAIN ms /\ valid(k) BY <1>1, <2>1
      <3>2. i < k \/ i = k BY <1>1, <2>1, <3>1
      <3> QED BY <1>2, <3>1, <3>2
    <2> QED BY <1>6, <2>1
  <1> HIDE DEF V
  <1>9. IsList(names) /\ Len(names) = Len(ms) BY <1>4, MappedList
  <1>10. \A i \in DOMAIN names : IsList(names[i]) BY <1>4, <1>5, SmallLists
  <1>11. OnesFirst(names, k)
    <2>1. Len(<<>>) = 0 /\ \A x : Len(<<x>>) = 1 OBVIOUS
    <2>2. \A i \in DOMAIN ms : IF valid(i) THEN Len(names[i]) = 1 ELSE Len(names[i]) = 0 BY <1>5, <2>1
    <2> QED BY <1>4, <1>8, <2>2 DEF OnesFirst
  <1>12. /\ IsList(Requests(ms)) /\ Len(Requests(ms)) = k
         /\ \A i \in 1 .. k : Requests(ms)[i] = names[i][1]
    BY <1>3, <1>7, <1>9, <1>10, <1>11, FlattenedList
  <1>13. DOMAIN Requests(ms) = 1 .. k BY <1>12, ListFacts DEF IsList
  <1>14. \A i \in 1 .. k : Requests(ms)[i] = ms[i].name
    <2>1. \A i \in 1 .. k : i \in DOMAIN ms /\ i <= k BY <1>1, <1>7
    <2> QED BY <1>5, <1>8, <1>12, <2>1
  <1> QED BY <1>7, <1>8, <1>12, <1>13, <1>14 DEF valid

\* Then there is a header for each leaf, under the metric's own name: the answers
\* are not taken for those to other names.
LEMMA JolokiaHeadersAreLeaves ==
    ASSUME NEW ms, IsList(ms), ValidFirst([i \in DOMAIN ms |-> ms[i].name]), NEW beans \in Beans,
           NEW n, TakenApart(n, beans), NEW d
    PROVE  (\E h \in ToSet(JolokiaHeaders(ms, beans)) : h.name = n /\ h.data = d)
                <=> (\E m \in ToSet(ms) : m.name = n) /\ \E x \in LeavesOf(n, beans) : d = <<x>>
  <1> DEFINE responses == SendRequests(Requests(ms), beans)
             points(i) == IF responses[i].kind = "error" THEN <<>>
                          ELSE ProcessJolokiaResponseValueObject(PartsOf(ms[i].name), responses[i])
             header(i, j) == [name |-> ms[i].name, type |-> ms[i].type, data |-> <<points(i)[j]>>]
             headers == [i \in DOMAIN responses |-> [j \in DOMAIN points(i) |-> header(i, j)]]
  <1>1. JolokiaHeaders(ms, beans) = FlattenSeq(headers) BY DEF JolokiaHeaders
  <1>2. Len(ms) \in Nat /\ DOMAIN ms = 1 .. Len(ms) /\ \A i \in DOMAIN ms : ms[i] \in ToSet(ms)
    BY ListFacts DEF IsList, ToSet
  <1>3. PICK k \in 0 .. Len(ms) :
                /\ \A i \in DOMAIN ms : NewMetricNameParts(ms[i].name).valid <=> i <= k
                /\ Len(Requests(ms)) = k /\ DOMAIN Requests(ms) = 1 .. k
                /\ \A i \in 1 .. k : Requests(ms)[i] = ms[i].name
    BY FirstAreAsked
  <1>4. /\ DOMAIN responses = 1 .. k /\ responses = [i \in 1 .. k |-> responses[i]]
        /\ \A i \in 1 .. k :
                responses[i] = IF ms[i].name \in DOMAIN beans THEN beans[ms[i].name] ELSE [kind |-> "error"]
    BY <1>3 DEF SendRequests
  <1>5. /\ \A i \in 1 .. k : i \in DOMAIN ms /\ NewMetricNameParts(ms[i].name).valid
        /\ \A i \in DOMAIN ms : i \in 1 .. k \/ ~NewMetricNameParts(ms[i].name).valid
    BY <1>2, <1>3
  <1> HIDE DEF responses
  <1>6. ASSUME NEW i \in 1 .. k
        PROVE  IsList(points(i)) /\ (ms[i].name = n => ToSet(points(i)) = LeavesOf(n, beans))
    <2>1. CASE ms[i].name \in DOMAIN beans /\ beans[ms[i].name].kind # "error"
      <3> DEFINE parts == NewMetricNameParts(ms[i].name)  a == beans[ms[i].name]
      <3>1. parts.valid BY <1>5
      <3>2. points(i) = ProcessJolokiaResponseValueObject(parts, a)
        BY <1>4, <2>1, <3>1 DEF PartsOf
      <3>3. IsAnswer(a) BY <2>1, CollectionConstants
      <3>4. ms[i].name = n =>
                /\ IsFlat(parts, a) /\ "1" \notin parts.keys /\ "2" \notin parts.keys
                /\ LeavesOf(n, beans) = Leaves(parts, a)
        BY <2>1, <3>1 DEF TakenApart, LeavesOf
      <3> HIDE DEF parts, points
      <3>5. IsList(points(i)) BY <2>1, <3>2, <3>3, AnswerList
      <3>6. ms[i].name = n => ToSet(points(i)) = Leaves(parts, a)
        BY <2>1, <3>2, <3>3, <3>4, PointsAreLeaves
      <3> QED BY <3>4, <3>5, <3>6
    <2>2. CASE ~(ms[i].name \in DOMAIN beans /\ beans[ms[i].name].kind # "error")
      <3>1. points(i) = <<>> BY <1>4, <2>2
      <3>2. ms[i].name = n => LeavesOf(n, beans) = {} BY <2>2 DEF LeavesOf
      <3> QED BY <3>1, <3>2, SmallLists
    <2> QED BY <2>1, <2>2
  <1> HIDE DEF points
  <1>7. ASSUME NEW i \in 1 .. k
        PROVE  /\ IsList(headers[i])
               /\ \A h : h \in ToSet(headers[i]) <=> \E j \in DOMAIN points(i) : h = header(i, j)
    <2> DEFINE f == [j \in DOMAIN points(i) |-> header(i, j)]
    <2>1. headers[i] = f BY <1>4
    <2>2. f = [j \in DOMAIN points(i) |-> f[j]] /\ \A j \in DOMAIN points(i) : f[j] = header(i, j) OBVIOUS
    <2> HIDE DEF f, header
    <2>3. IsList(f) /\ ToSet(f) = {f[j] : j \in DOMAIN points(i)} BY <1>6, <2>2, MappedList
    <2> QED BY <2>1, <2>2, <2>3
  <1>8. headers = [i \in 1 .. k |-> headers[i]] /\ DOMAIN headers = 1 .. k BY <1>4
  <1>9. \A i, j : header(i, j).name = ms[i].name /\ header(i, j).data = <<points(i)[j]>> OBVIOUS
  <1> HIDE DEF headers, header
  <1>10. IsList(headers)
    <2>1. \A i \in 1 .. k : headers[i] \in ToSet(headers) BY <1>8 DEF ToSet
    <2>2. k \in Nat BY <1>2
    <2>3. headers \in Seq(ToSet(headers)) BY <1>8, <2>1, <2>2
    <2> QED BY <2>3 DEF IsList
  <1>11. ToSet(FlattenSeq(headers)) = UNION {ToSet(headers[i]) : i \in DOMAIN headers}
    BY <1>7, <1>8, <1>10, FlattenedList
  <1>12. ASSUME NEW h \in ToSet(JolokiaHeaders(ms, beans)), h.name = n, h.data = d
         PROVE  (\E m \in ToSet(ms) : m.name = n) /\ \E x \in LeavesOf(n, beans) : d = <<x>>
    <2>1. PICK i \in 1 .. k : h \in ToSet(headers[i]) BY <1>1, <1>8, <1>11
    <2>2. PICK j \in DOMAIN points(i) : h = header(i, j) BY <1>7, <2>1
    <2>3. ms[i].name = n /\ d = <<points(i)[j]>> BY <1>9, <1>12, <2>2
    <2>4. points(i)[j] \in LeavesOf(n, beans) BY <1>6, <2>2, <2>3 DEF ToSet
    <2> QED BY <1>2, <1>5, <2>3, <2>4
  <1>13. ASSUME NEW m \in ToSet(ms), m.name = n, NEW x \in LeavesOf(n, beans), d = <<x>>
         PROVE  \E h \in ToSet(JolokiaHeaders(ms, beans)) : h.name = n /\ h.data = d
    <2>1. PICK i \in DOMAIN ms : m = ms[i] BY DEF ToSet
    <2>2. NewMetricNameParts(n).valid BY DEF LeavesOf
    <2>3. i \in 1 .. k /\ ms[i].name = n BY <1>5, <1>13, <2>1, <2>2
    <2>4. x \in ToSet(points(i)) BY <1>6, <2>3
    <2>5. PICK j \in DOMAIN points(i) : x = points(i)[j] BY <2>4 DEF ToSet
    <2>6. header(i, j) \in ToSet(headers[i]) BY <1>7, <2>3, <2>5
    <2>7. header(i, j) \in ToSet(JolokiaHeaders(ms, beans)) BY <1>1, <1>8, <1>11, <2>3, <2>6
    <2> QED BY <1>9, <1>13, <2>3, <2>5, <2>7
  <1> QED BY <1>12, <1>13
-----------------------------------------------------------------------------
(* So do the Prometheus and the JSON collector.                            *)

\* A finite set as a list.
LEMMA SetToSeqFacts ==
    ASSUME NEW S, IsFiniteSet(S)
    PROVE  IsList(SetToSeq(S)) /\ ToSet(SetToSeq(S)) = S
  <1> DEFINE n == Cardinality(S)  f == SetToSeq(S)
  <1>1. n \in Nat /\ ExistsBijection(1 .. n, S) BY FS_CardinalityType
  <1>2. PICK b : b \in Bijection(1 .. n, S) BY <1>1, Fun_ExistsBij
  <1>3. b \in [1 .. n -> S] /\ IsInjective(b) BY <1>2 DEF Bijection, Injection
  <1>4. f \in [1 .. n -> S] /\ IsInjective(f) BY <1>3 DEF SetToSeq
  <1> HIDE DEF f
  <1>5. f \in Injection(1 .. n, S) BY <1>4 DEF Injection
  <1>6. Cardinality(1 .. n) = n BY <1>1, FS_Interval
  <1>7. f \in Surjection(1 .. n, S) BY <1>5, <1>6, FS_Injection
  <1>8. \A x \in S : \E i \in 1 .. n : f[i] = x BY <1>7 DEF Surjection
  <1>9. f \in Seq(S) /\ DOMAIN f = 1 .. n BY <1>1, <1>4
  <1>10. ToSet(f) = S BY <1>4, <1>8, <1>9 DEF ToSet
  <1> QED BY <1>9, <1>10, ListFacts DEF f

\* The headers of the Prometheus collector are those of the families asked for.
LEMMA PrometheusHeadersFacts ==
    ASSUME NEW names, NEW families \in Families
    PROVE  LET headers == PrometheusHeaders(names, families) IN
           /\ IsList(headers)
           /\ ToSet(headers) = {ConvertFamily(f) : f \in ToCollect(names, families)}
           /\ \A h \in ToSet(headers) : IsHeader(h) /\ IsString(h.name)
  <1> DEFINE headers == PrometheusHeaders(names, families)
             chosen == SetToSeq(ToCollect(names, families))
  <1>1. /\ IsFiniteSet(families)
        /\ \A f \in families : IsString(f.name) /\ IsList(f.samples)
    BY CollectionConstants DEF IsList
  <1>2. ToCollect(names, families) \subseteq families BY DEF ToCollect
  <1>3. IsList(chosen) /\ ToSet(chosen) = ToCollect(names, families)
    BY <1>1, <1>2, FS_Subset, SetToSeqFacts
  <1>4. /\ headers = [i \in DOMAIN chosen |-> headers[i]]
        /\ \A i \in DOMAIN chosen : headers[i] = ConvertFamily(chosen[i])
    BY DEF PrometheusHeaders
  <1> HIDE DEF headers, chosen
  <1>5. IsList(headers) /\ ToSet(headers) = {headers[i] : i \in DOMAIN chosen} BY <1>3, <1>4, MappedList
  <1>6. ToSet(headers) = {ConvertFamily(f) : f \in ToCollect(names, families)}
    BY <1>3, <1>4, <1>5 DEF ToSet
  <1>7. \A h \in ToSet(headers) : IsHeader(h) /\ IsString(h.name)
    BY <1>1, <1>2, <1>6 DEF ConvertFamily, IsHeader
  <1> QED BY <1>5, <1>6, <1>7 DEF headers

\* The headers made of the list that the JSON collector returns.
LEMMA JSONHeadersFacts ==
    ASSUME NEW list, IsList(list)
    PROVE  LET headers == [i \in DOMAIN list |-> JSONHeader(list[i])] IN
           /\ IsList(headers)
           /\ \A h \in ToSet(headers) : IsHeader(h) /\ IsString(h.name)
  <1> DEFINE headers == [i \in DOMAIN list |-> JSONHeader(list[i])]
  <1>1. headers = [i \in DOMAIN list |-> headers[i]] OBVIOUS
  <1>2. ASSUME NEW m
        PROVE  IsHeader(JSONHeader(m)) /\ IsString(JSONHeader(m).name)
    <2>1. \E x : JSONHeader(m).data = <<x>> \/ JSONHeader(m).data = <<>>
      <3> DEFINE labels == [k \in {LabelName[i] : i \in DOMAIN m.key.labels} |->
                               m.key.labels[CHOOSE i \in DOMAIN m.key.labels : LabelName[i] = k]]
                 point == [tags |-> IF m.key.stat = "none" THEN labels
                                    ELSE Over(Tag("array_stat", m.key.stat), labels),
                           value |-> m.value]
      <3>1. JSONHeader(m).data = IF m = Blank THEN <<>> ELSE <<point>> BY DEF JSONHeader
      <3> HIDE DEF point
      <3> QED BY <3>1
    <2>2. JSONHeader(m).name = <<Text(m.key.id)>> BY DEF JSONHeader
    <2>3. IsHeader(JSONHeader(m)) BY <2>1, SmallLists DEF IsHeader
    <2>4. IsString(<<Text(m.key.id)>>) BY SmallLists, StringFacts DEF Text
    <2> QED BY <2>2, <2>3, <2>4
  <1>3. \A i \in DOMAIN list : headers[i] = JSONHeader(list[i]) OBVIOUS
  <1> HIDE DEF headers
  <1>4. IsList(headers) /\ ToSet(headers) = {headers[i] : i \in DOMAIN list} BY <1>1, MappedList
  <1> QED BY <1>2, <1>3, <1>4 DEF headers
-----------------------------------------------------------------------------
(* What the worker makes of the headers.                                   *)

\* The template of an ID is a string.
LEMMA TemplateIsString ==
    ASSUME NEW p, NEW h, IsString(MetricOf(p, h).id)
    PROVE  IsString(Template(p, h))
  <1> DEFINE prefix == Expand(Prefix, Over(PodEnv[p], OSEnv), FALSE)
             own == Expand(MetricOf(p, h).id, PodEnv[p], TRUE)
             label(k) == IF k \in LabelsIn(h) THEN <<Text(k), Token(k)>> ELSE <<>>
             labels == [i \in DOMAIN LabelOrder |-> label(LabelOrder[i])]
  <1>1. IsString(prefix) /\ IsString(own)
    BY ExpandFacts, CollectionConstants
  <1>2. IsString(prefix \o own)
    <2> HIDE DEF prefix, own
    <2> QED BY <1>1, JoinedString
  <1>3. \A k : IsList(label(k)) /\ \A part \in ToSet(label(k)) : part[1] \in {"text", "token"}
    BY SmallLists DEF Text, Token
  <1>4. IsString(FlattenSeq(labels))
    <2>1. IsList(LabelOrder) BY CollectionConstants DEF IsList
    <2>2. labels = [i \in DOMAIN LabelOrder |-> labels[i]] OBVIOUS
    <2>3. DOMAIN labels = DOMAIN LabelOrder OBVIOUS
    <2>4. \A i \in DOMAIN labels : IsList(labels[i]) /\ \A part \in ToSet(labels[i]) : part[1] \in {"text", "token"}
      <3>1. \A i \in DOMAIN labels : labels[i] = label(LabelOrder[i]) OBVIOUS
      <3> HIDE DEF label, labels
      <3> QED BY <1>3, <3>1
    <2> HIDE DEF labels
    <2>5. IsList(labels) BY <2>1, <2>2, MappedList
    <2>6. /\ IsList(FlattenSeq(labels))
          /\ ToSet(FlattenSeq(labels)) = UNION {ToSet(labels[i]) : i \in DOMAIN labels}
      BY <2>4, <2>5, FlattenedList
    <2> QED BY <2>4, <2>6, StringFacts
  <1>5. Template(p, h) = IF HasTokens(prefix \o own) THEN prefix \o own ELSE (prefix \o own) \o FlattenSeq(labels)
    BY DEF Template
  <1> HIDE DEF prefix, own, labels
  <1> QED BY <1>2, <1>4, <1>5, JoinedString

\* What a header is split into: pieces of its metric, with fully expanded IDs.
LEMMA SplitFacts ==
    ASSUME NEW p, NEW h, IsHeader(h), IsString(MetricOf(p, h).id)
    PROVE  /\ IsList(Split(p, h))
           /\ \A x \in ToSet(Split(p, h)) : ~HasTokens(x.id) /\ x.metric = MetricOf(p, h)
  <1> DEFINE t == Template(p, h)
             piece(id, data, labels) ==
                [id |-> id, name |-> h.name, type |-> h.type, data |-> data, labels |-> labels, metric |-> MetricOf(p, h)]
             split == [j \in DOMAIN h.data |-> piece(Expand(t, h.data[j].tags, FALSE), <<h.data[j]>>, h.data[j].tags)]
  <1>1. IsString(t) BY TemplateIsString
  <1>2. CASE HasTokens(t)
    <2>1. Split(p, h) = split BY <1>2 DEF Split
    <2>2. split = [j \in DOMAIN h.data |-> split[j]] OBVIOUS
    <2>3. \A j \in DOMAIN h.data :
              split[j].id = Expand(t, h.data[j].tags, FALSE) /\ split[j].metric = MetricOf(p, h)
      OBVIOUS
    <2> HIDE DEF split, t
    <2>4. IsList(split) /\ ToSet(split) = {split[j] : j \in DOMAIN h.data} BY <2>2, MappedList DEF IsHeader
    <2>5. ASSUME NEW j \in DOMAIN h.data
          PROVE  ~HasTokens(split[j].id)
      <3>1. ~HasTokens(Expand(t, h.data[j].tags, FALSE)) BY <1>1, ExpandFacts
      <3> QED BY <2>3, <3>1
    <2>6. \A x \in ToSet(split) : ~HasTokens(x.id) /\ x.metric = MetricOf(p, h) BY <2>3, <2>4, <2>5
    <2> QED BY <2>1, <2>4, <2>6
  <1>3. CASE ~HasTokens(t)
    <2>1. Split(p, h) = <<piece(t, h.data, <<>>)>> BY <1>3 DEF Split
    <2> QED BY <1>3, <2>1, SmallLists
  <1> QED BY <1>2, <1>3

\* The pieces of all headers.
LEMMA PiecesFacts ==
    ASSUME NEW p, IsList(worker[p].headers),
           \A h \in ToSet(worker[p].headers) :
                Knows(p, h) => IsHeader(h) /\ IsString(MetricOf(p, h).id)
    PROVE  /\ IsList(Pieces(p))
           /\ \A x \in ToSet(Pieces(p)) :
                ~HasTokens(x.id) /\ \E h \in ToSet(worker[p].headers) : Knows(p, h) /\ x \in ToSet(Split(p, h))
  <1> DEFINE headers == worker[p].headers
             splits == [i \in DOMAIN headers |-> IF Knows(p, headers[i]) THEN Split(p, headers[i]) ELSE <<>>]
  <1>1. Pieces(p) = FlattenSeq(splits) BY DEF Pieces
  <1>2. splits = [i \in DOMAIN headers |-> splits[i]] /\ DOMAIN splits = DOMAIN headers OBVIOUS
  <1>3. \A i \in DOMAIN headers :
            splits[i] = IF Knows(p, headers[i]) THEN Split(p, headers[i]) ELSE <<>>
    OBVIOUS
  <1>4. \A i \in DOMAIN headers : headers[i] \in ToSet(headers) BY DEF ToSet
  <1> HIDE DEF splits
  <1>5. IsList(splits) BY <1>2, MappedList
  <1>6. \A i \in DOMAIN splits :
            /\ IsList(splits[i])
            /\ \A x \in ToSet(splits[i]) :
                ~HasTokens(x.id) /\ \E h \in ToSet(headers) : Knows(p, h) /\ x \in ToSet(Split(p, h))
    <2> SUFFICES ASSUME NEW i \in DOMAIN headers
                 PROVE  /\ IsList(splits[i])
                        /\ \A x \in ToSet(splits[i]) :
                             ~HasTokens(x.id) /\ \E h \in ToSet(headers) : Knows(p, h) /\ x \in ToSet(Split(p, h))
      BY <1>2
    <2>1. CASE Knows(p, headers[i]) BY <1>3, <1>4, <2>1, SplitFacts
    <2>2. CASE ~Knows(p, headers[i]) BY <1>3, <2>2, SmallLists
    <2> QED BY <2>1, <2>2
  <1>7. IsList(FlattenSeq(splits)) /\ ToSet(FlattenSeq(splits)) = UNION {ToSet(splits[i]) : i \in DOMAIN splits}
    BY <1>5, <1>6, FlattenedList
  <1> QED BY <1>1, <1>6, <1>7
-----------------------------------------------------------------------------
(* The inductive invariant of the workers.                                 *)

IsMetric(m) == DOMAIN m = {"name", "id", "type", "tags"} /\ IsString(m.name) /\ IsString(m.id)

\* The slice has always the metrics of the configuration, whatever their names
\* and IDs became.
Shared ==
    /\ endpoint \in Configurations
    /\ IsList(slice) /\ Len(slice) = Len(endpoint.metrics)
    /\ \A m \in ToSet(slice) : IsMetric(m)

Limited == PodLimit /\ \A p \in Pods, e \in Endpoints : IsFiniteSet(MetricsOf(p, e))

WorkerFields == {"pc", "nameMap", "next", "byName", "rounds", "scraped", "headers", "pieces", "needed",
           "declared", "defined"}

IsWorker(p) ==
    /\ DOMAIN worker[p] = WorkerFields
    /\ worker[p].pc \in {"construct", "expand", "wait", "process", "define", "done"}
    /\ worker[p].rounds \in 0 .. MaxRounds

\* The worker's map has metrics of the slice, and is empty only without any.
HasMap(p) ==
    worker[p].pc \notin {"construct", "expand"} =>
        /\ \A n \in DOMAIN worker[p].byName : IsMetric(worker[p].byName[n])
        /\ worker[p].byName = <<>> => slice = <<>>

\* What the collector returned.
HasHeaders(p) ==
    /\ worker[p].pc \in {"construct", "expand", "wait"} => worker[p].headers = <<>>
    /\ IsList(worker[p].headers)
    /\ \A h \in ToSet(worker[p].headers) : IsHeader(h) /\ (worker[p].byName = <<>> => IsString(h.name))

\* No token is left in the IDs.
Expanded(p) ==
    \A id \in IdsOf(worker[p].pieces) \cup DOMAIN worker[p].defined : ~HasTokens(id)

\* What is defined, and what is about to be.
Defining(p) ==
    LET w == worker[p]
        tracked == MetricsOf(p, endpoint.at[p])
    IN  /\ w.pc # "define" => DOMAIN w.defined = tracked
        /\ w.pc = "define" =>
            DOMAIN w.defined \cup DOMAIN w.needed = tracked /\ DOMAIN w.needed \subseteq IdsOf(w.pieces)
        /\ w.pc \in {"define", "done"} => IdsOf(w.pieces) \subseteq tracked
        /\ w.declared \subseteq DOMAIN w.defined

\* The definitions have the labels of a piece, before and after they are sent.
Labelling(p) ==
    /\ worker[p].pc = "define" => \A id \in DOMAIN worker[p].needed : \E x \in worker[p].pieces :
            x.id = id /\ worker[p].needed[id].tags = Over(x.labels, x.metric.tags)
    /\ worker[p].pc = "done" => \A id \in DOMAIN worker[p].needed : \E x \in worker[p].pieces :
            /\ x.id = id
            /\ worker[p].defined[id].tags = Over(GlobalTags, Over(x.labels, Over(x.metric.tags, endpoint.tags)))

Worker(p) ==
    IsWorker(p) /\ HasMap(p) /\ HasHeaders(p) /\ Expanded(p) /\ Defining(p) /\ Labelling(p)

IInv ==
    /\ Shared /\ Limited
    /\ DOMAIN worker = DOMAIN endpoint.at
    /\ \A p \in DOMAIN worker : Worker(p)
-----------------------------------------------------------------------------
(* The steps of the workers.                                               *)

\* The configuration of an endpoint.
LEMMA ConfigurationFacts ==
    ASSUME endpoint \in Configurations
    PROVE  /\ IsList(endpoint.metrics)
           /\ \A m \in ToSet(endpoint.metrics) : IsMetric(m)
           /\ \A p \in DOMAIN endpoint.at : cid(p) \in CollectorID /\ p \in Pods /\ endpoint.at[p] \in Endpoints
  <1>1. endpoint.at \in MapOf(Pods, Endpoints) BY CollectionConstants
  <1>2. \A p \in DOMAIN endpoint.at : p \in Pods /\ endpoint.at[p] \in Endpoints BY <1>1, MapOfFacts
  <1> QED BY <1>2, CollectionConstants DEF IsList, IsMetric, cid, CollectorID

\* At first there are no workers at work, and the tracker is empty.
LEMMA Initially == Init => IInv
  <1> SUFFICES ASSUME Init PROVE IInv
    OBVIOUS
  <1>1. endpoint \in Configurations /\ slice = endpoint.metrics /\ TrackerInit BY DEF Init
  <1>2. Shared BY <1>1, ConfigurationFacts DEF Shared
  <1>3. \A p, e : MetricsOf(p, e) = {} BY <1>1 DEF TrackerInit, MetricsOf, EndpointsOf
  <1>4. Limited
    <2>1. \A p : PodMetrics(p) = {} BY <1>1 DEF TrackerInit, PodMetrics, EndpointsOf
    <2>2. PodLimit BY <2>1, FS_EmptySet, TrackerConstants DEF PodLimit, PodCount
    <2> QED BY <1>3, <2>2, FS_EmptySet DEF Limited
  <1>5. DOMAIN worker = DOMAIN endpoint.at /\ \A p \in DOMAIN worker : worker[p] = NewWorker BY DEF Init
  <1>6. ASSUME NEW p \in DOMAIN worker
        PROVE  Worker(p)
    <2>1. worker[p] = NewWorker BY <1>5
    <2>2. DOMAIN <<>> = {} /\ ToSet(<<>>) = {} BY SmallLists
    <2>3. IsWorker(p) BY <2>1, CollectionConstants DEF NewWorker, IsWorker, WorkerFields
    <2>4. HasMap(p) BY <2>1 DEF NewWorker, HasMap
    <2>5. HasHeaders(p) BY <2>1, SmallLists DEF NewWorker, HasHeaders
    <2>6. Expanded(p) BY <2>1, <2>2 DEF NewWorker, Expanded, IdsOf
    <2>7. Defining(p) BY <1>3, <2>1, <2>2 DEF NewWorker, Defining
    <2>8. Labelling(p) BY <2>1 DEF NewWorker, Labelling
    <2> QED BY <2>3, <2>4, <2>5, <2>6, <2>7, <2>8 DEF Worker
  <1> QED BY <1>2, <1>4, <1>5, <1>6 DEF IInv

\* A step of one worker, seen by the others: it may change the names and IDs in
\* the slice, and the tracker's metrics of its own endpoint.
LEMMA OthersKeep ==
    ASSUME IInv, NEW p \in DOMAIN worker, Worker(p)', Shared', Limited', UNCHANGED endpoint,
           DOMAIN worker' = DOMAIN worker,
           \A q \in DOMAIN worker : q # p => worker'[q] = worker[q],
           \A q \in DOMAIN worker : q # p => MetricsOf(q, endpoint.at[q])' = MetricsOf(q, endpoint.at[q])
    PROVE  IInv'
  <1>1. slice = <<>> => slice' = <<>>
    <2>1. Len(slice') = Len(slice) BY DEF IInv, Shared
    <2>2. slice' \in Seq(ToSet(slice')) BY DEF Shared, IsList
    <2> QED BY <2>1, <2>2
  <1>2. ASSUME NEW q \in DOMAIN worker, q # p
        PROVE  Worker(q)'
    <2>1. Worker(q) BY DEF IInv
    <2>2. worker'[q] = worker[q] /\ MetricsOf(q, endpoint.at[q])' = MetricsOf(q, endpoint.at[q]) BY <1>2
    <2>3. IsWorker(q)' BY <2>1, <2>2 DEF Worker, IsWorker
    <2>4. HasMap(q)' BY <1>1, <2>1, <2>2 DEF Worker, HasMap
    <2>5. HasHeaders(q)' BY <2>1, <2>2 DEF Worker, HasHeaders
    <2>6. Expanded(q)' BY <2>1, <2>2 DEF Worker, Expanded
    <2>7. Defining(q)' BY <2>1, <2>2 DEF Worker, Defining
    <2>8. Labelling(q)' BY <2>1, <2>2 DEF Worker, Labelling
    <2> QED BY <2>3, <2>4, <2>5, <2>6, <2>7, <2>8 DEF Worker
  <1> QED BY <1>2 DEF IInv

\* Where the tracker is left alone, what is tracked stays.
LEMMA TrackerStays ==
    ASSUME IInv, UNCHANGED <<allMetrics, endpoint>>
    PROVE  Limited' /\ \A p \in DOMAIN worker : MetricsOf(p, endpoint.at[p])' = MetricsOf(p, endpoint.at[p])
  <1>1. \A p, e : MetricsOf(p, e)' = MetricsOf(p, e) BY DEF MetricsOf, EndpointsOf
  <1>2. Limited'
    <2>1. \A p : PodCount(p)' = PodCount(p) BY DEF PodCount, PodMetrics, MetricsOf, EndpointsOf
    <2> QED BY <1>1, <2>1 DEF IInv, Limited, PodLimit
  <1> QED BY <1>1, <1>2

\* The slice keeps its metrics while their names and IDs are replaced by others.
LEMMA SliceChanges ==
    ASSUME Shared, UNCHANGED endpoint, slice' = [i \in DOMAIN slice |-> slice'[i]],
           \A i \in DOMAIN slice : IsMetric(slice[i]) => IsMetric(slice'[i])
    PROVE  Shared'
  <1>1. IsList(slice') /\ Len(slice') = Len(slice) /\ ToSet(slice') = {slice'[i] : i \in DOMAIN slice}
    BY MappedList DEF Shared
  <1>2. \A i \in DOMAIN slice : IsMetric(slice[i]) BY DEF Shared, ToSet
  <1> QED BY <1>1, <1>2 DEF Shared

\* Making the collector.
LEMMA ConstructKeeps ==
    ASSUME IInv, NEW p \in DOMAIN worker, Construct(p)
    PROVE  IInv'
  <1> DEFINE names == {m.name : m \in ToSet(slice)}
  <1>1. /\ worker[p].pc = "construct" /\ UNCHANGED <<allMetrics, endpoint>>
        /\ slice' = [i \in DOMAIN slice |-> [slice[i] EXCEPT !.id = IF @ = <<>> THEN slice[i].name ELSE @]]
        /\ worker' = [worker EXCEPT ![p].pc = "expand", ![p].nameMap = names]
    BY DEF Construct
  <1> HIDE DEF names
  <1>2. Worker(p) BY DEF IInv
  <1>3. DOMAIN worker[p] = WorkerFields BY <1>2 DEF Worker, IsWorker
  <1>4. /\ worker'[p].pc = "expand" /\ DOMAIN worker'[p] = WorkerFields
        /\ \A f \in WorkerFields \ {"pc", "nameMap"} : worker'[p][f] = worker[p][f]
        /\ DOMAIN worker' = DOMAIN worker /\ \A q \in DOMAIN worker : q # p => worker'[q] = worker[q]
    BY <1>1, <1>3 DEF WorkerFields
  <1>5. Shared'
    <2>1. slice' = [i \in DOMAIN slice |-> slice'[i]] BY <1>1
    <2>2. ASSUME NEW i \in DOMAIN slice, IsMetric(slice[i])
          PROVE  IsMetric(slice'[i])
      <3>1. /\ DOMAIN slice'[i] = DOMAIN slice[i] /\ slice'[i].name = slice[i].name
            /\ slice'[i].id = slice[i].id \/ slice'[i].id = slice[i].name
        BY <1>1, <2>2 DEF IsMetric
      <3> QED BY <2>2, <3>1 DEF IsMetric
    <2> QED BY <1>1, <2>1, <2>2, SliceChanges DEF IInv
  <1>6. Limited' /\ \A q \in DOMAIN worker : MetricsOf(q, endpoint.at[q])' = MetricsOf(q, endpoint.at[q])
    BY <1>1, TrackerStays
  <1>7. Worker(p)'
    <2>1. IsWorker(p)' BY <1>2, <1>4 DEF Worker, IsWorker, WorkerFields
    <2>2. HasMap(p)' BY <1>4 DEF HasMap
    <2>3. HasHeaders(p)' BY <1>1, <1>2, <1>4 DEF Worker, HasHeaders, WorkerFields
    <2>4. Expanded(p)' BY <1>2, <1>4 DEF Worker, Expanded, WorkerFields
    <2>5. Defining(p)' BY <1>1, <1>2, <1>4, <1>6 DEF Worker, Defining, WorkerFields
    <2>6. Labelling(p)' BY <1>4 DEF Labelling
    <2> QED BY <2>1, <2>2, <2>3, <2>4, <2>5, <2>6 DEF Worker
  <1> QED BY <1>1, <1>4, <1>5, <1>6, <1>7, OthersKeep

\* Expanding a name.
LEMMA ExpandNameKeeps ==
    ASSUME IInv, NEW p \in DOMAIN worker, ExpandName(p)
    PROVE  IInv'
  <1> DEFINE k == worker[p].next
  <1>1. /\ worker[p].pc = "expand" /\ UNCHANGED <<allMetrics, endpoint>>
        /\ slice' = [slice EXCEPT ![k].name = Expand(@, PodEnv[p], TRUE)]
        /\ worker' = [worker EXCEPT ![p].next = k + 1]
    BY DEF ExpandName
  <1> HIDE DEF k
  <1>2. Worker(p) BY DEF IInv
  <1>3. DOMAIN worker[p] = WorkerFields BY <1>2 DEF Worker, IsWorker
  <1>4. /\ DOMAIN worker'[p] = WorkerFields
        /\ \A f \in WorkerFields \ {"next"} : worker'[p][f] = worker[p][f]
        /\ DOMAIN worker' = DOMAIN worker /\ \A q \in DOMAIN worker : q # p => worker'[q] = worker[q]
    BY <1>1, <1>3 DEF WorkerFields
  <1>5. Shared'
    <2>1. slice' = [i \in DOMAIN slice |-> slice'[i]] BY <1>1
    <2>2. ASSUME NEW i \in DOMAIN slice, IsMetric(slice[i])
          PROVE  IsMetric(slice'[i])
      <3>1. CASE i # k BY <1>1, <2>2, <3>1
      <3>2. CASE i = k
        <4>1. /\ DOMAIN slice'[i] = DOMAIN slice[i] /\ slice'[i].id = slice[i].id
              /\ slice'[i].name = Expand(slice[i].name, PodEnv[p], TRUE)
          BY <1>1, <2>2, <3>2 DEF IsMetric
        <4>2. IsString(Expand(slice[i].name, PodEnv[p], TRUE)) BY <2>2, ExpandFacts DEF IsMetric
        <4> QED BY <2>2, <4>1, <4>2 DEF IsMetric
      <3> QED BY <3>1, <3>2
    <2> QED BY <1>1, <2>1, <2>2, SliceChanges DEF IInv
  <1>6. Limited' /\ \A q \in DOMAIN worker : MetricsOf(q, endpoint.at[q])' = MetricsOf(q, endpoint.at[q])
    BY <1>1, TrackerStays
  <1>7. Worker(p)'
    <2>1. IsWorker(p)' BY <1>2, <1>4 DEF Worker, IsWorker, WorkerFields
    <2>2. HasMap(p)' BY <1>1, <1>4 DEF HasMap, WorkerFields
    <2>3. HasHeaders(p)' BY <1>1, <1>2, <1>4 DEF Worker, HasHeaders, WorkerFields
    <2>4. Expanded(p)' BY <1>2, <1>4 DEF Worker, Expanded, WorkerFields
    <2>5. Defining(p)' BY <1>1, <1>2, <1>4, <1>6 DEF Worker, Defining, WorkerFields
    <2>6. Labelling(p)' BY <1>1, <1>4 DEF Labelling, WorkerFields
    <2> QED BY <2>1, <2>2, <2>3, <2>4, <2>5, <2>6 DEF Worker
  <1> QED BY <1>1, <1>4, <1>5, <1>6, <1>7, OthersKeep

\* The map from names to metrics of the slice.
LEMMA MapFromSlice ==
    ASSUME IsList(slice), NEW map,
           map = [n \in {m.name : m \in ToSet(slice)} |-> slice[Max({i \in DOMAIN slice : slice[i].name = n})]]
    PROVE  /\ \A n \in DOMAIN map : map[n] \in ToSet(slice) /\ map[n].name = n
           /\ map = <<>> => slice = <<>>
  <1>1. Len(slice) \in Nat /\ DOMAIN slice = 1 .. Len(slice) BY ListFacts DEF IsList
  <1>2. ASSUME NEW n \in DOMAIN map
        PROVE  map[n] \in ToSet(slice) /\ map[n].name = n
    <2> DEFINE places == {i \in DOMAIN slice : slice[i].name = n}
    <2>1. places # {} BY <1>2 DEF ToSet
    <2>2. places \in SUBSET (0 .. Len(slice)) BY <1>1
    <2>3. Max(places) \in places
      <3> HIDE DEF places
      <3> QED BY <1>1, <2>1, <2>2, MaxIsIn
    <2>4. map[n] = slice[Max(places)] BY <1>2
    <2> QED BY <2>3, <2>4 DEF ToSet
  <1>3. ASSUME map = <<>>
        PROVE  slice = <<>>
    <2>1. \A m \in ToSet(slice) : m.name \in DOMAIN map OBVIOUS
    <2>2. DOMAIN map = {} BY <1>3
    <2>3. ToSet(slice) = {} BY <2>1, <2>2
    <2>4. DOMAIN slice = {} BY <2>3 DEF ToSet
    <2>5. Len(slice) = 0 BY <1>1, <2>4
    <2> QED BY <2>5 DEF IsList
  <1> QED BY <1>2, <1>3

\* Making that map.
LEMMA CacheMetricsKeeps ==
    ASSUME IInv, NEW p \in DOMAIN worker, CacheMetrics(p)
    PROVE  IInv'
  <1> DEFINE map == [n \in {m.name : m \in ToSet(slice)} |-> slice[Max({i \in DOMAIN slice : slice[i].name = n})]]
  <1>1. /\ worker[p].pc = "expand" /\ UNCHANGED <<allMetrics, endpoint, slice>>
        /\ worker' = [worker EXCEPT ![p].pc = "wait", ![p].byName = map]
    BY DEF CacheMetrics
  <1>2. (\A n \in DOMAIN map : IsMetric(map[n])) /\ (map = <<>> => slice = <<>>)
    BY MapFromSlice DEF IInv, Shared
  <1> HIDE DEF map
  <1>3. Worker(p) BY DEF IInv
  <1>4. DOMAIN worker[p] = WorkerFields BY <1>3 DEF Worker, IsWorker
  <1>5. /\ worker'[p].pc = "wait" /\ worker'[p].byName = map /\ DOMAIN worker'[p] = WorkerFields
        /\ \A f \in WorkerFields \ {"pc", "byName"} : worker'[p][f] = worker[p][f]
        /\ DOMAIN worker' = DOMAIN worker /\ \A q \in DOMAIN worker : q # p => worker'[q] = worker[q]
    BY <1>1, <1>4 DEF WorkerFields
  <1>6. Shared' BY <1>1 DEF IInv, Shared
  <1>7. Limited' /\ \A q \in DOMAIN worker : MetricsOf(q, endpoint.at[q])' = MetricsOf(q, endpoint.at[q])
    BY <1>1, TrackerStays
  <1>8. Worker(p)'
    <2>1. IsWorker(p)' BY <1>3, <1>5 DEF Worker, IsWorker, WorkerFields
    <2>2. HasMap(p)' BY <1>1, <1>2, <1>5 DEF HasMap
    <2>3. HasHeaders(p)'
      <3>1. worker'[p].headers = <<>> BY <1>1, <1>3, <1>5 DEF Worker, HasHeaders, WorkerFields
      <3> QED BY <3>1, SmallLists DEF HasHeaders
    <2>4. Expanded(p)' BY <1>3, <1>5 DEF Worker, Expanded, WorkerFields
    <2>5. Defining(p)' BY <1>1, <1>3, <1>5, <1>7 DEF Worker, Defining, WorkerFields
    <2>6. Labelling(p)' BY <1>5 DEF Labelling
    <2> QED BY <2>1, <2>2, <2>3, <2>4, <2>5, <2>6 DEF Worker
  <1> QED BY <1>1, <1>5, <1>6, <1>7, <1>8, OthersKeep

\* The end of a round: what was collected in it is forgotten.
LEMMA EndRoundKeeps ==
    ASSUME IInv, NEW p \in DOMAIN worker, worker[p].pc \in {"wait", "done"}, NEW rounds \in 0 .. MaxRounds,
           UNCHANGED <<allMetrics, endpoint, slice>>,
           worker' = [worker EXCEPT ![p] = [EndRound(p) EXCEPT !.rounds = rounds]]
    PROVE  IInv'
  <1>1. Worker(p) BY DEF IInv
  <1>2. DOMAIN worker[p] = WorkerFields BY <1>1 DEF Worker, IsWorker
  <1>3. /\ worker'[p].pc = "wait" /\ worker'[p].headers = <<>> /\ worker'[p].pieces = {}
        /\ worker'[p].needed = <<>> /\ worker'[p].rounds = rounds /\ DOMAIN worker'[p] = WorkerFields
        /\ \A f \in {"byName", "declared", "defined"} : worker'[p][f] = worker[p][f]
        /\ DOMAIN worker' = DOMAIN worker /\ \A q \in DOMAIN worker : q # p => worker'[q] = worker[q]
    BY <1>2 DEF EndRound, WorkerFields
  <1>4. Shared' BY DEF IInv, Shared
  <1>5. Limited' /\ \A q \in DOMAIN worker : MetricsOf(q, endpoint.at[q])' = MetricsOf(q, endpoint.at[q])
    BY TrackerStays
  <1>6. Worker(p)'
    <2>1. IsWorker(p)' BY <1>3 DEF IsWorker
    <2>2. HasMap(p)' BY <1>1, <1>3 DEF Worker, HasMap
    <2>3. HasHeaders(p)' BY <1>3, SmallLists DEF HasHeaders
    <2>4. Expanded(p)' BY <1>1, <1>3 DEF Worker, Expanded, IdsOf
    <2>5. Defining(p)' BY <1>1, <1>3, <1>5 DEF Worker, Defining
    <2>6. Labelling(p)' BY <1>3 DEF Labelling
    <2> QED BY <2>1, <2>2, <2>3, <2>4, <2>5, <2>6 DEF Worker
  <1> QED BY <1>3, <1>4, <1>5, <1>6, OthersKeep

\* A collection fails.
LEMMA CollectFailsKeeps ==
    ASSUME IInv, NEW p \in DOMAIN worker, CollectFails(p)
    PROVE  IInv'
  <1>1. /\ worker[p].pc = "wait" /\ worker[p].rounds < MaxRounds /\ UNCHANGED <<allMetrics, endpoint, slice>>
        /\ worker' = [worker EXCEPT ![p] = [EndRound(p) EXCEPT !.rounds = @ + 1]]
    BY DEF CollectFails
  <1>2. DOMAIN worker[p] = WorkerFields /\ worker[p].rounds \in 0 .. MaxRounds BY DEF IInv, Worker, IsWorker
  <1>3. EndRound(p).rounds = worker[p].rounds BY <1>2 DEF EndRound, WorkerFields
  <1>4. worker' = [worker EXCEPT ![p] = [EndRound(p) EXCEPT !.rounds = worker[p].rounds + 1]]
    BY <1>1, <1>3
  <1>5. worker[p].rounds + 1 \in 0 .. MaxRounds BY <1>1, <1>2, CollectionConstants
  <1> QED BY <1>1, <1>4, <1>5, EndRoundKeeps

\* The worker waits for the next tick.
LEMMA NextRoundKeeps ==
    ASSUME IInv, NEW p \in DOMAIN worker, NextRound(p)
    PROVE  IInv'
  <1>1. /\ worker[p].pc = "done" /\ UNCHANGED <<allMetrics, endpoint, slice>>
        /\ worker' = [worker EXCEPT ![p] = EndRound(p)]
    BY DEF NextRound
  <1>2. DOMAIN worker[p] = WorkerFields /\ worker[p].rounds \in 0 .. MaxRounds BY DEF IInv, Worker, IsWorker
  <1>3. EndRound(p) = [EndRound(p) EXCEPT !.rounds = worker[p].rounds] BY <1>2 DEF EndRound, WorkerFields
  <1> QED BY <1>1, <1>2, <1>3, EndRoundKeeps

\* A collection: the worker has the headers of what was scraped.
LEMMA CollectedKeeps ==
    ASSUME IInv, NEW p \in DOMAIN worker, NEW scraped, NEW headers, Collected(p, scraped, headers),
           IsList(headers),
           \A h \in ToSet(headers) : IsHeader(h) /\ (worker[p].byName = <<>> => IsString(h.name))
    PROVE  IInv'
  <1>1. /\ worker[p].pc = "wait" /\ worker[p].rounds < MaxRounds /\ UNCHANGED <<allMetrics, endpoint, slice>>
        /\ worker' = [worker EXCEPT ![p].pc = "process", ![p].rounds = @ + 1,
                                    ![p].scraped = scraped, ![p].headers = headers]
    BY DEF Collected
  <1>2. Worker(p) BY DEF IInv
  <1>3. DOMAIN worker[p] = WorkerFields /\ worker[p].rounds \in 0 .. MaxRounds BY <1>2 DEF Worker, IsWorker
  <1>4. /\ worker'[p].pc = "process" /\ worker'[p].headers = headers /\ DOMAIN worker'[p] = WorkerFields
        /\ worker'[p].rounds = worker[p].rounds + 1
        /\ \A f \in {"byName", "pieces", "declared", "defined"} : worker'[p][f] = worker[p][f]
        /\ DOMAIN worker' = DOMAIN worker /\ \A q \in DOMAIN worker : q # p => worker'[q] = worker[q]
    BY <1>1, <1>3 DEF WorkerFields
  <1>5. Shared' BY <1>1 DEF IInv, Shared
  <1>6. Limited' /\ \A q \in DOMAIN worker : MetricsOf(q, endpoint.at[q])' = MetricsOf(q, endpoint.at[q])
    BY <1>1, TrackerStays
  <1>7. Worker(p)'
    <2>1. IsWorker(p)' BY <1>1, <1>3, <1>4, CollectionConstants DEF IsWorker
    <2>2. HasMap(p)' BY <1>1, <1>2, <1>4 DEF Worker, HasMap
    <2>3. HasHeaders(p)' BY <1>4 DEF HasHeaders
    <2>4. Expanded(p)' BY <1>2, <1>4 DEF Worker, Expanded
    <2>5. Defining(p)' BY <1>1, <1>2, <1>4, <1>6 DEF Worker, Defining
    <2>6. Labelling(p)' BY <1>4 DEF Labelling
    <2> QED BY <2>1, <2>2, <2>3, <2>4, <2>5, <2>6 DEF Worker
  <1> QED BY <1>1, <1>4, <1>5, <1>6, <1>7, OthersKeep

\* A collection of each kind.
LEMMA CollectKeeps ==
    ASSUME IInv, JSONInv, NEW p \in DOMAIN worker, CollectPrometheus(p) \/ CollectJolokia(p) \/ CollectJSON(p)
    PROVE  IInv'
  <1>1. CASE CollectPrometheus(p)
    <2>1. PICK families \in Families :
            Collected(p, families, PrometheusHeaders(worker[p].nameMap, families))
      BY <1>1 DEF CollectPrometheus
    <2> QED BY <2>1, PrometheusHeadersFacts, CollectedKeeps
  <1>2. CASE CollectJolokia(p)
    <2> DEFINE headers(beans) == IF slice = <<>> THEN <<>> ELSE JolokiaHeaders(slice, beans)
    <2>1. PICK beans \in Beans : Collected(p, {beans}, headers(beans))
      BY <1>2 DEF CollectJolokia
    <2>2. IsList(slice) BY DEF IInv, Shared
    <2>3. worker[p].byName = <<>> => slice = <<>>
      BY <2>1 DEF Collected, IInv, Worker, HasMap
    <2>4. IsList(headers(beans)) /\ \A h \in ToSet(headers(beans)) : IsHeader(h)
      BY <2>2, JolokiaHeadersFacts, SmallLists
    <2>5. slice = <<>> => ToSet(headers(beans)) = {} BY SmallLists
    <2> HIDE DEF headers
    <2> QED BY <2>1, <2>3, <2>4, <2>5, CollectedKeeps
  <1>3. CASE CollectJSON(p)
    <2> DEFINE headers == [i \in DOMAIN returned |-> JSONHeader(returned[i])]
    <2>1. Collected(p, {document}, headers) BY <1>3 DEF CollectJSON
    <2>2. IsList(returned) BY DEF JSONInv, Lists
    <2>3. IsList(headers) /\ \A h \in ToSet(headers) : IsHeader(h) /\ IsString(h.name)
      BY <2>2, JSONHeadersFacts
    <2> HIDE DEF headers
    <2> QED BY <2>1, <2>3, CollectedKeeps
  <1> QED BY <1>1, <1>2, <1>3

\* The definitions of the pieces with the given IDs.
LEMMA NeededFacts ==
    ASSUME NEW pieces, IsList(pieces), \A x \in ToSet(pieces) : IsMetric(x.metric),
           NEW ids \in SUBSET IdsOf(ToSet(pieces))
    PROVE  /\ DOMAIN Needed(pieces, ids) = ids
           /\ \A id \in ids : \E x \in ToSet(pieces) :
                x.id = id /\ Needed(pieces, ids)[id].tags = Over(x.labels, x.metric.tags)
  <1>1. DOMAIN Needed(pieces, ids) = ids BY DEF Needed
  <1>2. ASSUME NEW id \in ids
        PROVE  \E x \in ToSet(pieces) :
                  x.id = id /\ Needed(pieces, ids)[id].tags = Over(x.labels, x.metric.tags)
    <2> DEFINE places == {j \in DOMAIN pieces : pieces[j].id = id}
               k == Max(places)
    <2>1. Len(pieces) \in Nat /\ DOMAIN pieces = 1 .. Len(pieces) BY ListFacts DEF IsList
    <2>2. places # {} BY <1>2 DEF IdsOf, ToSet
    <2>3. places \in SUBSET (0 .. Len(pieces)) BY <2>1
    <2>4. Needed(pieces, ids)[id] = [pieces[k].metric EXCEPT !.tags = TagsWithLabels(pieces, k)]
      BY <1>2 DEF Needed
    <2>5. k \in places
      <3> HIDE DEF places
      <3> QED BY <2>1, <2>2, <2>3, MaxIsIn
    <2>6. k \in DOMAIN pieces /\ pieces[k].id = id BY <2>5
    <2> HIDE DEF k
    <2>7. pieces[k] \in ToSet(pieces) BY <2>6 DEF ToSet
    <2>8. IsMetric(pieces[k].metric) BY <2>7
    <2>9. Needed(pieces, ids)[id].tags = Over(pieces[k].labels, pieces[k].metric.tags)
      BY <2>4, <2>8 DEF IsMetric, TagsWithLabels
    <2> QED BY <2>6, <2>7, <2>9
  <1> QED BY <1>1, <1>2

\* The pieces that a worker makes of its headers.
LEMMA WorkersPieces ==
    ASSUME NEW p, HasMap(p), HasHeaders(p), worker[p].pc = "process"
    PROVE  /\ IsList(Pieces(p)) /\ IsFiniteSet(IdsOf(ToSet(Pieces(p))))
           /\ \A x \in ToSet(Pieces(p)) : ~HasTokens(x.id) /\ IsMetric(x.metric)
  <1>1. ASSUME NEW h \in ToSet(worker[p].headers), Knows(p, h)
        PROVE  IsHeader(h) /\ IsMetric(MetricOf(p, h))
    <2>1. IsHeader(h) BY DEF HasHeaders
    <2>2. CASE worker[p].byName = <<>>
      <3>1. IsString(h.name) BY <2>2 DEF HasHeaders
      <3> QED BY <2>1, <2>2, <3>1 DEF MetricOf, IsMetric
    <2>3. CASE worker[p].byName # <<>>
      BY <1>1, <2>1, <2>3 DEF HasMap, Knows, MetricOf
    <2> QED BY <2>2, <2>3
  <1>2. IsList(worker[p].headers) BY DEF HasHeaders
  <1>3. \A h \in ToSet(worker[p].headers) : Knows(p, h) => IsHeader(h) /\ IsString(MetricOf(p, h).id)
    BY <1>1 DEF IsMetric
  <1>4. /\ IsList(Pieces(p))
        /\ \A x \in ToSet(Pieces(p)) :
                ~HasTokens(x.id) /\ \E h \in ToSet(worker[p].headers) : Knows(p, h) /\ x \in ToSet(Split(p, h))
    BY <1>2, <1>3, PiecesFacts
  <1>5. ASSUME NEW x \in ToSet(Pieces(p))
        PROVE  IsMetric(x.metric)
    <2>1. PICK h \in ToSet(worker[p].headers) : Knows(p, h) /\ x \in ToSet(Split(p, h)) BY <1>4
    <2>2. x.metric = MetricOf(p, h) BY <1>3, <2>1, SplitFacts
    <2> QED BY <1>1, <2>1, <2>2
  <1>6. IsFiniteSet(IdsOf(ToSet(Pieces(p))))
    <2> DEFINE pieces == Pieces(p)
               f == [i \in DOMAIN pieces |-> pieces[i].id]
    <2>1. Len(pieces) \in Nat /\ DOMAIN pieces = 1 .. Len(pieces) BY <1>4, ListFacts DEF IsList
    <2>2. IdsOf(ToSet(pieces)) = {f[i] : i \in DOMAIN pieces} BY DEF IdsOf, ToSet
    <2>3. IsFiniteSet(DOMAIN pieces)
      <3> HIDE DEF pieces
      <3> QED BY <2>1, FS_Interval
    <2>4. f \in Surjection(DOMAIN pieces, IdsOf(ToSet(pieces)))
      <3> HIDE DEF pieces
      <3>1. f \in [DOMAIN pieces -> IdsOf(ToSet(pieces))] BY <2>2
      <3>2. \A id \in IdsOf(ToSet(pieces)) : \E i \in DOMAIN pieces : f[i] = id BY <2>2
      <3> QED BY <3>1, <3>2 DEF Surjection
    <2> HIDE DEF f, pieces
    <2>5. IsFiniteSet(IdsOf(ToSet(pieces))) BY <2>3, <2>4, FS_Surjection
    <2> QED BY <2>5 DEF pieces
  <1> QED BY <1>4, <1>5, <1>6

\* Naming, limiting and storing what was collected.
LEMMA ProcessKeeps ==
    ASSUME IInv, NEW p \in DOMAIN worker, Process(p)
    PROVE  IInv'
  <1> DEFINE pieces == Pieces(p)
             ids == IdsOf(ToSet(pieces))
  <1>1. PICK overflow \in Overflows(cid(p), ids) :
            /\ allMetrics' = Track(cid(p), ids \ overflow)
            /\ worker' = [worker EXCEPT ![p].pc = "define",
                    ![p].pieces = {x \in ToSet(pieces) : x.id \notin overflow},
                    ![p].needed = Needed(pieces, (ids \ worker[p].declared) \ overflow)]
    BY DEF Process
  <1>2. worker[p].pc = "process" /\ UNCHANGED <<endpoint, slice>> BY DEF Process
  <1>3. Worker(p) BY DEF IInv
  <1>4. DOMAIN worker[p] = WorkerFields BY <1>3 DEF Worker, IsWorker
  <1>5. /\ IsList(pieces) /\ IsFiniteSet(ids)
        /\ \A x \in ToSet(pieces) : ~HasTokens(x.id) /\ IsMetric(x.metric)
    BY <1>2, <1>3, WorkersPieces DEF Worker
  <1>6. AddMetricsFromCollector(cid(p), ids, overflow) BY <1>1 DEF AddMetricsFromCollector
  <1>7. cid(p) \in CollectorID /\ p \in Pods /\ endpoint.at[p] \in Endpoints
        /\ \A q \in DOMAIN worker : q \in Pods /\ endpoint.at[q] \in Endpoints
    BY ConfigurationFacts DEF IInv, Shared
  <1> DEFINE stored == {x \in ToSet(pieces) : x.id \notin overflow}
             ids1 == (ids \ worker[p].declared) \ overflow
             needed == Needed(pieces, ids1)
  <1>8. /\ worker'[p].pc = "define" /\ worker'[p].pieces = stored /\ worker'[p].needed = needed
        /\ DOMAIN worker'[p] = WorkerFields
        /\ \A f \in {"byName", "rounds", "headers", "declared", "defined"} : worker'[p][f] = worker[p][f]
        /\ DOMAIN worker' = DOMAIN worker /\ \A q \in DOMAIN worker : q # p => worker'[q] = worker[q]
    <2> HIDE DEF pieces, ids, needed, stored
    <2>1. worker' = [worker EXCEPT ![p].pc = "define", ![p].pieces = stored, ![p].needed = needed]
      BY <1>1 DEF needed, stored
    <2> QED BY <1>4, <2>1 DEF WorkerFields
  <1>9. IdsOf(stored) = ids \ overflow BY DEF IdsOf
  <1> HIDE DEF pieces, needed
  <1>10. /\ DOMAIN needed = ids1
         /\ \A id \in ids1 : \E x \in ToSet(pieces) : x.id = id /\ needed[id].tags = Over(x.labels, x.metric.tags)
    <2>1. ids1 \in SUBSET IdsOf(ToSet(pieces)) OBVIOUS
    <2> HIDE DEF ids1
    <2> QED BY <1>5, <2>1, NeededFacts DEF needed
  <1> HIDE DEF ids
  <1>11. \A q \in Pods, e \in Endpoints :
            MetricsOf(q, e)' = IF q = p /\ e = endpoint.at[p] THEN MetricsOf(q, e) \cup (ids \ overflow)
                               ELSE MetricsOf(q, e)
    BY <1>6, <1>7, AddChanges DEF cid
  <1>12. Shared' BY <1>2 DEF IInv, Shared
  <1>13. Limited'
    <2>1. PodLimit' BY <1>5, <1>6, <1>7, AddKeepsLimit DEF IInv, Limited
    <2>2. ASSUME NEW q \in Pods, NEW e \in Endpoints
          PROVE  IsFiniteSet(MetricsOf(q, e)')
      <3>1. IsFiniteSet(MetricsOf(q, e)) BY DEF IInv, Limited
      <3>2. IsFiniteSet(MetricsOf(q, e) \cup (ids \ overflow)) BY <1>5, <3>1, FS_Subset, FS_Union
      <3> QED BY <1>11, <3>1, <3>2
    <2> QED BY <2>1, <2>2 DEF Limited
  <1>14. ASSUME NEW q \in DOMAIN worker, q # p
         PROVE  MetricsOf(q, endpoint.at[q])' = MetricsOf(q, endpoint.at[q])
    <2>1. endpoint'.at[q] = endpoint.at[q] BY <1>2
    <2> QED BY <1>7, <1>11, <1>14, <2>1
  <1>15. MetricsOf(p, endpoint.at[p])' = MetricsOf(p, endpoint.at[p]) \cup (ids \ overflow)
    <2>1. endpoint'.at[p] = endpoint.at[p] BY <1>2
    <2> QED BY <1>7, <1>11, <2>1
  <1>16. Worker(p)'
    <2>1. IsWorker(p)' BY <1>3, <1>8 DEF Worker, IsWorker
    <2>2. HasMap(p)' BY <1>2, <1>3, <1>8 DEF Worker, HasMap
    <2>3. HasHeaders(p)' BY <1>3, <1>8 DEF Worker, HasHeaders
    <2>4. Expanded(p)'
      <3>1. \A id \in IdsOf(stored) : ~HasTokens(id) BY <1>5 DEF IdsOf
      <3> HIDE DEF stored
      <3> QED BY <1>3, <1>8, <3>1 DEF Worker, Expanded
    <2>5. Defining(p)'
      <3>1. DOMAIN worker[p].defined = MetricsOf(p, endpoint.at[p]) /\ worker[p].declared \subseteq DOMAIN worker[p].defined
        BY <1>2, <1>3 DEF Worker, Defining
      <3> HIDE DEF stored
      <3>2. DOMAIN worker'[p].defined \cup DOMAIN worker'[p].needed = MetricsOf(p, endpoint.at[p])'
        BY <1>8, <1>10, <1>15, <3>1
      <3>3. DOMAIN worker'[p].needed \subseteq IdsOf(worker'[p].pieces) BY <1>8, <1>9, <1>10
      <3>4. IdsOf(worker'[p].pieces) \subseteq MetricsOf(p, endpoint.at[p])' BY <1>8, <1>9, <1>15
      <3>5. worker'[p].declared \subseteq DOMAIN worker'[p].defined BY <1>8, <3>1
      <3> QED BY <1>8, <3>2, <3>3, <3>4, <3>5 DEF Defining
    <2>6. Labelling(p)'
      <3>1. ASSUME NEW id \in DOMAIN worker'[p].needed
            PROVE  \E x \in worker'[p].pieces : x.id = id /\ worker'[p].needed[id].tags = Over(x.labels, x.metric.tags)
        <4>1. id \in ids1 BY <1>8, <1>10
        <4>2. PICK x \in ToSet(pieces) : x.id = id /\ needed[id].tags = Over(x.labels, x.metric.tags)
          BY <1>10, <4>1
        <4>3. x \in stored BY <4>1, <4>2
        <4> QED BY <1>8, <4>2, <4>3
      <3> QED BY <1>8, <3>1 DEF Labelling
    <2> QED BY <2>1, <2>2, <2>3, <2>4, <2>5, <2>6 DEF Worker
  <1> QED BY <1>2, <1>8, <1>12, <1>13, <1>14, <1>16, OthersKeep

\* What is sent has the needed definitions, and those sent before.
LEMMA DefinitionsSentFacts ==
    ASSUME NEW p, NEW details, NEW got
    PROVE  LET sending == DefinitionsSent(p, details, got) IN
           /\ DOMAIN sending = DOMAIN worker[p].needed \cup DOMAIN worker[p].defined
           /\ \A id \in DOMAIN worker[p].needed :
                sending[id].tags = Over(GlobalTags, Over(worker[p].needed[id].tags, endpoint.tags))
  <1> DEFINE new == [id \in DOMAIN worker[p].needed |-> Definition(worker[p].needed[id], details, got)]
  <1>1. DefinitionsSent(p, details, got) = Over(new, worker[p].defined) BY DEF DefinitionsSent
  <1>2. /\ DOMAIN new = DOMAIN worker[p].needed
        /\ \A id \in DOMAIN worker[p].needed : new[id] = Definition(worker[p].needed[id], details, got)
    OBVIOUS
  <1>3. \A metric : Definition(metric, details, got).tags = Over(GlobalTags, Over(metric.tags, endpoint.tags))
    BY DEF Definition
  <1> HIDE DEF new
  <1>4. DOMAIN Over(new, worker[p].defined) = DOMAIN new \cup DOMAIN worker[p].defined BY OverFacts
  <1>5. \A id \in DOMAIN new : Over(new, worker[p].defined)[id] = new[id] BY OverFacts
  <1> QED BY <1>1, <1>2, <1>3, <1>4, <1>5

\* Sending the definitions that are needed, to be declared or not.
LEMMA DefinedKeeps ==
    ASSUME IInv, NEW p \in DOMAIN worker, worker[p].pc = "define", UNCHANGED <<allMetrics, endpoint, slice>>,
           NEW details, NEW got, NEW declared \in SUBSET (worker[p].declared \cup DOMAIN worker[p].needed),
           worker' = [worker EXCEPT ![p].pc = "done", ![p].defined = DefinitionsSent(p, details, got),
                                    ![p].declared = declared]
    PROVE  IInv'
  <1> DEFINE sending == DefinitionsSent(p, details, got)
  <1>1. Worker(p) BY DEF IInv
  <1>2. DOMAIN worker[p] = WorkerFields BY <1>1 DEF Worker, IsWorker
  <1>3. /\ worker'[p].pc = "done" /\ worker'[p].defined = sending /\ worker'[p].declared = declared
        /\ DOMAIN worker'[p] = WorkerFields
        /\ \A f \in {"byName", "rounds", "headers", "pieces", "needed"} : worker'[p][f] = worker[p][f]
        /\ DOMAIN worker' = DOMAIN worker /\ \A q \in DOMAIN worker : q # p => worker'[q] = worker[q]
    BY <1>2 DEF WorkerFields
  <1>4. /\ DOMAIN sending = DOMAIN worker[p].needed \cup DOMAIN worker[p].defined
        /\ \A id \in DOMAIN worker[p].needed :
             sending[id].tags = Over(GlobalTags, Over(worker[p].needed[id].tags, endpoint.tags))
    BY DefinitionsSentFacts
  <1> HIDE DEF sending
  <1>5. Shared' BY DEF IInv, Shared
  <1>6. Limited' /\ \A q \in DOMAIN worker : MetricsOf(q, endpoint.at[q])' = MetricsOf(q, endpoint.at[q])
    BY TrackerStays
  <1>7. Defining(p) BY <1>1 DEF Worker
  <1>8. Worker(p)'
    <2>1. IsWorker(p)' BY <1>1, <1>3 DEF Worker, IsWorker
    <2>2. HasMap(p)' BY <1>1, <1>3 DEF Worker, HasMap
    <2>3. HasHeaders(p)' BY <1>1, <1>3 DEF Worker, HasHeaders
    <2>4. Expanded(p)'
      <3>1. \A id \in IdsOf(worker[p].pieces) \cup DOMAIN worker[p].defined : ~HasTokens(id)
        BY <1>1 DEF Worker, Expanded
      <3>2. \A id \in DOMAIN sending : ~HasTokens(id) BY <1>4, <1>7, <3>1 DEF Defining
      <3> QED BY <1>3, <3>1, <3>2 DEF Expanded
    <2>5. Defining(p)'
      <3>1. /\ DOMAIN sending = MetricsOf(p, endpoint.at[p]) /\ declared \subseteq DOMAIN sending
            /\ IdsOf(worker[p].pieces) \subseteq MetricsOf(p, endpoint.at[p])
        BY <1>4, <1>7 DEF Defining
      <3>2. MetricsOf(p, endpoint.at[p])' = MetricsOf(p, endpoint.at[p]) BY <1>6
      <3> QED BY <1>3, <3>1, <3>2 DEF Defining
    <2>6. Labelling(p)'
      <3>1. ASSUME NEW id \in DOMAIN worker[p].needed
            PROVE  \E x \in worker[p].pieces :
                    /\ x.id = id
                    /\ sending[id].tags = Over(GlobalTags, Over(x.labels, Over(x.metric.tags, endpoint.tags)))
        <4>1. PICK x \in worker[p].pieces :
                x.id = id /\ worker[p].needed[id].tags = Over(x.labels, x.metric.tags)
          BY <1>1 DEF Worker, Labelling
        <4>2. sending[id].tags = Over(GlobalTags, Over(Over(x.labels, x.metric.tags), endpoint.tags))
          BY <1>4, <4>1
        <4> QED BY <4>1, <4>2, OverFacts
      <3>2. endpoint' = endpoint /\ worker'[p].needed = worker[p].needed /\ worker'[p].pieces = worker[p].pieces
        BY <1>3
      <3> QED BY <1>3, <3>1, <3>2 DEF Labelling
    <2> QED BY <2>1, <2>2, <2>3, <2>4, <2>5, <2>6 DEF Worker
  <1> QED BY <1>3, <1>5, <1>6, <1>8, OthersKeep

\* Defining with the details and without them.
LEMMA DefineKeeps ==
    ASSUME IInv, NEW p \in DOMAIN worker, Define(p) \/ DefineWithoutDetails(p)
    PROVE  IInv'
  <1>1. DOMAIN worker[p] = WorkerFields BY DEF IInv, Worker, IsWorker
  <1>2. CASE Define(p)
    <2>1. worker[p].pc = "define" /\ UNCHANGED <<allMetrics, endpoint, slice>> BY <1>2 DEF Define
    <2>2. PICK details \in Details(p) :
            worker' = [worker EXCEPT ![p].pc = "done", ![p].defined = DefinitionsSent(p, details, TRUE),
                                     ![p].declared = @ \cup DOMAIN worker[p].needed]
      BY <1>2 DEF Define
    <2> DEFINE declared == worker[p].declared \cup DOMAIN worker[p].needed
    <2>3. worker' = [worker EXCEPT ![p].pc = "done", ![p].defined = DefinitionsSent(p, details, TRUE),
                                   ![p].declared = declared]
      BY <1>1, <2>2 DEF WorkerFields
    <2>4. declared \in SUBSET (worker[p].declared \cup DOMAIN worker[p].needed) OBVIOUS
    <2> HIDE DEF declared
    <2>5. PICK got : worker' = [worker EXCEPT ![p].pc = "done", ![p].defined = DefinitionsSent(p, details, got),
                                              ![p].declared = declared]
      BY <2>3
    <2> QED BY <2>1, <2>4, <2>5, DefinedKeeps
  <1>3. CASE DefineWithoutDetails(p)
    <2>1. worker[p].pc = "define" /\ UNCHANGED <<allMetrics, endpoint, slice>>
      BY <1>3 DEF DefineWithoutDetails
    <2> DEFINE declared == worker[p].declared
    <2>2. worker' = [worker EXCEPT ![p].pc = "done", ![p].defined = DefinitionsSent(p, {}, FALSE),
                                   ![p].declared = declared]
      BY <1>1, <1>3 DEF WorkerFields, DefineWithoutDetails
    <2>3. declared \in SUBSET (worker[p].declared \cup DOMAIN worker[p].needed) OBVIOUS
    <2> HIDE DEF declared
    <2>4. PICK details, got :
            worker' = [worker EXCEPT ![p].pc = "done", ![p].defined = DefinitionsSent(p, details, got),
                                     ![p].declared = declared]
      BY <2>2
    <2> QED BY <2>1, <2>3, <2>4, DefinedKeeps
  <1> QED BY <1>2, <1>3
-----------------------------------------------------------------------------
(* The invariant, and what follows from it.                                *)

\* The steps of the workers leave the JSON collector alone.
LEMMA WorkerLeavesJSON ==
    ASSUME NEW p, WorkerStep(p)
    PROVE  UNCHANGED jsonVars
  BY DEF WorkerStep, Construct, ExpandName, CacheMetrics, CollectFails, CollectPrometheus, CollectJolokia,
         CollectJSON, Collected, Process, DefineWithoutDetails, Define, NextRound

\* What JSONCollector specifies is what the JSON collector does among the workers.
THEOREM CollectionRunsJSON == Spec => JSONSpec
  <1>1. Init => JSONInit BY DEF Init
  <1>2. [Next]_vars => [JSONNext]_jsonVars
    BY WorkerLeavesJSON DEF Next, JSONStep, vars, jsonVars
  <1> QED BY <1>1, <1>2, PTL DEF Spec, JSONSpec

\* Every step keeps the invariant.
LEMMA StepKeeps == JSONInv /\ IInv /\ [Next]_vars => IInv'
  <1> SUFFICES ASSUME JSONInv, IInv, [Next]_vars PROVE IInv'
    OBVIOUS
  <1>1. CASE UNCHANGED collectionVars
    <2>1. UNCHANGED <<allMetrics, endpoint, slice, worker>> BY <1>1 DEF collectionVars
    <2>2. Shared' BY <2>1 DEF IInv, Shared
    <2>3. Limited' /\ \A q \in DOMAIN worker : MetricsOf(q, endpoint.at[q])' = MetricsOf(q, endpoint.at[q])
      BY <2>1, TrackerStays
    <2>4. ASSUME NEW p \in DOMAIN worker PROVE Worker(p)'
      <3>1. Worker(p) BY DEF IInv
      <3>2. MetricsOf(p, endpoint.at[p])' = MetricsOf(p, endpoint.at[p]) BY <2>3
      <3>3. Defining(p)' BY <2>1, <3>1, <3>2 DEF Worker, Defining
      <3> QED BY <2>1, <3>1, <3>3 DEF Worker, IsWorker, HasMap, HasHeaders, Expanded, Labelling
    <2> QED BY <2>1, <2>2, <2>3, <2>4 DEF IInv
  <1>2. ASSUME NEW p \in DOMAIN worker, WorkerStep(p)
        PROVE  IInv'
    BY <1>2, ConstructKeeps, ExpandNameKeeps, CacheMetricsKeeps, CollectFailsKeeps, CollectKeeps,
       ProcessKeeps, DefineKeeps, NextRoundKeeps DEF WorkerStep
  <1> QED BY <1>1, <1>2 DEF Next, JSONStep, vars, collectionVars

\* The invariants of the workers and of the JSON collector hold together.
LEMMA Invariant == Spec => [](IInv /\ JSONInv)
  <1>1. Init => IInv BY Initially
  <1>2. JSONInv /\ IInv /\ [Next]_vars => IInv' BY StepKeeps
  <1>3. Spec => []JSONInv BY CollectionRunsJSON, JSONInvariant, PTL
  <1> QED BY <1>1, <1>2, <1>3, PTL DEF Spec
-----------------------------------------------------------------------------
(* Theorems about the workers.                                             *)

\* The IDs that reach the tracker, storage and the definitions are fully expanded:
\* no token is left in them, whatever the names, IDs, labels and environments are.
THEOREM TypeCorrect == Spec => []TypeOK
  <1>1. IInv /\ JSONInv => TypeOK
    BY DEF IInv, Shared, Worker, IsWorker, Expanded, TypeOK, JSONInv, Phases, Gathering, Returning, JSONTypeOK
  <1> QED BY <1>1, Invariant, PTL

\* Storage has definitions of exactly the metrics that are tracked: the ones
\* discarded at the limit of the pod are not defined, in whichever round and by
\* whichever worker of the pod it was reached, and none that is stored is left
\* undefined.
THEOREM DefinedAreTrackedHolds == Spec => []DefinedAreTracked
  <1>1. IInv => DefinedAreTracked
    BY DEF IInv, Worker, Defining, DefinedAreTracked, cid
  <1> QED BY <1>1, Invariant, PTL

\* A definition has the tags of one data point, those of its metric and of the
\* endpoint below them and the global ones above, although the metrics of a
\* round are split and defined together.
THEOREM LabelsOfOnePointHolds == Spec => []LabelsOfOnePoint
  <1>1. IInv => LabelsOfOnePoint
    BY DEF IInv, Worker, Labelling, LabelsOfOnePoint
  <1> QED BY <1>1, Invariant, PTL

\* The limit on the metrics of a pod holds for whatever the collectors yield.
THEOREM WorkersKeepTheLimit == Spec => []PodLimit
  <1>1. IInv => PodLimit BY DEF IInv, Limited
  <1> QED BY <1>1, Invariant, PTL

\* The JSON collector loses at most the last metric that it sent among the
\* workers as it does alone.
THEOREM OnlyTheLastIsLostAmongWorkers == Spec => []OnlyTheLastIsLost
  BY CollectionRunsJSON, OnlyTheLastIsLostHolds, PTL
-----------------------------------------------------------------------------
(* What a worker asks for, while the other workers expand the same names.  *)

\* Of a configuration: its names have no tokens, or it is that of one pod alone,
\* whose collector takes the names from the slice when it asks, as Jolokia's does.
\* Otherwise a worker asks by names that another pod's properties were put into,
\* or, with Prometheus, by names with their tokens.
KeepsNames(c) ==
    \/ \A m \in ToSet(c.metrics) : ~HasTokens(m.name)
    \/ c.kind = "jolokia" /\ \E p \in DOMAIN c.at : DOMAIN c.at = {p}

\* Of a configuration: no invalid Jolokia name comes before a valid one.
AsksInOrder(c) ==
    c.kind = "jolokia" =>
        \A p \in DOMAIN c.at : ValidFirst([i \in DOMAIN c.metrics |-> Expand(c.metrics[i].name, PodEnv[p], TRUE)])

\* Of answers: those to a pod's names are taken apart completely.
AllTakenApart(p, scraped) ==
    endpoint.kind = "jolokia" => \A n \in OwnNames(p), beans \in scraped : TakenApart(n, beans)

\* Of a state: the answers that workers are about to process are.
AnswersTakenApart ==
    \A p \in DOMAIN worker : worker[p].pc = "process" => AllTakenApart(p, worker[p].scraped)

KnownNames(p) == {h.name : h \in {x \in ToSet(worker[p].headers) : Knows(p, x)}}

\* The worker has the leaves of each answer that is taken apart completely.
HasLeaves(p) ==
    worker[p].pc = "process" /\ endpoint.kind = "jolokia" =>
        \A n \in Present(p), beans \in worker[p].scraped : TakenApart(n, beans) =>
            {h.data : h \in {x \in ToSet(worker[p].headers) : x.name = n}} =
                {<<x>> : x \in Leaves(NewMetricNameParts(n), beans[n])}

\* How far the names are expanded, and where they got from there.
Naming(p) ==
    LET w == worker[p]
    IN  /\ w.next \in 1 .. Len(slice) + 1
        /\ w.pc = "construct" => w.next = 1
        /\ w.pc \notin {"construct", "expand"} => w.next = Len(slice) + 1
        /\ \A i \in DOMAIN slice : slice[i].name =
                IF i < w.next THEN Expand(endpoint.metrics[i].name, PodEnv[p], TRUE)
                              ELSE endpoint.metrics[i].name
        /\ w.pc # "construct" => w.nameMap = {m.name : m \in ToSet(endpoint.metrics)}
        /\ w.pc \notin {"construct", "expand"} =>
                DOMAIN w.byName = OwnNames(p) /\ (OwnNames(p) = {} => w.byName = <<>>)
        /\ w.pc = "process" /\ AllTakenApart(p, w.scraped) => KnownNames(p) = Present(p)
        /\ HasLeaves(p)

Named ==
    endpoint.kind # "json" /\ KeepsNames(endpoint) /\ AsksInOrder(endpoint) => \A p \in DOMAIN worker : Naming(p)

\* Names without tokens are expanded to themselves.
LEMMA NothingToExpand ==
    ASSUME NEW s, IsString(s), ~HasTokens(s), NEW env, NEW keep
    PROVE  Expand(s, env, keep) = s
  <1>1. IsList(s) BY StringFacts
  <1>2. s = [i \in DOMAIN s |-> s[i]] BY <1>1 DEF IsList
  <1>3. \A i \in DOMAIN s : MappingFunc(s[i], env, keep) = s[i]
    <2>1. \A i \in DOMAIN s : s[i][1] = "text" BY DEF IsString, HasTokens
    <2> QED BY <2>1 DEF MappingFunc
  <1>4. Expand(s, env, keep) = [i \in DOMAIN s |-> s[i]] BY <1>3 DEF Expand
  <1> QED BY <1>2, <1>4

\* The places of the slice are those of the configured metrics.
LEMMA Places ==
    ASSUME Shared
    PROVE  /\ Len(slice) \in Nat /\ DOMAIN slice = 1 .. Len(slice) /\ DOMAIN slice = DOMAIN endpoint.metrics
           /\ ToSet(slice) = {slice[i] : i \in DOMAIN slice}
           /\ ToSet(endpoint.metrics) = {endpoint.metrics[i] : i \in DOMAIN slice}
           /\ \A i \in DOMAIN slice : IsString(endpoint.metrics[i].name)
  <1>1. IsList(slice) /\ IsList(endpoint.metrics) /\ Len(slice) = Len(endpoint.metrics)
    BY ConfigurationFacts DEF Shared
  <1>2. Len(slice) \in Nat /\ DOMAIN slice = 1 .. Len(slice) /\ DOMAIN slice = DOMAIN endpoint.metrics
    <2>1. Len(slice) \in Nat /\ DOMAIN slice = 1 .. Len(slice) BY <1>1, ListFacts DEF IsList
    <2>2. DOMAIN endpoint.metrics = 1 .. Len(endpoint.metrics) BY <1>1, ListFacts DEF IsList
    <2> QED BY <1>1, <2>1, <2>2
  <1>3. \A m \in ToSet(endpoint.metrics) : IsString(m.name) BY ConfigurationFacts DEF Shared, IsMetric
  <1> QED BY <1>2, <1>3 DEF ToSet

\* Once they are expanded, the names in the slice are the pod's own.
LEMMA NamesInSlice ==
    ASSUME Shared, NEW p, Naming(p), worker[p].next > Len(slice)
    PROVE  /\ \A i \in DOMAIN slice : slice[i].name = Expand(endpoint.metrics[i].name, PodEnv[p], TRUE)
           /\ {m.name : m \in ToSet(slice)} = OwnNames(p)
  <1>1. \A i \in DOMAIN slice : slice[i].name = Expand(endpoint.metrics[i].name, PodEnv[p], TRUE)
    <2>1. ASSUME NEW i \in DOMAIN slice PROVE i < worker[p].next
      <3>1. worker[p].next \in 1 .. Len(slice) + 1 BY DEF Naming
      <3> QED BY <3>1, Places
    <2> QED BY <2>1 DEF Naming
  <1>2. OwnNames(p) = {Expand(endpoint.metrics[i].name, PodEnv[p], TRUE) : i \in DOMAIN slice}
    BY Places DEF OwnNames
  <1>3. {m.name : m \in ToSet(slice)} = {slice[i].name : i \in DOMAIN slice} BY Places
  <1>4. {m.name : m \in ToSet(slice)} = OwnNames(p) BY <1>1, <1>2, <1>3
  <1> QED BY <1>1, <1>4

\* A worker that does nothing, while the names are left as they are.
LEMMA NamingStays ==
    ASSUME NEW p, Naming(p), UNCHANGED endpoint, worker'[p] = worker[p],
           Len(slice') = Len(slice), DOMAIN slice' = DOMAIN slice,
           \A i \in DOMAIN slice : slice'[i].name = slice[i].name
    PROVE  Naming(p)'
  <1>1. OwnNames(p)' = OwnNames(p) BY DEF OwnNames
  <1>2. Present(p)' = Present(p) BY <1>1 DEF Present
  <1>3. KnownNames(p)' = KnownNames(p) BY DEF KnownNames, Knows
  <1>4. HasLeaves(p)' BY <1>2 DEF Naming, HasLeaves
  <1>5. AllTakenApart(p, worker[p].scraped)' = AllTakenApart(p, worker[p].scraped) BY <1>1 DEF AllTakenApart
  <1> QED BY <1>1, <1>2, <1>3, <1>4, <1>5 DEF Naming

\* A worker whose names are where they get to, and that does not collect.
LEMMA NamingKept ==
    ASSUME NEW p, Naming(p), UNCHANGED <<endpoint, slice>>,
           worker[p].pc \notin {"construct", "expand"}, worker'[p].pc \in {"wait", "define", "done"},
           \A f \in {"next", "nameMap", "byName"} : worker'[p][f] = worker[p][f]
    PROVE  Naming(p)'
  <1>1. OwnNames(p)' = OwnNames(p) BY DEF OwnNames
  <1>2. HasLeaves(p)' BY DEF HasLeaves
  <1> QED BY <1>1, <1>2 DEF Naming

\* Making the collector: the names it is given are not expanded yet.
LEMMA ConstructNames ==
    ASSUME IInv, NEW p \in DOMAIN worker, \A q \in DOMAIN worker : Naming(q), Construct(p)
    PROVE  \A q \in DOMAIN worker' : Naming(q)'
  <1> DEFINE names == {m.name : m \in ToSet(slice)}
  <1>1. /\ worker[p].pc = "construct" /\ UNCHANGED endpoint
        /\ slice' = [i \in DOMAIN slice |-> [slice[i] EXCEPT !.id = IF @ = <<>> THEN slice[i].name ELSE @]]
        /\ worker' = [worker EXCEPT ![p].pc = "expand", ![p].nameMap = names]
    BY DEF Construct
  <1> HIDE DEF names
  <1>2. DOMAIN worker[p] = WorkerFields BY DEF IInv, Worker, IsWorker
  <1>3. /\ worker'[p].pc = "expand" /\ worker'[p].nameMap = names /\ worker'[p].next = worker[p].next
        /\ DOMAIN worker' = DOMAIN worker /\ \A q \in DOMAIN worker : q # p => worker'[q] = worker[q]
    BY <1>1, <1>2 DEF WorkerFields
  <1>4. /\ DOMAIN slice' = DOMAIN slice /\ Len(slice') = Len(slice)
        /\ \A i \in DOMAIN slice : slice'[i].name = slice[i].name
    <2>1. IsList(slice) /\ \A i \in DOMAIN slice : IsMetric(slice[i]) BY DEF IInv, Shared, ToSet
    <2>2. slice' = [i \in DOMAIN slice |-> slice'[i]] BY <1>1
    <2>3. \A i \in DOMAIN slice : slice'[i].name = slice[i].name BY <1>1, <2>1 DEF IsMetric
    <2>4. Len(slice') = Len(slice) BY <2>1, <2>2, MappedList
    <2> QED BY <1>1, <2>3, <2>4
  <1>5. worker[p].next = 1 BY <1>1 DEF Naming
  <1>6. \A i \in DOMAIN slice : slice[i].name = endpoint.metrics[i].name
    <2>1. \A i \in DOMAIN slice : ~(i < 1) BY Places DEF IInv
    <2> QED BY <1>5, <2>1 DEF Naming
  <1>7. names = {m.name : m \in ToSet(endpoint.metrics)}
    <2>1. names = {slice[i].name : i \in DOMAIN slice} BY Places DEF IInv, names
    <2>2. {m.name : m \in ToSet(endpoint.metrics)} = {endpoint.metrics[i].name : i \in DOMAIN slice}
      BY Places DEF IInv
    <2> QED BY <1>6, <2>1, <2>2
  <1>8. Naming(p)'
    <2>1. HasLeaves(p)' BY <1>3 DEF HasLeaves
    <2>2. 1 \in 1 .. Len(slice') + 1 BY <1>4, Places DEF IInv
    <2>3. \A i \in DOMAIN slice' : slice'[i].name = endpoint'.metrics[i].name /\ ~(i < 1)
      BY <1>1, <1>4, <1>6, Places DEF IInv
    <2>4. worker'[p].nameMap = {m.name : m \in ToSet(endpoint'.metrics)}
      <3>1. endpoint' = endpoint BY <1>1
      <3> QED BY <1>3, <1>7, <3>1
    <2>5. worker'[p].next = 1 /\ worker'[p].pc = "expand" BY <1>3, <1>5
    <2> QED BY <2>1, <2>2, <2>3, <2>4, <2>5 DEF Naming
  <1> QED BY <1>1, <1>3, <1>4, <1>8, NamingStays

\* Expanding a name.
LEMMA ExpandNames ==
    ASSUME IInv, NEW p \in DOMAIN worker, \A q \in DOMAIN worker : Naming(q), ExpandName(p),
           KeepsNames(endpoint), endpoint.kind # "json"
    PROVE  \A q \in DOMAIN worker' : Naming(q)'
  <1> DEFINE k == worker[p].next
  <1>1. /\ worker[p].pc = "expand" /\ k <= Len(slice) /\ UNCHANGED endpoint
        /\ slice' = [slice EXCEPT ![k].name = Expand(@, PodEnv[p], TRUE)]
        /\ worker' = [worker EXCEPT ![p].next = k + 1]
    BY DEF ExpandName
  <1>2. DOMAIN worker[p] = WorkerFields BY DEF IInv, Worker, IsWorker
  <1>3. /\ k \in 1 .. Len(slice) /\ k \in DOMAIN slice /\ Len(slice) \in Nat /\ DOMAIN slice = 1 .. Len(slice)
        /\ \A i \in DOMAIN slice : IsString(endpoint.metrics[i].name)
    <2>1. k \in 1 .. Len(slice) + 1 BY DEF Naming
    <2> QED BY <1>1, <2>1, Places DEF IInv
  <1>4. slice[k].name = endpoint.metrics[k].name
    <2>1. ~(k < k) BY <1>3
    <2> QED BY <1>3, <2>1 DEF Naming
  <1> HIDE DEF k
  <1>5. /\ worker'[p].next = k + 1 /\ \A f \in WorkerFields \ {"next"} : worker'[p][f] = worker[p][f]
        /\ DOMAIN worker' = DOMAIN worker /\ \A q \in DOMAIN worker : q # p => worker'[q] = worker[q]
    BY <1>1, <1>2 DEF WorkerFields
  <1>6. /\ DOMAIN slice' = DOMAIN slice /\ Len(slice') = Len(slice)
        /\ \A i \in DOMAIN slice : slice'[i].name = IF i = k THEN Expand(slice[k].name, PodEnv[p], TRUE)
                                                             ELSE slice[i].name
    <2>1. IsList(slice) /\ \A i \in DOMAIN slice : IsMetric(slice[i]) BY DEF IInv, Shared, ToSet
    <2>2. slice' = [i \in DOMAIN slice |-> slice'[i]] BY <1>1
    <2>3. \A i \in DOMAIN slice : slice'[i].name = IF i = k THEN Expand(slice[k].name, PodEnv[p], TRUE)
                                                            ELSE slice[i].name
      BY <1>1, <1>3, <2>1 DEF IsMetric
    <2>4. Len(slice') = Len(slice) BY <2>1, <2>2, MappedList
    <2> QED BY <1>1, <2>3, <2>4
  <1>7. Naming(p)'
    <2>1. HasLeaves(p)' BY <1>1, <1>5 DEF HasLeaves, WorkerFields
    <2>2. k + 1 \in 1 .. Len(slice') + 1 BY <1>3, <1>6
    <2>3. ASSUME NEW i \in DOMAIN slice'
          PROVE  slice'[i].name = IF i < k + 1 THEN Expand(endpoint'.metrics[i].name, PodEnv[p], TRUE)
                                               ELSE endpoint'.metrics[i].name
      <3>1. i \in 1 .. Len(slice) /\ i \in DOMAIN slice BY <1>3, <1>6
      <3>2. slice[i].name = IF i < k THEN Expand(endpoint.metrics[i].name, PodEnv[p], TRUE)
                                     ELSE endpoint.metrics[i].name
        BY <3>1 DEF Naming, k
      <3>3. CASE i = k
        <4>1. i < k + 1 BY <1>3, <3>3
        <4> QED BY <1>1, <1>4, <1>6, <3>1, <3>3, <4>1
      <3>4. CASE i # k
        <4>1. i < k + 1 <=> i < k BY <1>3, <3>1, <3>4
        <4> QED BY <1>1, <1>6, <3>1, <3>2, <3>4, <4>1
      <3> QED BY <3>3, <3>4
    <2>4. worker'[p].nameMap = {m.name : m \in ToSet(endpoint'.metrics)}
      <3>1. worker[p].nameMap = {m.name : m \in ToSet(endpoint.metrics)} BY <1>1 DEF Naming
      <3> QED BY <1>1, <1>5, <3>1 DEF WorkerFields
    <2>5. worker'[p].pc = "expand" BY <1>1, <1>5 DEF WorkerFields
    <2> QED BY <1>5, <2>1, <2>2, <2>3, <2>4, <2>5 DEF Naming
  <1>8. CASE \E q : DOMAIN endpoint.at = {q}
    <2>1. \A q \in DOMAIN worker : q = p BY <1>8 DEF IInv
    <2> QED BY <1>5, <1>7, <2>1
  <1>9. CASE \A m \in ToSet(endpoint.metrics) : ~HasTokens(m.name)
    <2>1. endpoint.metrics[k] \in ToSet(endpoint.metrics) BY <1>3, Places DEF IInv
    <2>2. Expand(slice[k].name, PodEnv[p], TRUE) = slice[k].name
      BY <1>3, <1>4, <1>9, <2>1, NothingToExpand
    <2>3. \A i \in DOMAIN slice : slice'[i].name = slice[i].name BY <1>6, <2>2
    <2> QED BY <1>1, <1>5, <1>6, <1>7, <2>3, NamingStays
  <1> QED BY <1>8, <1>9 DEF KeepsNames

\* The worker's map has its own pod's names.
LEMMA CacheNames ==
    ASSUME IInv, NEW p \in DOMAIN worker, \A q \in DOMAIN worker : Naming(q), CacheMetrics(p)
    PROVE  \A q \in DOMAIN worker' : Naming(q)'
  <1> DEFINE map == [n \in {m.name : m \in ToSet(slice)} |-> slice[Max({i \in DOMAIN slice : slice[i].name = n})]]
  <1>1. /\ worker[p].pc = "expand" /\ worker[p].next > Len(slice) /\ UNCHANGED <<endpoint, slice>>
        /\ worker' = [worker EXCEPT ![p].pc = "wait", ![p].byName = map]
    BY DEF CacheMetrics
  <1>2. DOMAIN map = OwnNames(p)
    <2>1. {m.name : m \in ToSet(slice)} = OwnNames(p) BY <1>1, NamesInSlice DEF IInv
    <2> QED BY <2>1
  <1>3. OwnNames(p) = {} => map = <<>>
    <2>1. map = [n \in DOMAIN map |-> map[n]] OBVIOUS
    <2> HIDE DEF map
    <2>2. IsList(<<>>) /\ DOMAIN <<>> = {} BY SmallLists DEF IsList
    <2>3. <<>> = [n \in DOMAIN <<>> |-> <<>>[n]] BY <2>2 DEF IsList
    <2> QED BY <1>2, <2>1, <2>2, <2>3
  <1> HIDE DEF map
  <1>4. DOMAIN worker[p] = WorkerFields BY DEF IInv, Worker, IsWorker
  <1>5. /\ worker'[p].pc = "wait" /\ worker'[p].byName = map
        /\ worker'[p].next = worker[p].next /\ worker'[p].nameMap = worker[p].nameMap
        /\ DOMAIN worker' = DOMAIN worker /\ \A q \in DOMAIN worker : q # p => worker'[q] = worker[q]
    BY <1>1, <1>4 DEF WorkerFields
  <1>6. Naming(p)'
    <2>1. OwnNames(p)' = OwnNames(p) BY <1>1 DEF OwnNames
    <2>2. HasLeaves(p)' BY <1>5 DEF HasLeaves
    <2>3. worker[p].next = Len(slice) + 1
      <3>1. worker[p].next \in 1 .. Len(slice) + 1 /\ Len(slice) \in Nat BY Places DEF IInv, Naming
      <3> QED BY <1>1, <3>1
    <2> QED BY <1>1, <1>2, <1>3, <1>5, <2>1, <2>2, <2>3 DEF Naming
  <1> QED BY <1>1, <1>5, <1>6, NamingStays

\* What the endpoint had in an answer, of the names that pod p is to be asked for.
PresentIn(p, scraped) ==
    CASE endpoint.kind = "prometheus" ->
            {f.name : f \in {x \in scraped :
                        x.type \in {"gauge", "counter"} /\ (OwnNames(p) = {} \/ x.name \in OwnNames(p))}}
      [] endpoint.kind = "jolokia" ->
            {n \in OwnNames(p) : \E beans \in scraped :
                /\ n \in DOMAIN beans /\ NewMetricNameParts(n).valid
                /\ beans[n].kind # "error" /\ Leaves(NewMetricNameParts(n), beans[n]) # {}}

\* The headers of an answer, as far as the worker's map knows them, have the names
\* of what the endpoint had.
Answered(p, scraped, headers) ==
    /\ AllTakenApart(p, scraped) => \A n : n \in PresentIn(p, scraped) <=>
                /\ OwnNames(p) = {} \/ n \in OwnNames(p)
                /\ \E h \in ToSet(headers) : h.name = n
    /\ endpoint.kind = "jolokia" =>
        \A n \in PresentIn(p, scraped), beans \in scraped : TakenApart(n, beans) =>
            {h.data : h \in {x \in ToSet(headers) : x.name = n}} =
                {<<x>> : x \in Leaves(NewMetricNameParts(n), beans[n])}

\* A collection with such headers.
LEMMA CollectedNames ==
    ASSUME IInv, NEW p \in DOMAIN worker, \A q \in DOMAIN worker : Naming(q),
           NEW scraped, NEW headers, Collected(p, scraped, headers), Answered(p, scraped, headers),
           endpoint.kind \in {"prometheus", "jolokia"}
    PROVE  \A q \in DOMAIN worker' : Naming(q)'
  <1>1. /\ worker[p].pc = "wait" /\ UNCHANGED <<endpoint, slice>>
        /\ worker' = [worker EXCEPT ![p].pc = "process", ![p].rounds = @ + 1,
                                    ![p].scraped = scraped, ![p].headers = headers]
    BY DEF Collected
  <1>2. DOMAIN worker[p] = WorkerFields BY DEF IInv, Worker, IsWorker
  <1>3. /\ worker'[p].pc = "process" /\ worker'[p].scraped = scraped /\ worker'[p].headers = headers
        /\ worker'[p].next = worker[p].next /\ worker'[p].nameMap = worker[p].nameMap
        /\ worker'[p].byName = worker[p].byName
        /\ DOMAIN worker' = DOMAIN worker /\ \A q \in DOMAIN worker : q # p => worker'[q] = worker[q]
    BY <1>1, <1>2 DEF WorkerFields
  <1>4. OwnNames(p)' = OwnNames(p) BY <1>1 DEF OwnNames
  <1>5. Present(p)' = PresentIn(p, scraped)
    <2>1. endpoint' = endpoint BY <1>1
    <2>2. CASE endpoint.kind = "prometheus"
      <3>1. Present(p)' = {f.name : f \in {x \in scraped :
                        x.type \in {"gauge", "counter"} /\ (OwnNames(p) = {} \/ x.name \in OwnNames(p))}}
        BY <1>3, <1>4, <2>1, <2>2 DEF Present
      <3> QED BY <2>2, <3>1 DEF PresentIn
    <2>3. CASE endpoint.kind = "jolokia"
      <3>1. Present(p)' = {n \in OwnNames(p) : \E beans \in scraped :
                /\ n \in DOMAIN beans /\ NewMetricNameParts(n).valid
                /\ beans[n].kind # "error" /\ Leaves(NewMetricNameParts(n), beans[n]) # {}}
        BY <1>3, <1>4, <2>1, <2>3 DEF Present
      <3> QED BY <2>3, <3>1 DEF PresentIn
    <2> QED BY <2>2, <2>3
  <1>6. AllTakenApart(p, worker[p].scraped)' => KnownNames(p)' = Present(p)'
    <2>1. DOMAIN worker[p].byName = OwnNames(p) /\ (OwnNames(p) = {} => worker[p].byName = <<>>)
      BY <1>1 DEF Naming
    <2>2. worker[p].byName = <<>> => OwnNames(p) = {} BY <2>1, SmallLists
    <2>3. KnownNames(p)' =
            {h.name : h \in {x \in ToSet(headers) : OwnNames(p) = {} \/ x.name \in OwnNames(p)}}
      BY <1>3, <2>1, <2>2 DEF KnownNames, Knows
    <2>4. ASSUME AllTakenApart(p, worker[p].scraped)', NEW n
          PROVE  n \in KnownNames(p)' <=> n \in PresentIn(p, scraped)
      <3>1. n \in KnownNames(p)' <=>
                (OwnNames(p) = {} \/ n \in OwnNames(p)) /\ \E h \in ToSet(headers) : h.name = n
        BY <2>3
      <3>2. AllTakenApart(p, scraped) BY <1>1, <1>3, <1>4, <2>4 DEF AllTakenApart
      <3> QED BY <3>1, <3>2 DEF Answered
    <2> QED BY <1>5, <2>4
  <1>7. HasLeaves(p)' BY <1>1, <1>3, <1>5 DEF HasLeaves, Answered
  <1>8. Naming(p)'
    <2>1. endpoint' = endpoint /\ slice' = slice BY <1>1
    <2>2. worker'[p].next = Len(slice) + 1 /\ worker'[p].next \in 1 .. Len(slice) + 1
      BY <1>1, <1>3 DEF Naming
    <2>3. \A i \in DOMAIN slice : slice[i].name =
                IF i < worker'[p].next THEN Expand(endpoint.metrics[i].name, PodEnv[p], TRUE)
                                       ELSE endpoint.metrics[i].name
      BY <1>3 DEF Naming
    <2>4. worker'[p].nameMap = {m.name : m \in ToSet(endpoint.metrics)} BY <1>1, <1>3 DEF Naming
    <2>5. DOMAIN worker'[p].byName = OwnNames(p) /\ (OwnNames(p) = {} => worker'[p].byName = <<>>)
      BY <1>1, <1>3 DEF Naming
    <2> QED BY <1>3, <1>4, <1>6, <1>7, <2>1, <2>2, <2>3, <2>4, <2>5 DEF Naming
  <1> QED BY <1>1, <1>3, <1>8, NamingStays

\* The answer of a Prometheus endpoint: the collector was asked for the pod's names.
LEMMA PrometheusAnswered ==
    ASSUME IInv, NEW p \in DOMAIN worker, Naming(p), worker[p].pc = "wait",
           endpoint.kind = "prometheus", KeepsNames(endpoint), NEW families \in Families
    PROVE  Answered(p, families, PrometheusHeaders(worker[p].nameMap, families))
  <1> DEFINE headers == PrometheusHeaders(worker[p].nameMap, families)
  <1>1. worker[p].nameMap = OwnNames(p)
    <2>1. \A m \in ToSet(endpoint.metrics) : IsString(m.name) /\ ~HasTokens(m.name)
      BY ConfigurationFacts DEF IInv, Shared, IsMetric, KeepsNames
    <2>2. \A m \in ToSet(endpoint.metrics) : Expand(m.name, PodEnv[p], TRUE) = m.name
      BY <2>1, NothingToExpand
    <2>3. worker[p].nameMap = {m.name : m \in ToSet(endpoint.metrics)} BY DEF Naming
    <2>4. OwnNames(p) = {m.name : m \in ToSet(endpoint.metrics)} BY <2>2 DEF OwnNames
    <2> QED BY <2>3, <2>4
  <1>2. ToSet(headers) = {ConvertFamily(f) : f \in ToCollect(OwnNames(p), families)}
    BY <1>1, PrometheusHeadersFacts
  <1> HIDE DEF headers
  <1>3. ASSUME NEW n
        PROVE  n \in PresentIn(p, families) <=>
                (OwnNames(p) = {} \/ n \in OwnNames(p)) /\ \E h \in ToSet(headers) : h.name = n
    <2>1. (\E h \in ToSet(headers) : h.name = n) <=> \E f \in ToCollect(OwnNames(p), families) : f.name = n
      <3>1. \A f : ConvertFamily(f).name = f.name BY DEF ConvertFamily
      <3> QED BY <1>2, <3>1
    <2>2. n \in PresentIn(p, families) <=>
            \E f \in families : f.name = n /\ f.type \in Supported /\ (OwnNames(p) = {} \/ n \in OwnNames(p))
      BY DEF PresentIn, Supported
    <2> QED BY <2>1, <2>2 DEF ToCollect
  <1> QED BY <1>3 DEF Answered, headers

\* The answer of a Jolokia endpoint: the pod's own names were in the slice.
LEMMA JolokiaAnswered ==
    ASSUME IInv, NEW p \in DOMAIN worker, Naming(p), worker[p].pc = "wait",
           endpoint.kind = "jolokia", AsksInOrder(endpoint), NEW beans \in Beans
    PROVE  Answered(p, {beans}, IF slice = <<>> THEN <<>> ELSE JolokiaHeaders(slice, beans))
  <1> DEFINE headers == IF slice = <<>> THEN <<>> ELSE JolokiaHeaders(slice, beans)
             expanded == [i \in DOMAIN endpoint.metrics |-> Expand(endpoint.metrics[i].name, PodEnv[p], TRUE)]
  <1>1. /\ \A i \in DOMAIN slice : slice[i].name = Expand(endpoint.metrics[i].name, PodEnv[p], TRUE)
        /\ {m.name : m \in ToSet(slice)} = OwnNames(p)
    <2>1. worker[p].next = Len(slice) + 1 BY DEF Naming
    <2>2. worker[p].next > Len(slice) BY <2>1, Places DEF IInv
    <2> QED BY <2>2, NamesInSlice DEF IInv
  <1>2. ValidFirst([i \in DOMAIN slice |-> slice[i].name])
    <2>1. p \in DOMAIN endpoint.at BY DEF IInv
    <2>2. ValidFirst(expanded) BY <2>1 DEF AsksInOrder
    <2>3. DOMAIN slice = DOMAIN endpoint.metrics BY Places DEF IInv
    <2>4. [i \in DOMAIN slice |-> slice[i].name] = expanded BY <1>1, <2>3
    <2> QED BY <2>2, <2>4
  <1> HIDE DEF expanded
  <1>3. ASSUME NEW n, TakenApart(n, beans), NEW d
        PROVE  (\E h \in ToSet(headers) : h.name = n /\ h.data = d) <=>
                    n \in OwnNames(p) /\ \E x \in LeavesOf(n, beans) : d = <<x>>
    <2>1. CASE slice = <<>>
      <3>1. ToSet(headers) = {} /\ ToSet(slice) = {} BY <2>1, SmallLists
      <3> QED BY <1>1, <3>1
    <2>2. CASE slice # <<>>
      <3>1. headers = JolokiaHeaders(slice, beans) /\ IsList(slice) BY <2>2 DEF IInv, Shared
      <3>2. (\E h \in ToSet(JolokiaHeaders(slice, beans)) : h.name = n /\ h.data = d)
                <=> (\E m \in ToSet(slice) : m.name = n) /\ \E x \in LeavesOf(n, beans) : d = <<x>>
        BY <1>2, <1>3, <3>1, JolokiaHeadersAreLeaves
      <3>3. (\E m \in ToSet(slice) : m.name = n) <=> n \in OwnNames(p) BY <1>1
      <3> QED BY <3>1, <3>2, <3>3
    <2> QED BY <2>1, <2>2
  <1> HIDE DEF headers
  <1>4. \A n : n \in PresentIn(p, {beans}) <=> n \in OwnNames(p) /\ LeavesOf(n, beans) # {}
    BY DEF PresentIn, LeavesOf
  <1>5. ASSUME AllTakenApart(p, {beans}), NEW n
        PROVE  n \in PresentIn(p, {beans}) <=>
                (OwnNames(p) = {} \/ n \in OwnNames(p)) /\ \E h \in ToSet(headers) : h.name = n
    <2>1. (\E h \in ToSet(headers) : h.name = n) <=> \E d : \E h \in ToSet(headers) : h.name = n /\ h.data = d
      OBVIOUS
    <2>2. (\E d : \E x \in LeavesOf(n, beans) : d = <<x>>) <=> LeavesOf(n, beans) # {} OBVIOUS
    <2>3. CASE n \in OwnNames(p)
      <3>1. TakenApart(n, beans) BY <1>5, <2>3 DEF AllTakenApart
      <3>2. (\E h \in ToSet(headers) : h.name = n) <=> LeavesOf(n, beans) # {} BY <1>3, <2>1, <2>2, <2>3, <3>1
      <3> QED BY <1>4, <2>3, <3>2
    <2>4. CASE n \notin OwnNames(p)
      <3>1. OwnNames(p) = {} => slice = <<>>
        <4>1. IsList(slice) BY DEF IInv, Shared
        <4>2. slice # <<>> => ToSet(slice) # {} BY <4>1 DEF IsList
        <4> QED BY <1>1, <4>2
      <3>2. slice = <<>> => ToSet(headers) = {} BY SmallLists DEF headers
      <3> QED BY <1>4, <2>4, <3>1, <3>2
    <2> QED BY <2>3, <2>4
  <1>6. ASSUME NEW n \in PresentIn(p, {beans}), TakenApart(n, beans)
        PROVE  {h.data : h \in {x \in ToSet(headers) : x.name = n}} =
                    {<<x>> : x \in Leaves(NewMetricNameParts(n), beans[n])}
    <2>1. n \in OwnNames(p) /\ LeavesOf(n, beans) # {} BY <1>4
    <2>2. LeavesOf(n, beans) = Leaves(NewMetricNameParts(n), beans[n]) BY <2>1 DEF LeavesOf
    <2>3. ASSUME NEW d
          PROVE  d \in {h.data : h \in {x \in ToSet(headers) : x.name = n}} <=>
                    d \in {<<x>> : x \in LeavesOf(n, beans)}
      BY <1>3, <1>6, <2>1
    <2> QED BY <2>2, <2>3
  <1> QED BY <1>5, <1>6 DEF Answered, headers

\* The steps behind a collection leave the names alone.
LEMMA OtherStepsNames ==
    ASSUME IInv, NEW p \in DOMAIN worker, \A q \in DOMAIN worker : Naming(q),
           CollectFails(p) \/ Process(p) \/ DefineWithoutDetails(p) \/ Define(p) \/ NextRound(p)
    PROVE  \A q \in DOMAIN worker' : Naming(q)'
  <1>1. worker[p].pc \notin {"construct", "expand"} /\ UNCHANGED <<endpoint, slice>>
    BY DEF CollectFails, Process, DefineWithoutDetails, Define, NextRound
  <1>2. DOMAIN worker[p] = WorkerFields BY DEF IInv, Worker, IsWorker
  <1>3. /\ worker'[p].pc \in {"wait", "define", "done"}
        /\ \A f \in {"next", "nameMap", "byName"} : worker'[p][f] = worker[p][f]
        /\ DOMAIN worker' = DOMAIN worker /\ \A q \in DOMAIN worker : q # p => worker'[q] = worker[q]
    <2>1. CASE CollectFails(p) BY <1>2, <2>1 DEF CollectFails, EndRound, WorkerFields
    <2>2. CASE Process(p)
      <3>1. PICK overflow : worker' = [worker EXCEPT ![p].pc = "define",
                    ![p].pieces = {x \in ToSet(Pieces(p)) : x.id \notin overflow},
                    ![p].needed = Needed(Pieces(p), (IdsOf(ToSet(Pieces(p))) \ worker[p].declared) \ overflow)]
        BY <2>2 DEF Process
      <3> QED BY <1>2, <3>1 DEF WorkerFields
    <2>3. CASE DefineWithoutDetails(p) BY <1>2, <2>3 DEF DefineWithoutDetails, WorkerFields
    <2>4. CASE Define(p)
      <3>1. PICK details : worker' = [worker EXCEPT ![p].pc = "done", ![p].defined = DefinitionsSent(p, details, TRUE),
                                                   ![p].declared = @ \cup DOMAIN worker[p].needed]
        BY <2>4 DEF Define
      <3> QED BY <1>2, <3>1 DEF WorkerFields
    <2>5. CASE NextRound(p) BY <1>2, <2>5 DEF NextRound, EndRound, WorkerFields
    <2> QED BY <2>1, <2>2, <2>3, <2>4, <2>5
  <1>4. Naming(p)' BY <1>1, <1>3, NamingKept
  <1> QED BY <1>1, <1>3, <1>4, NamingStays

\* At first no name is expanded.
LEMMA InitiallyNamed == Init => Named
  <1> SUFFICES ASSUME Init, NEW p \in DOMAIN worker PROVE Naming(p)
    BY DEF Named
  <1>1. worker[p] = NewWorker /\ slice = endpoint.metrics BY DEF Init
  <1>2. worker[p].pc = "construct" /\ worker[p].next = 1 BY <1>1 DEF NewWorker
  <1>3. Shared BY Initially DEF IInv
  <1>4. 1 \in 1 .. Len(slice) + 1 /\ \A i \in DOMAIN slice : ~(i < 1) BY <1>3, Places
  <1>5. HasLeaves(p) BY <1>2 DEF HasLeaves
  <1> QED BY <1>1, <1>2, <1>4, <1>5 DEF Naming

\* Every step keeps the names.
LEMMA StepNames == IInv /\ Named /\ [Next]_vars => Named'
  <1> SUFFICES ASSUME IInv, Named, [Next]_vars, endpoint'.kind # "json", KeepsNames(endpoint'),
                      AsksInOrder(endpoint')
               PROVE  \A q \in DOMAIN worker' : Naming(q)'
    BY DEF Named
  <1>1. endpoint' = endpoint
    BY DEF Next, JSONStep, vars, collectionVars, WorkerStep, Construct, ExpandName, CacheMetrics, CollectFails,
           CollectPrometheus, CollectJolokia, CollectJSON, Collected, Process, DefineWithoutDetails, Define, NextRound
  <1>2. endpoint.kind # "json" /\ KeepsNames(endpoint) /\ AsksInOrder(endpoint) BY <1>1
  <1>3. \A q \in DOMAIN worker : Naming(q) BY <1>2 DEF Named
  <1>4. CASE UNCHANGED collectionVars
    <2>1. UNCHANGED <<endpoint, slice, worker>> BY <1>4 DEF collectionVars
    <2> QED BY <1>3, <2>1, NamingStays
  <1>5. ASSUME NEW p \in DOMAIN worker, WorkerStep(p)
        PROVE  \A q \in DOMAIN worker' : Naming(q)'
    <2>1. CASE Construct(p) BY <1>3, <2>1, ConstructNames
    <2>2. CASE ExpandName(p) BY <1>2, <1>3, <2>2, ExpandNames
    <2>3. CASE CacheMetrics(p) BY <1>3, <2>3, CacheNames
    <2>4. CASE CollectPrometheus(p)
      <3>1. PICK families \in Families :
              Collected(p, families, PrometheusHeaders(worker[p].nameMap, families))
        BY <2>4 DEF CollectPrometheus
      <3>2. endpoint.kind = "prometheus" /\ worker[p].pc = "wait" BY <2>4, <3>1 DEF CollectPrometheus, Collected
      <3>3. Answered(p, families, PrometheusHeaders(worker[p].nameMap, families))
        BY <1>2, <1>3, <3>2, PrometheusAnswered
      <3> QED BY <1>3, <3>1, <3>2, <3>3, CollectedNames
    <2>5. CASE CollectJolokia(p)
      <3> DEFINE headers(beans) == IF slice = <<>> THEN <<>> ELSE JolokiaHeaders(slice, beans)
      <3>1. PICK beans \in Beans : Collected(p, {beans}, headers(beans)) BY <2>5 DEF CollectJolokia
      <3>2. endpoint.kind = "jolokia" /\ worker[p].pc = "wait" BY <2>5, <3>1 DEF CollectJolokia, Collected
      <3>3. Answered(p, {beans}, headers(beans)) BY <1>2, <1>3, <3>2, JolokiaAnswered
      <3> HIDE DEF headers
      <3> QED BY <1>3, <3>1, <3>2, <3>3, CollectedNames
    <2>6. ~CollectJSON(p) BY <1>2 DEF CollectJSON
    <2> QED BY <1>3, <1>5, <2>1, <2>2, <2>3, <2>4, <2>5, <2>6, OtherStepsNames DEF WorkerStep
  <1> QED BY <1>4, <1>5 DEF Next, JSONStep, vars, collectionVars

\* So the names are kept in all states.
LEMMA NamesAreKept == Spec => []Named
  <1>1. Init => Named BY InitiallyNamed
  <1>2. IInv /\ Named /\ [Next]_vars => Named' BY StepNames
  <1> QED BY <1>1, <1>2, Invariant, PTL DEF Spec

\* A pod is asked for the metrics of its configuration, with its own properties for
\* the tokens in their names: what its endpoint has of these is what the worker
\* stores, and nothing else.  This is under three conditions, each of which rules
\* out one thing that the code gets wrong: the names have no tokens or are one
\* Jolokia pod's (they are expanded in place in a slice that pods share,
\* metrics_collector_manager.go:165); no invalid Jolokia name comes before a valid
\* one (jolokia_metrics_collector.go:124); the answers at hand have no composite
\* attribute that holds maps and no wildcard key is called 1 or 2
\* (process_jolokia_response.go:264).
THEOREM CollectsWhatIsMonitoredHolds ==
    Spec => [](KeepsNames(endpoint) /\ AsksInOrder(endpoint) /\ AnswersTakenApart => CollectsWhatIsMonitored)
  <1>1. Named => (KeepsNames(endpoint) /\ AsksInOrder(endpoint) /\ AnswersTakenApart => CollectsWhatIsMonitored)
    BY DEF Named, Naming, KnownNames, CollectsWhatIsMonitored, AnswersTakenApart
  <1> QED BY <1>1, NamesAreKept, PTL

\* Where a Jolokia endpoint had something for a name, the worker has a header for
\* each of the numbers in the answer to it, tagged with what the wildcards stand
\* for, and for nothing else, although the answers come in one list for all names.
\* The conditions on the configuration are those above.  That on the answer is on
\* this one alone (TakenApart in HasLeaves), whatever the answers to other names are.
THEOREM EveryLeafIsCollected ==
    Spec => [](endpoint.kind = "jolokia" /\ KeepsNames(endpoint) /\ AsksInOrder(endpoint) =>
                    \A p \in DOMAIN worker : HasLeaves(p))
  <1>1. Named => (endpoint.kind = "jolokia" /\ KeepsNames(endpoint) /\ AsksInOrder(endpoint) =>
                    \A p \in DOMAIN worker : HasLeaves(p))
    BY DEF Named, Naming
  <1> QED BY <1>1, NamesAreKept, PTL
=============================================================================
