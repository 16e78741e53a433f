--------------------------- MODULE ListQueryProofs ---------------------------
(***************************************************************************)
(* Proofs about ListQuery, for any rows and requests and any number of     *)
(* writes between the statements.                                          *)
(***************************************************************************)
EXTENDS Functions, ListQuery, FiniteSetTheorems, SequenceTheorems, TLAPS

-----------------------------------------------------------------------------
(* Induction and flattening                                                *)

(* A set that has 0, and with a number the next one, has every number: the *)
(* proper initial segments of the numbers have a least one among them that *)
(* ends outside of the set.                                                *)
LEMMA Induction ==
  ASSUME NEW S, 0 \in S, \A n \in Nat : n \in S => n + 1 \in S
  PROVE  Nat \subseteq S
<1> DEFINE R == StrictSubsetOrdering(Nat)
           T == {0 .. n : n \in Nat \ S}
<1>1. IsWellFoundedOn(R, FiniteSubsetsOf(Nat))
  BY FS_StrictSubsetOrderingWellFounded
<1>2. ASSUME NEW n \in Nat PROVE 0 .. n \in FiniteSubsetsOf(Nat)
  <2>1. IsFiniteSet(0 .. n)
    BY FS_Interval
  <2>2. 0 .. n \in SUBSET Nat
    OBVIOUS
  <2> QED
    BY <2>1, <2>2 DEF FiniteSubsetsOf
<1>3. T \subseteq FiniteSubsetsOf(Nat)
  BY <1>2
<1>4. T # {} => \E x \in T : \A y \in T : <<y, x>> \notin R
  <2> HIDE DEF R, T
  <2> QED
    BY <1>1, <1>3, WFMin
<1>5. ASSUME NEW n \in Nat \ S PROVE n - 1 \in Nat \ S /\ <<0 .. n - 1, 0 .. n>> \in R
  <2>1. n # 0 /\ n - 1 \in Nat /\ n - 1 + 1 = n
    OBVIOUS
  <2>2. n - 1 \in Nat \ S
    BY <2>1
  <2>3. 0 .. n - 1 \subseteq 0 .. n /\ n \in 0 .. n /\ n \notin 0 .. n - 1
    BY <2>1
  <2> QED
    BY <2>2, <2>3 DEF StrictSubsetOrdering
<1> QED
  BY <1>4, <1>5


(* What FlattenSeq computes on its way: the first i parts of s, joined.    *)
IsFlattening(f, s, n) ==
  /\ \A i \in 1 .. n : i = 1 => f[i] = s[i]
  /\ \A i \in 1 .. n : i # 1 => f[i] = f[i - 1] \o s[i]

(* There is such a function, by induction on n.                            *)
LEMMA FlatteningsExist ==
  ASSUME NEW s, NEW n \in Nat
  PROVE  \E f : f = [i \in 1 .. n |-> f[i]] /\ IsFlattening(f, s, n)
<1> DEFINE S == {k \in Nat : \E f : f = [i \in 1 .. k |-> f[i]] /\ IsFlattening(f, s, k)}
<1>1. 0 \in S
  <2>1. IsFlattening([i \in 1 .. 0 |-> 0], s, 0)
    BY DEF IsFlattening
  <2>2. [i \in 1 .. 0 |-> 0] = [j \in 1 .. 0 |-> [i \in 1 .. 0 |-> 0][j]]
    OBVIOUS
  <2> QED
    BY <2>1, <2>2
<1>2. ASSUME NEW k \in Nat, k \in S PROVE k + 1 \in S
  <2>1. PICK f : f = [i \in 1 .. k |-> f[i]] /\ IsFlattening(f, s, k)
    BY <1>2
  <2> DEFINE new == IF k = 0 THEN s[1] ELSE f[k] \o s[k + 1]
             g == [i \in 1 .. k + 1 |-> IF i <= k THEN f[i] ELSE new]
  <2>2. \A i \in 1 .. k : g[i] = f[i]
    OBVIOUS
  <2>3. g[k + 1] = new
    OBVIOUS
  <2>4. g = [i \in 1 .. k + 1 |-> g[i]]
    OBVIOUS
  <2>5. IsFlattening(g, s, k + 1)
    <3> HIDE DEF g
    <3>1. ASSUME NEW i \in 1 .. k + 1, i = 1 PROVE g[i] = s[i]
      BY <2>1, <2>2, <2>3, <3>1 DEF IsFlattening
    <3>2. ASSUME NEW i \in 1 .. k + 1, i # 1 PROVE g[i] = g[i - 1] \o s[i]
      <4>1. i - 1 \in 1 .. k
        BY <3>2
      <4>2. CASE i = k + 1
        <5>1. i - 1 = k /\ k # 0
          BY <3>2, <4>2
        <5> QED
          BY <2>2, <2>3, <4>1, <4>2, <5>1
      <4>3. CASE i # k + 1
        <5>1. i \in 1 .. k
          BY <4>3
        <5>2. f[i] = f[i - 1] \o s[i]
          BY <2>1, <3>2, <5>1 DEF IsFlattening
        <5> QED
          BY <2>2, <4>1, <5>1, <5>2
      <4> QED
        BY <4>2, <4>3
    <3> QED
      BY <3>1, <3>2 DEF IsFlattening
  <2> HIDE DEF g
  <2> QED
    BY <2>4, <2>5
<1> HIDE DEF S
<1>3. Nat \subseteq S
  BY <1>1, <1>2, Induction
<1> QED
  BY <1>3 DEF S

(* Two of them are equal where their parts are.                            *)
LEMMA FlatteningsAgree ==
  ASSUME NEW s, NEW t, NEW n \in Nat, \A i \in 1 .. n : s[i] = t[i],
         NEW f, IsFlattening(f, s, n), NEW g, IsFlattening(g, t, n)
  PROVE  \A i \in 1 .. n : f[i] = g[i]
<1> DEFINE S == {i \in Nat : i \in 1 .. n => f[i] = g[i]}
<1>1. 0 \in S
  OBVIOUS
<1>2. ASSUME NEW i \in Nat, i \in S PROVE i + 1 \in S
  <2>1. ASSUME i + 1 \in 1 .. n PROVE f[i + 1] = g[i + 1]
    <3>1. i + 1 \in 1 .. n /\ i + 1 - 1 = i /\ s[i + 1] = t[i + 1]
      BY <2>1
    <3>2. CASE i = 0
      BY <3>1, <3>2 DEF IsFlattening
    <3>3. CASE i # 0
      <4>1. f[i] = g[i]
        BY <1>2, <2>1, <3>3
      <4> DEFINE j == i + 1
      <4>2. j \in 1 .. n /\ j # 1 /\ j - 1 = i /\ s[j] = t[j]
        BY <3>1, <3>3
      <4> HIDE DEF j
      <4>3. f[j] = f[j - 1] \o s[j] /\ g[j] = g[j - 1] \o t[j]
        BY <4>2, Zenon DEF IsFlattening
      <4>4. f[j] = g[j]
        BY <4>1, <4>2, <4>3, Zenon
      <4> QED
        BY <4>4 DEF j
    <3> QED
      BY <3>2, <3>3
  <2> QED
    BY <2>1
<1> HIDE DEF S
<1>3. Nat \subseteq S
  BY <1>1, <1>2, Induction
<1> QED
  BY <1>3 DEF S

(* The last value of one is what FlattenSeq chooses.                       *)
LEMMA FlattenLast ==
  ASSUME NEW s, NEW n \in Nat \ {0}, Len(s) = n
  PROVE  \E f : IsFlattening(f, s, n) /\ FlattenSeq(s) = f[n]
<1> DEFINE Next1(f) == [i \in 1 .. n |-> IF i = 1 THEN s[i] ELSE f[i - 1] \o s[i]]
           F == CHOOSE f : f = Next1(f)
<1>1. \E f : f = Next1(f)
  <2>1. PICK f : f = [i \in 1 .. n |-> f[i]] /\ IsFlattening(f, s, n)
    BY FlatteningsExist
  <2>2. \A i \in 1 .. n : f[i] = IF i = 1 THEN s[i] ELSE f[i - 1] \o s[i]
    BY <2>1 DEF IsFlattening
  <2>3. [i \in 1 .. n |-> f[i]] = Next1(f)
    BY <2>2
  <2> QED
    BY <2>1, <2>3
<1>2. F = Next1(F)
  <2> HIDE DEF Next1
  <2> QED
    BY <1>1
<1>3. FlattenSeq(s) = F[n]
  BY DEF FlattenSeq
<1> HIDE DEF F
<1>4. \A i \in 1 .. n : Next1(F)[i] = IF i = 1 THEN s[i] ELSE F[i - 1] \o s[i]
  OBVIOUS
<1> HIDE DEF Next1
<1>5. IsFlattening(F, s, n)
  BY <1>2, <1>4 DEF IsFlattening
<1> QED
  BY <1>3, <1>5

(* The flattening of a prefix is that of the one before and one more.      *)
LEMMA FlattenPrefixes ==
  ASSUME NEW A, NEW s \in Seq(Seq(A))
  PROVE  /\ FlattenSeq(SubSeq(s, 1, 0)) = <<>>
         /\ \A n \in 1 .. Len(s) :
              FlattenSeq(SubSeq(s, 1, n)) = FlattenSeq(SubSeq(s, 1, n - 1)) \o s[n]
         /\ SubSeq(s, 1, Len(s)) = s
<1>1. FlattenSeq(SubSeq(s, 1, 0)) = <<>>
  BY DEF FlattenSeq
<1>2. ASSUME NEW n \in 1 .. Len(s)
      PROVE  FlattenSeq(SubSeq(s, 1, n)) = FlattenSeq(SubSeq(s, 1, n - 1)) \o s[n]
  <2> DEFINE t == SubSeq(s, 1, n)
             u == SubSeq(s, 1, n - 1)
  <2>1. /\ Len(t) = n /\ \A i \in 1 .. n : t[i] = s[i]
        /\ Len(u) = n - 1 /\ \A i \in 1 .. n - 1 : u[i] = s[i]
        /\ n - 1 \in Nat /\ n \in Nat \ {0}
        /\ s[n] \in Seq(A)
    OBVIOUS
  <2> HIDE DEF t, u
  <2>2. PICK f : IsFlattening(f, t, n) /\ FlattenSeq(t) = f[n]
    BY <2>1, FlattenLast
  <2>3. CASE n = 1
    <3>1. FlattenSeq(t) = s[n]
      BY <2>1, <2>2, <2>3 DEF IsFlattening
    <3>2. FlattenSeq(u) = <<>>
      BY <1>1, <2>3 DEF u
    <3>3. <<>> \o s[n] = s[n]
      BY <2>1
    <3> QED
      BY <3>1, <3>2, <3>3, Zenon DEF t, u
  <2>4. CASE n # 1
    <3>1. n - 1 \in Nat \ {0} /\ n - 1 \in 1 .. n - 1 /\ n \in 1 .. n /\ n - 1 <= n
      BY <2>1, <2>4
    <3>2. PICK g : IsFlattening(g, u, n - 1) /\ FlattenSeq(u) = g[n - 1]
      BY <2>1, <3>1, FlattenLast
    <3>3. f[n] = f[n - 1] \o t[n]
      BY <2>2, <2>4, <3>1, Zenon DEF IsFlattening
    <3>4. ASSUME NEW i \in 1 .. n - 1 PROVE t[i] = u[i]
      <4>1. i \in 1 .. n
        BY <3>1
      <4> QED
        BY <2>1, <4>1, Zenon
    <3>5. \A i \in 1 .. n - 1 : f[i] = g[i]
      <4> DEFINE m == n - 1
      <4>1. m \in Nat /\ 1 .. m \subseteq 1 .. n
        BY <3>1
      <4>2. IsFlattening(f, t, m)
        BY <2>2, <4>1, Zenon DEF IsFlattening
      <4>3. IsFlattening(g, u, m) /\ \A i \in 1 .. m : t[i] = u[i]
        BY <3>2, <3>4
      <4> HIDE DEF m
      <4>4. \A i \in 1 .. m : f[i] = g[i]
        BY <4>1, <4>2, <4>3, FlatteningsAgree
      <4> QED
        BY <4>4 DEF m
    <3>6. t[n] = s[n]
      BY <2>1, <3>1
    <3> QED
      BY <2>2, <3>1, <3>2, <3>3, <3>5, <3>6, Zenon DEF t, u
  <2> QED
    BY <2>3, <2>4
<1>3. SubSeq(s, 1, Len(s)) = s
  BY SubSeqFull
<1> QED
  BY <1>1, <1>2, <1>3

(* Induction up to a number.                                               *)
LEMMA BoundedInduction ==
  ASSUME NEW m \in Nat, NEW S, 0 \in S,
         \A i, j \in 0 .. m : j = i + 1 /\ i \in S => j \in S
  PROVE  0 .. m \subseteq S
<1> DEFINE T == {n \in Nat : n \in 0 .. m => n \in S}
<1>1. 0 \in T
  OBVIOUS
<1>2. ASSUME NEW n \in Nat, n \in T PROVE n + 1 \in T
  BY <1>2
<1> HIDE DEF T
<1>3. Nat \subseteq T
  BY <1>1, <1>2, Induction
<1> QED
  BY <1>3 DEF T

(* What joining two sequences leaves of each.                              *)
LEMMA Joined ==
  ASSUME NEW A, NEW u \in Seq(A), NEW v \in Seq(A)
  PROVE  /\ u \o v \in Seq(A) /\ Len(u \o v) = Len(u) + Len(v)
         /\ Len(u) \in Nat /\ Len(v) \in Nat
         /\ SubSeq(u \o v, Len(u) + 1, Len(u) + Len(v)) = v
         /\ \A b, c \in Nat : c <= Len(u) => SubSeq(u \o v, b + 1, c) = SubSeq(u, b + 1, c)
<1> DEFINE w == u \o v
<1>1. /\ w \in Seq(A) /\ Len(w) = Len(u) + Len(v)
      /\ Len(u) \in Nat /\ Len(v) \in Nat
      /\ \A i \in 1 .. Len(u) : w[i] = u[i]
      /\ \A i \in 1 .. Len(v) : w[Len(u) + i] = v[i]
  OBVIOUS
<1> HIDE DEF w
<1>2. SubSeq(w, Len(u) + 1, Len(u) + Len(v)) = v
  <2> DEFINE x == SubSeq(w, Len(u) + 1, Len(u) + Len(v))
  <2>1. x \in Seq(A) /\ Len(x) = Len(v)
    BY <1>1
  <2>2. ASSUME NEW i \in 1 .. Len(v) PROVE x[i] = v[i]
    BY <1>1
  <2> HIDE DEF x
  <2>3. x = v
    BY <2>1, <2>2, SeqEqual
  <2> QED
    BY <2>3 DEF x
<1>3. ASSUME NEW b \in Nat, NEW c \in Nat, c <= Len(u)
      PROVE  SubSeq(w, b + 1, c) = SubSeq(u, b + 1, c)
  <2> DEFINE x == SubSeq(w, b + 1, c)
             y == SubSeq(u, b + 1, c)
  <2>1. x \in Seq(A) /\ y \in Seq(A) /\ Len(x) = Len(y)
    BY <1>1, <1>3
  <2>2. ASSUME NEW i \in 1 .. Len(x) PROVE x[i] = y[i]
    BY <1>1, <1>3
  <2> HIDE DEF x, y
  <2>3. x = y
    BY <2>1, <2>2, SeqEqual
  <2> QED
    BY <2>3 DEF x, y
<1> QED
  BY <1>1, <1>2, <1>3 DEF w

(* The first n parts of s, joined.                                         *)
Flattened(s, n) == FlattenSeq(SubSeq(s, 1, n))

(* What flattening adds from one prefix to the next.                       *)
LEMMA FlattenSteps ==
  ASSUME NEW A, NEW s \in Seq(Seq(A))
  PROVE  /\ Len(s) \in Nat
         /\ Flattened(s, 0) = <<>>
         /\ Flattened(s, Len(s)) = FlattenSeq(s)
         /\ \A n \in 0 .. Len(s) : Flattened(s, n) \in Seq(A)
         /\ \A m, n \in 0 .. Len(s) : n = m + 1 =>
              s[n] \in Seq(A) /\ Flattened(s, n) = Flattened(s, m) \o s[n]
<1>1. /\ Flattened(s, 0) = <<>>
      /\ Flattened(s, Len(s)) = FlattenSeq(s)
      /\ \A n \in 1 .. Len(s) : Flattened(s, n) = Flattened(s, n - 1) \o s[n]
  BY FlattenPrefixes DEF Flattened
<1>2. ASSUME NEW m \in 0 .. Len(s), NEW n \in 0 .. Len(s), n = m + 1
      PROVE  s[n] \in Seq(A) /\ Flattened(s, n) = Flattened(s, m) \o s[n]
  <2>1. n \in 1 .. Len(s) /\ n - 1 = m
    BY <1>2
  <2>2. s[n] \in Seq(A)
    BY <2>1
  <2> QED
    BY <1>1, <2>1, <2>2, Zenon
<1> DEFINE S == {n \in 0 .. Len(s) : Flattened(s, n) \in Seq(A)}
<1>3. Len(s) \in Nat
  OBVIOUS
<1>4. 0 \in S
  <2>1. <<>> \in Seq(A) /\ 0 \in 0 .. Len(s)
    BY <1>3
  <2> QED
    BY <1>1, <2>1, Zenon
<1>5. ASSUME NEW i \in 0 .. Len(s), NEW j \in 0 .. Len(s), j = i + 1, i \in S PROVE j \in S
  <2>1. Flattened(s, i) \in Seq(A) /\ s[j] \in Seq(A) /\ Flattened(s, j) = Flattened(s, i) \o s[j]
    BY <1>2, <1>5, Zenon
  <2>2. Flattened(s, i) \o s[j] \in Seq(A)
    BY <2>1, Joined
  <2> QED
    BY <2>1, <2>2, Zenon
<1> HIDE DEF S
<1>6. 0 .. Len(s) \subseteq S
  BY <1>3, <1>4, <1>5, BoundedInduction
<1>7. \A n \in 0 .. Len(s) : Flattened(s, n) \in Seq(A)
  BY <1>6, Zenon DEF S
<1> QED
  BY <1>1, <1>2, <1>3, <1>7, Zenon

(* Each part is found behind what comes before it.                         *)
LEMMA FlattenParts ==
  ASSUME NEW A, NEW s \in Seq(Seq(A)), NEW h \in 0 .. Len(s), NEW i \in 0 .. Len(s), i = h + 1
  PROVE  LET b == Len(Flattened(s, h))
         IN  /\ b \in Nat /\ s[i] \in Seq(A)
             /\ b + Len(s[i]) <= Len(FlattenSeq(s))
             /\ SubSeq(FlattenSeq(s), b + 1, b + Len(s[i])) = s[i]
<1> DEFINE b == Len(Flattened(s, h))
           c == b + Len(s[i])
           Found(n) == c <= Len(Flattened(s, n)) /\ SubSeq(Flattened(s, n), b + 1, c) = s[i]
           S == {n \in 0 .. Len(s) : i <= n => Found(n)}
<1>1. /\ Len(s) \in Nat /\ i # 0 /\ i \in Nat
      /\ s[i] \in Seq(A) /\ Flattened(s, h) \in Seq(A)
      /\ Flattened(s, i) = Flattened(s, h) \o s[i]
  <2>1. /\ Len(s) \in Nat
        /\ \A n \in 0 .. Len(s) : Flattened(s, n) \in Seq(A)
        /\ \A m, n \in 0 .. Len(s) : n = m + 1 =>
             s[n] \in Seq(A) /\ Flattened(s, n) = Flattened(s, m) \o s[n]
    BY FlattenSteps
  <2>2. Len(s) \in Nat /\ i # 0 /\ i \in Nat
    BY <2>1
  <2>3. s[i] \in Seq(A) /\ Flattened(s, i) = Flattened(s, h) \o s[i] /\ Flattened(s, h) \in Seq(A)
    BY <2>1, Zenon
  <2> QED
    BY <2>2, <2>3
<1>2. b \in Nat /\ Len(s[i]) \in Nat /\ c \in Nat
  BY <1>1, Joined
<1>3. 0 \in S
  BY <1>1
<1>4. ASSUME NEW m \in 0 .. Len(s), NEW n \in 0 .. Len(s), n = m + 1, m \in S PROVE n \in S
  <2>1. CASE i = n
    <3>1. m = h
      BY <1>4, <2>1
    <3>2. Len(Flattened(s, n)) = c /\ SubSeq(Flattened(s, n), b + 1, c) = s[i]
      BY <1>1, <2>1, Joined
    <3> QED
      BY <1>2, <3>2
  <2>2. CASE i < n
    <3>1. /\ Flattened(s, m) \in Seq(A) /\ s[n] \in Seq(A)
          /\ Flattened(s, n) = Flattened(s, m) \o s[n]
      BY <1>4, FlattenSteps
    <3>2. c <= Len(Flattened(s, m)) /\ SubSeq(Flattened(s, m), b + 1, c) = s[i]
      BY <1>1, <1>4, <2>2
    <3> HIDE DEF b, c
    <3>3. /\ Len(Flattened(s, n)) = Len(Flattened(s, m)) + Len(s[n])
          /\ Len(Flattened(s, m)) \in Nat /\ Len(s[n]) \in Nat
          /\ SubSeq(Flattened(s, n), b + 1, c) = SubSeq(Flattened(s, m), b + 1, c)
      BY <1>2, <3>1, <3>2, Joined
    <3> QED
      BY <1>2, <3>2, <3>3
  <2>3. CASE n < i
    BY <1>1, <2>3
  <2> QED
    BY <1>1, <2>1, <2>2, <2>3
<1> HIDE DEF S
<1>5. 0 .. Len(s) \subseteq S
  BY <1>1, <1>3, <1>4, BoundedInduction
<1>6. Found(Len(s))
  <2>1. Len(s) \in 0 .. Len(s) /\ i <= Len(s)
    BY <1>1
  <2> HIDE DEF Found
  <2> QED
    BY <1>5, <2>1 DEF S
<1>7. Flattened(s, Len(s)) = FlattenSeq(s)
  BY FlattenSteps
<1> QED
  BY <1>1, <1>2, <1>6, <1>7

(* What is flattened is a sequence of the same elements.                   *)
LEMMA FlattenType ==
  ASSUME NEW A, NEW s \in Seq(Seq(A))
  PROVE  FlattenSeq(s) \in Seq(A)
<1>1. /\ Len(s) \in Nat /\ Flattened(s, Len(s)) = FlattenSeq(s)
      /\ \A n \in 0 .. Len(s) : Flattened(s, n) \in Seq(A)
  BY FlattenSteps
<1>2. Len(s) \in 0 .. Len(s)
  BY <1>1
<1> QED
  BY <1>1, <1>2, Zenon

(* Sequences of parts that are equally long have equally long prefixes.    *)
LEMMA FlattenLengths ==
  ASSUME NEW A, NEW s \in Seq(Seq(A)), NEW B, NEW t \in Seq(Seq(B)),
         Len(s) = Len(t), \A i \in 1 .. Len(s) : Len(s[i]) = Len(t[i])
  PROVE  \A n \in 0 .. Len(s) : Len(Flattened(s, n)) = Len(Flattened(t, n))
<1> DEFINE S == {n \in 0 .. Len(s) : Len(Flattened(s, n)) = Len(Flattened(t, n))}
<1>1. /\ Len(s) \in Nat
      /\ Flattened(s, 0) = <<>>
      /\ \A n \in 0 .. Len(s) : Flattened(s, n) \in Seq(A)
      /\ \A m, n \in 0 .. Len(s) : n = m + 1 =>
           s[n] \in Seq(A) /\ Flattened(s, n) = Flattened(s, m) \o s[n]
  BY FlattenSteps
<1>2. /\ Flattened(t, 0) = <<>>
      /\ \A n \in 0 .. Len(s) : Flattened(t, n) \in Seq(B)
      /\ \A m, n \in 0 .. Len(s) : n = m + 1 =>
           t[n] \in Seq(B) /\ Flattened(t, n) = Flattened(t, m) \o t[n]
  <2>1. /\ Flattened(t, 0) = <<>>
        /\ \A n \in 0 .. Len(t) : Flattened(t, n) \in Seq(B)
        /\ \A m, n \in 0 .. Len(t) : n = m + 1 =>
             t[n] \in Seq(B) /\ Flattened(t, n) = Flattened(t, m) \o t[n]
    BY FlattenSteps
  <2> QED
    BY <2>1, Zenon
<1>3. 0 \in S
  BY <1>1, <1>2
<1>4. ASSUME NEW m \in 0 .. Len(s), NEW n \in 0 .. Len(s), n = m + 1, m \in S PROVE n \in S
  <2>1. /\ s[n] \in Seq(A) /\ Flattened(s, n) = Flattened(s, m) \o s[n]
        /\ t[n] \in Seq(B) /\ Flattened(t, n) = Flattened(t, m) \o t[n]
        /\ Flattened(s, m) \in Seq(A) /\ Flattened(t, m) \in Seq(B)
    BY <1>1, <1>2, <1>4, Zenon
  <2>2. Len(Flattened(s, n)) = Len(Flattened(s, m)) + Len(s[n])
    BY <2>1, Joined
  <2>3. Len(Flattened(t, n)) = Len(Flattened(t, m)) + Len(t[n])
    BY <2>1, Joined
  <2>4. n \in 1 .. Len(s)
    BY <1>1, <1>4
  <2>5. Len(s[n]) = Len(t[n])
    BY <2>4
  <2>6. Len(Flattened(s, m)) = Len(Flattened(t, m))
    BY <1>4
  <2>7. Len(Flattened(s, n)) = Len(Flattened(t, n))
    BY <2>2, <2>3, <2>5, <2>6, Zenon
  <2> QED
    BY <2>7
<1> HIDE DEF S
<1>5. 0 .. Len(s) \subseteq S
  BY <1>1, <1>3, <1>4, BoundedInduction
<1> QED
  BY <1>5, Zenon DEF S

(* What is joined has the elements of both.                                *)
LEMMA JoinedElements ==
  ASSUME NEW A, NEW u \in Seq(A), NEW v \in Seq(A)
  PROVE  ToSet(u \o v) = ToSet(u) \cup ToSet(v)
<1> DEFINE w == u \o v
<1>1. /\ DOMAIN u = 1 .. Len(u) /\ DOMAIN v = 1 .. Len(v) /\ DOMAIN w = 1 .. Len(w)
      /\ Len(w) = Len(u) + Len(v) /\ Len(u) \in Nat /\ Len(v) \in Nat
      /\ \A i \in 1 .. Len(u) : w[i] = u[i]
      /\ \A i \in 1 .. Len(v) : w[Len(u) + i] = v[i]
  OBVIOUS
<1> HIDE DEF w
<1>2. ASSUME NEW x \in ToSet(u) PROVE x \in ToSet(w)
  <2>1. PICK i \in 1 .. Len(u) : x = u[i]
    BY <1>1 DEF ToSet
  <2>2. i \in DOMAIN w /\ w[i] = x
    BY <1>1, <2>1
  <2> QED
    BY <2>2 DEF ToSet
<1>3. ASSUME NEW x \in ToSet(v) PROVE x \in ToSet(w)
  <2>1. PICK i \in 1 .. Len(v) : x = v[i]
    BY <1>1 DEF ToSet
  <2>2. Len(u) + i \in DOMAIN w /\ w[Len(u) + i] = x
    BY <1>1, <2>1
  <2> QED
    BY <2>2 DEF ToSet
<1>4. ASSUME NEW x \in ToSet(w) PROVE x \in ToSet(u) \cup ToSet(v)
  <2>1. PICK i \in 1 .. Len(w) : x = w[i]
    BY <1>1 DEF ToSet
  <2>2. CASE i <= Len(u)
    <3>1. i \in DOMAIN u /\ x = u[i]
      BY <1>1, <2>1, <2>2
    <3> QED
      BY <3>1 DEF ToSet
  <2>3. CASE i > Len(u)
    <3> DEFINE j == i - Len(u)
    <3>1. j \in 1 .. Len(v) /\ i = Len(u) + j
      BY <1>1, <2>1, <2>3
    <3> HIDE DEF j
    <3>2. j \in DOMAIN v /\ x = v[j]
      BY <1>1, <2>1, <3>1
    <3> QED
      BY <3>2 DEF ToSet
  <2> QED
    BY <1>1, <2>1, <2>2, <2>3
<1> QED
  BY <1>2, <1>3, <1>4 DEF w

(* The elements of what is flattened are those of the parts.               *)
LEMMA FlattenElements ==
  ASSUME NEW A, NEW s \in Seq(Seq(A))
  PROVE  ToSet(FlattenSeq(s)) = UNION {ToSet(s[i]) : i \in 1 .. Len(s)}
<1> DEFINE S == {n \in 0 .. Len(s) : ToSet(Flattened(s, n)) = UNION {ToSet(s[i]) : i \in 1 .. n}}
<1>1. /\ Len(s) \in Nat
      /\ Flattened(s, 0) = <<>>
      /\ Flattened(s, Len(s)) = FlattenSeq(s)
      /\ \A n \in 0 .. Len(s) : Flattened(s, n) \in Seq(A)
      /\ \A m, n \in 0 .. Len(s) : n = m + 1 =>
           s[n] \in Seq(A) /\ Flattened(s, n) = Flattened(s, m) \o s[n]
  BY FlattenSteps
<1>2. 0 \in S
  BY <1>1 DEF ToSet
<1>3. ASSUME NEW m \in 0 .. Len(s), NEW n \in 0 .. Len(s), n = m + 1, m \in S PROVE n \in S
  <2>1. /\ s[n] \in Seq(A) /\ Flattened(s, n) = Flattened(s, m) \o s[n]
        /\ Flattened(s, m) \in Seq(A)
    BY <1>1, <1>3, Zenon
  <2>2. ToSet(Flattened(s, n)) = ToSet(Flattened(s, m)) \cup ToSet(s[n])
    BY <2>1, JoinedElements
  <2>3. ToSet(Flattened(s, m)) = UNION {ToSet(s[i]) : i \in 1 .. m}
    BY <1>3
  <2>4. 1 .. n = (1 .. m) \cup {n}
    BY <1>3
  <2>5. UNION {ToSet(s[i]) : i \in 1 .. n} = (UNION {ToSet(s[i]) : i \in 1 .. m}) \cup ToSet(s[n])
    BY <2>4
  <2>6. ToSet(Flattened(s, n)) = UNION {ToSet(s[i]) : i \in 1 .. n}
    BY <2>2, <2>3, <2>5, Zenon
  <2> QED
    BY <2>6
<1> HIDE DEF S
<1>4. 0 .. Len(s) \subseteq S
  BY <1>1, <1>2, <1>3, BoundedInduction
<1>5. Len(s) \in S
  <2>1. Len(s) \in 0 .. Len(s)
    BY <1>1
  <2> QED
    BY <1>4, <2>1, Zenon
<1> QED
  BY <1>1, <1>5, Zenon DEF S

(* One more part.                                                          *)
LEMMA FlattenMore ==
  ASSUME NEW A, NEW s \in Seq(Seq(A)), NEW x \in Seq(A)
  PROVE  FlattenSeq(Append(s, x)) = FlattenSeq(s) \o x
<1> DEFINE t == Append(s, x)
           n == Len(s) + 1
<1>1. /\ t \in Seq(Seq(A)) /\ Len(s) \in 0 .. Len(t) /\ n \in 0 .. Len(t)
      /\ Len(t) = n /\ t[n] = x /\ n = Len(s) + 1
  OBVIOUS
<1>2. SubSeq(t, 1, Len(s)) = s
  <2>1. SubSeq(t, 1, Len(s)) \in Seq(Seq(A)) /\ Len(SubSeq(t, 1, Len(s))) = Len(s)
    OBVIOUS
  <2>2. \A i \in 1 .. Len(s) : SubSeq(t, 1, Len(s))[i] = s[i]
    OBVIOUS
  <2> QED
    BY <2>1, <2>2, SeqEqual
<1> HIDE DEF t, n
<1>3. /\ Flattened(t, Len(t)) = FlattenSeq(t)
      /\ \A k, m \in 0 .. Len(t) : m = k + 1 => Flattened(t, m) = Flattened(t, k) \o t[m]
  BY <1>1, FlattenSteps
<1>4. Flattened(t, n) = Flattened(t, Len(s)) \o x
  BY <1>1, <1>3, Zenon
<1>5. Flattened(t, Len(s)) = FlattenSeq(s)
  BY <1>2 DEF Flattened
<1> QED
  BY <1>1, <1>3, <1>4, <1>5, Zenon DEF t

(* Parts of one element each.                                              *)
LEMMA FlattenSingles ==
  ASSUME NEW A, NEW f \in Seq(A)
  PROVE  FlattenSeq([i \in DOMAIN f |-> <<f[i]>>]) = f
<1> DEFINE s == [i \in DOMAIN f |-> <<f[i]>>]
           S == {n \in 0 .. Len(s) : Flattened(s, n) = SubSeq(f, 1, n)}
<1>1. s \in Seq(Seq(A)) /\ Len(s) = Len(f) /\ \A i \in 1 .. Len(f) : s[i] = <<f[i]>>
  <2>1. DOMAIN f = 1 .. Len(f) /\ Len(f) \in Nat /\ \A i \in 1 .. Len(f) : <<f[i]>> \in Seq(A)
    OBVIOUS
  <2> QED
    BY <2>1
<1> HIDE DEF s
<1>2. /\ Len(s) \in Nat
      /\ Flattened(s, 0) = <<>>
      /\ Flattened(s, Len(s)) = FlattenSeq(s)
      /\ \A n \in 0 .. Len(s) : Flattened(s, n) \in Seq(A)
      /\ \A m, n \in 0 .. Len(s) : n = m + 1 =>
           s[n] \in Seq(A) /\ Flattened(s, n) = Flattened(s, m) \o s[n]
  BY <1>1, FlattenSteps
<1>3. 0 \in S
  BY <1>2
<1>4. ASSUME NEW m \in 0 .. Len(s), NEW n \in 0 .. Len(s), n = m + 1, m \in S PROVE n \in S
  <2>1. Flattened(s, n) = Flattened(s, m) \o s[n] /\ Flattened(s, m) = SubSeq(f, 1, m)
    BY <1>2, <1>4, Zenon
  <2>2. s[n] = <<f[n]>>
    BY <1>1, <1>2, <1>4
  <2>3. SubSeq(f, 1, m) \o <<f[n]>> = SubSeq(f, 1, n)
    <3> DEFINE u == SubSeq(f, 1, m) \o <<f[n]>>
               v == SubSeq(f, 1, n)
    <3>0. /\ m \in Nat /\ n \in Nat /\ n = m + 1 /\ n <= Len(f) /\ Len(f) \in Nat
          /\ f[n] \in A /\ \A i \in 1 .. n : f[i] \in A
      BY <1>1, <1>2, <1>4
    <3> DEFINE w == SubSeq(f, 1, m)
    <3>4. w \in Seq(A) /\ Len(w) = m /\ \A i \in 1 .. m : w[i] = f[i]
      BY <3>0
    <3>5. v \in Seq(A) /\ Len(v) = n /\ \A i \in 1 .. n : v[i] = f[i]
      BY <3>0
    <3> HIDE DEF w, v
    <3>6. /\ w \o <<f[n]>> \in Seq(A) /\ Len(w \o <<f[n]>>) = n
          /\ \A i \in 1 .. n : (w \o <<f[n]>>)[i] = f[i]
      BY <3>0, <3>4
    <3>1. u \in Seq(A) /\ v \in Seq(A) /\ Len(u) = n /\ Len(v) = n
      BY <3>5, <3>6 DEF w
    <3>2. ASSUME NEW i \in 1 .. Len(u) PROVE u[i] = v[i]
      BY <3>1, <3>5, <3>6 DEF w
    <3> HIDE DEF u
    <3>3. u = v
      BY <3>1, <3>2, SeqEqual
    <3> QED
      BY <3>3 DEF u, v
  <2>4. Flattened(s, n) = SubSeq(f, 1, n)
    BY <2>1, <2>2, <2>3, Zenon
  <2> QED
    BY <2>4
<1> HIDE DEF S
<1>5. 0 .. Len(s) \subseteq S
  BY <1>2, <1>3, <1>4, BoundedInduction
<1>6. Len(s) \in S
  <2>1. Len(s) \in 0 .. Len(s)
    BY <1>2
  <2> QED
    BY <1>5, <2>1, Zenon
<1>7. SubSeq(f, 1, Len(f)) = f
  BY SubSeqFull
<1> QED
  BY <1>1, <1>2, <1>6, <1>7, Zenon DEF s, S

-----------------------------------------------------------------------------
(* The places of the arguments                                             *)

(* A part of a part.                                                       *)
LEMMA NestedParts ==
  ASSUME NEW A, NEW s \in Seq(A), NEW a \in Nat, NEW l \in Nat, a + l <= Len(s),
         NEW b \in Nat, NEW h \in Nat, b + h <= l
  PROVE  SubSeq(SubSeq(s, a + 1, a + l), b + 1, b + h) = SubSeq(s, a + b + 1, a + b + h)
<1> DEFINE u == SubSeq(s, a + 1, a + l)
           v == SubSeq(u, b + 1, b + h)
           w == SubSeq(s, a + b + 1, a + b + h)
<1>1. u \in Seq(A) /\ Len(u) = l /\ \A i \in 1 .. l : u[i] = s[a + i]
  OBVIOUS
<1>2. w \in Seq(A) /\ Len(w) = h /\ \A i \in 1 .. h : w[i] = s[a + b + i]
  OBVIOUS
<1> HIDE DEF u, w
<1>3. v \in Seq(A) /\ Len(v) = h /\ \A i \in 1 .. h : v[i] = u[b + i]
  BY <1>1
<1> HIDE DEF v
<1>4. ASSUME NEW i \in 1 .. Len(v) PROVE v[i] = w[i]
  <2>1. i \in 1 .. h /\ b + i \in 1 .. l /\ a + (b + i) = a + b + i
    BY <1>3
  <2> QED
    BY <1>1, <1>2, <1>3, <2>1
<1>5. v = w
  BY <1>2, <1>3, <1>4, SeqEqual
<1> QED
  BY <1>5 DEF u, v, w

(* The arguments of a clause, each part in the place of its placeholders.  *)
Placed(clause, parts, V) ==
  /\ Holes(clause) \in Seq({"?"}) /\ FlattenSeq(parts) \in Seq(V)
  /\ Len(Holes(clause)) = Len(FlattenSeq(parts))
  /\ \A j \in 1 .. Len(clause) :
       LET b == Len(Holes(SubSeq(clause, 1, j - 1)))
       IN  /\ b \in Nat /\ b + clause[j].holes <= Len(FlattenSeq(parts))
           /\ SubSeq(FlattenSeq(parts), b + 1, b + clause[j].holes) = parts[j]

(* In one clause: what is before a filter has as many placeholders as      *)
(* arguments.                                                              *)
LEMMA ClausePlaces ==
  ASSUME NEW C, NEW clause \in Seq(C), \A c \in C : c.holes \in Nat,
         NEW V, NEW parts \in Seq(Seq(V)), Len(parts) = Len(clause),
         \A j \in 1 .. Len(clause) : Len(parts[j]) = clause[j].holes
  PROVE  Placed(clause, parts, V)
<1> DEFINE H == [j \in DOMAIN clause |-> [k \in 1 .. clause[j].holes |-> "?"]]
<1>1. /\ Len(clause) \in Nat /\ DOMAIN clause = 1 .. Len(clause)
      /\ \A j \in 1 .. Len(clause) : clause[j] \in C /\ clause[j].holes \in Nat
  OBVIOUS
<1>2. H \in Seq(Seq({"?"})) /\ Len(H) = Len(clause) /\ \A j \in 1 .. Len(clause) : Len(H[j]) = clause[j].holes
  <2>1. ASSUME NEW j \in 1 .. Len(clause)
        PROVE  /\ [k \in 1 .. clause[j].holes |-> "?"] \in Seq({"?"})
               /\ Len([k \in 1 .. clause[j].holes |-> "?"]) = clause[j].holes
    BY <1>1
  <2> QED
    BY <1>1, <2>1
<1>3. Holes(clause) = FlattenSeq(H)
  BY DEF Holes
<1>4. ASSUME NEW h \in 0 .. Len(clause) PROVE Holes(SubSeq(clause, 1, h)) = Flattened(H, h)
  <2> DEFINE c == SubSeq(clause, 1, h)
             K == [j \in DOMAIN c |-> [k \in 1 .. c[j].holes |-> "?"]]
             u == SubSeq(H, 1, h)
  <2>1. Len(c) = h /\ DOMAIN c = 1 .. h /\ \A j \in 1 .. h : c[j] = clause[j]
    BY <1>1
  <2>2. Len(u) = h /\ u \in Seq(Seq({"?"})) /\ DOMAIN u = 1 .. h /\ \A j \in 1 .. h : u[j] = H[j]
    <3> HIDE DEF H
    <3> QED
      BY <1>1, <1>2
  <2>3. \A j \in 1 .. h : H[j] = [k \in 1 .. clause[j].holes |-> "?"]
    BY <1>1
  <2> HIDE DEF c, u, H
  <2>4. u = [j \in 1 .. h |-> u[j]]
    BY <2>2
  <2>5. K = [j \in 1 .. h |-> [k \in 1 .. clause[j].holes |-> "?"]]
    BY <2>1
  <2>6. u = K
    BY <2>2, <2>3, <2>4, <2>5
  <2> QED
    BY <2>6 DEF Holes, Flattened, c, u
<1> HIDE DEF H
<1>5. \A n \in 0 .. Len(clause) : Len(Flattened(H, n)) = Len(Flattened(parts, n))
  <2>1. Len(H) = Len(parts) /\ \A j \in 1 .. Len(H) : Len(H[j]) = Len(parts[j])
    BY <1>2
  <2>2. \A n \in 0 .. Len(H) : Len(Flattened(H, n)) = Len(Flattened(parts, n))
    BY <1>2, <2>1, FlattenLengths
  <2> QED
    BY <1>2, <2>2
<1>6. /\ Flattened(H, Len(H)) = FlattenSeq(H) /\ Flattened(H, Len(H)) \in Seq({"?"})
  <2>1. /\ Len(H) \in Nat /\ Flattened(H, Len(H)) = FlattenSeq(H)
        /\ \A n \in 0 .. Len(H) : Flattened(H, n) \in Seq({"?"})
    BY <1>2, FlattenSteps
  <2>2. Len(H) \in 0 .. Len(H)
    BY <2>1
  <2> QED
    BY <2>1, <2>2, Zenon
<1>7. /\ Flattened(parts, Len(parts)) = FlattenSeq(parts) /\ Flattened(parts, Len(parts)) \in Seq(V)
  <2>1. /\ Len(parts) \in Nat /\ Flattened(parts, Len(parts)) = FlattenSeq(parts)
        /\ \A n \in 0 .. Len(parts) : Flattened(parts, n) \in Seq(V)
    BY FlattenSteps
  <2>2. Len(parts) \in 0 .. Len(parts)
    BY <2>1
  <2> QED
    BY <2>1, <2>2, Zenon
<1>8. Len(Holes(clause)) = Len(FlattenSeq(parts))
  <2>1. Len(clause) \in 0 .. Len(clause)
    BY <1>1
  <2> QED
    BY <1>2, <1>3, <1>5, <1>6, <1>7, <2>1, Zenon
<1>9. ASSUME NEW j \in 1 .. Len(clause)
      PROVE  LET b == Len(Holes(SubSeq(clause, 1, j - 1)))
             IN  /\ b \in Nat /\ b + clause[j].holes <= Len(FlattenSeq(parts))
                 /\ SubSeq(FlattenSeq(parts), b + 1, b + clause[j].holes) = parts[j]
  <2> DEFINE h == j - 1
  <2>1. h \in 0 .. Len(clause) /\ j \in 0 .. Len(parts) /\ j = h + 1 /\ h \in 0 .. Len(parts)
    BY <1>1
  <2> HIDE DEF h
  <2>2. LET b == Len(Flattened(parts, h))
        IN  /\ b \in Nat /\ parts[j] \in Seq(V)
            /\ b + Len(parts[j]) <= Len(FlattenSeq(parts))
            /\ SubSeq(FlattenSeq(parts), b + 1, b + Len(parts[j])) = parts[j]
    BY <2>1, FlattenParts
  <2>3. Len(Holes(SubSeq(clause, 1, h))) = Len(Flattened(parts, h))
    BY <1>4, <1>5, <2>1, Zenon
  <2>4. Len(parts[j]) = clause[j].holes
    BY <1>9
  <2> QED
    BY <2>2, <2>3, <2>4, Zenon DEF h
<1> QED
  BY <1>3, <1>6, <1>7, <1>8, <1>9, Zenon DEF Placed

(* As many arguments as placeholders, filter by filter.                    *)
Fitting(where, parts) ==
  /\ Len(parts) = Len(where)
  /\ \A i \in 1 .. Len(where) :
       /\ Len(parts[i]) = Len(where[i])
       /\ \A j \in 1 .. Len(where[i]) : Len(parts[i][j]) = where[i][j].holes

(* The arguments that are bound by position are those of each filter.      *)
Reaching(where, parts, args) ==
  /\ Len(AllHoles(where)) = Len(args) /\ Len(args) \in Nat
  /\ \A i \in 1 .. Len(where) : \A j \in 1 .. Len(where[i]) :
       LET first == Len(AllHoles(SubSeq(where, 1, i - 1)))
                    + Len(Holes(SubSeq(where[i], 1, j - 1))) + 1
       IN  SubSeq(args, first, first + where[i][j].holes - 1) = parts[i][j]

(* Each argument of each clause reaches its placeholder                    *)
(* (buildWhereClause, getPlaceholder).                                     *)
LEMMA ArgumentPlaces ==
  ASSUME NEW C, NEW where \in Seq(Seq(C)), \A c \in C : c.holes \in Nat,
         NEW V, NEW parts \in Seq(Seq(Seq(V))), Fitting(where, parts),
         NEW args, args = FlattenSeq([i \in DOMAIN parts |-> FlattenSeq(parts[i])])
  PROVE  Reaching(where, parts, args)
<1> DEFINE P == [i \in DOMAIN parts |-> FlattenSeq(parts[i])]
           H == [i \in DOMAIN where |-> Holes(where[i])]
<1> USE DEF Fitting
<1>1. /\ Len(where) \in Nat /\ DOMAIN where = 1 .. Len(where) /\ DOMAIN parts = 1 .. Len(where)
      /\ \A i \in 1 .. Len(where) : where[i] \in Seq(C) /\ parts[i] \in Seq(Seq(V))
  OBVIOUS
<1>2. ASSUME NEW i \in 1 .. Len(where)
      PROVE  /\ Holes(where[i]) \in Seq({"?"}) /\ FlattenSeq(parts[i]) \in Seq(V)
             /\ Len(Holes(where[i])) = Len(FlattenSeq(parts[i]))
             /\ \A j \in 1 .. Len(where[i]) :
                  LET b == Len(Holes(SubSeq(where[i], 1, j - 1)))
                  IN  /\ b \in Nat /\ b + where[i][j].holes <= Len(FlattenSeq(parts[i]))
                      /\ SubSeq(FlattenSeq(parts[i]), b + 1, b + where[i][j].holes) = parts[i][j]
  <2> DEFINE clause == where[i]
             ps == parts[i]
  <2>1. /\ clause \in Seq(C) /\ ps \in Seq(Seq(V)) /\ Len(ps) = Len(clause)
        /\ \A j \in 1 .. Len(clause) : Len(ps[j]) = clause[j].holes
    BY <1>1
  <2> HIDE DEF clause, ps
  <2>2. Placed(clause, ps, V)
    BY <2>1, ClausePlaces
  <2> QED
    BY <2>2 DEF clause, ps, Placed
<1>3. /\ P \in Seq(Seq(V)) /\ Len(P) = Len(where)
      /\ \A i \in 1 .. Len(where) : P[i] = FlattenSeq(parts[i])
  BY <1>1, <1>2
<1>4. /\ H \in Seq(Seq({"?"})) /\ Len(H) = Len(where)
      /\ \A i \in 1 .. Len(where) : H[i] = Holes(where[i])
  BY <1>1, <1>2
<1>5. AllHoles(where) = FlattenSeq(H)
  BY DEF AllHoles
<1>6. args = FlattenSeq(P)
  OBVIOUS
<1>7. ASSUME NEW h \in 0 .. Len(where) PROVE AllHoles(SubSeq(where, 1, h)) = Flattened(H, h)
  <2> DEFINE c == SubSeq(where, 1, h)
             K == [i \in DOMAIN c |-> Holes(c[i])]
             u == SubSeq(H, 1, h)
  <2>1. Len(c) = h /\ DOMAIN c = 1 .. h /\ \A i \in 1 .. h : c[i] = where[i]
    BY <1>1
  <2>2. Len(u) = h /\ u \in Seq(Seq({"?"})) /\ DOMAIN u = 1 .. h /\ \A i \in 1 .. h : u[i] = Holes(where[i])
    <3> HIDE DEF H
    <3> QED
      BY <1>1, <1>4
  <2> HIDE DEF c, u, H
  <2>3. u = [i \in 1 .. h |-> u[i]]
    BY <2>2
  <2>4. K = [i \in 1 .. h |-> Holes(where[i])]
    BY <2>1
  <2>5. u = K
    BY <2>2, <2>3, <2>4
  <2> QED
    BY <2>5 DEF AllHoles, Flattened, c, u
<1> HIDE DEF P, H
<1>8. \A n \in 0 .. Len(where) : Len(Flattened(H, n)) = Len(Flattened(P, n))
  <2>1. Len(H) = Len(P) /\ \A i \in 1 .. Len(H) : Len(H[i]) = Len(P[i])
    BY <1>2, <1>3, <1>4
  <2>2. \A n \in 0 .. Len(H) : Len(Flattened(H, n)) = Len(Flattened(P, n))
    BY <1>3, <1>4, <2>1, FlattenLengths
  <2> QED
    BY <1>4, <2>2
<1>9. args \in Seq(V) /\ Flattened(P, Len(P)) = args
  <2>1. /\ Len(P) \in Nat /\ Flattened(P, Len(P)) = FlattenSeq(P)
        /\ \A n \in 0 .. Len(P) : Flattened(P, n) \in Seq(V)
    BY <1>3, FlattenSteps
  <2>2. Len(P) \in 0 .. Len(P)
    BY <2>1
  <2> QED
    BY <1>6, <2>1, <2>2, Zenon
<1>10. Len(AllHoles(where)) = Len(args)
  <2>1. Flattened(H, Len(H)) = FlattenSeq(H)
    BY <1>4, FlattenSteps
  <2>2. Len(where) \in 0 .. Len(where)
    BY <1>1
  <2> QED
    BY <1>3, <1>4, <1>5, <1>8, <1>9, <2>1, <2>2, Zenon
<1>11. ASSUME NEW i \in 1 .. Len(where), NEW j \in 1 .. Len(where[i])
       PROVE  LET first == Len(AllHoles(SubSeq(where, 1, i - 1)))
                           + Len(Holes(SubSeq(where[i], 1, j - 1))) + 1
              IN  SubSeq(args, first, first + where[i][j].holes - 1) = parts[i][j]
  <2> DEFINE h == i - 1
             a == Len(Flattened(P, h))
             b == Len(Holes(SubSeq(where[i], 1, j - 1)))
             l == Len(P[i])
             n == where[i][j].holes
  <2>1. h \in 0 .. Len(where) /\ h \in 0 .. Len(P) /\ i \in 0 .. Len(P) /\ i = h + 1
    BY <1>1, <1>3
  <2>2. a \in Nat /\ P[i] \in Seq(V) /\ a + l <= Len(args) /\ SubSeq(args, a + 1, a + l) = P[i]
    <3> HIDE DEF h
    <3>1. LET d == Len(Flattened(P, h))
          IN  /\ d \in Nat /\ P[i] \in Seq(V)
              /\ d + Len(P[i]) <= Len(FlattenSeq(P))
              /\ SubSeq(FlattenSeq(P), d + 1, d + Len(P[i])) = P[i]
      BY <1>3, <2>1, FlattenParts
    <3> QED
      BY <1>6, <3>1, Zenon
  <2>3. Len(AllHoles(SubSeq(where, 1, h))) = a
    <3> HIDE DEF h
    <3> QED
      BY <1>7, <1>8, <2>1, Zenon
  <2>4. P[i] = FlattenSeq(parts[i])
    BY <1>3
  <2>5. b \in Nat /\ b + n <= l /\ SubSeq(P[i], b + 1, b + n) = parts[i][j]
    BY <1>2, <2>4, Zenon
  <2>6. n \in Nat /\ l \in Nat
    <3>1. where[i] \in Seq(C)
      BY <1>1
    <3>2. where[i][j] \in C
      BY <3>1
    <3> QED
      BY <2>2, <3>2
  <2> HIDE DEF a, b, l, n
  <2>7. SubSeq(SubSeq(args, a + 1, a + l), b + 1, b + n) = SubSeq(args, a + b + 1, a + b + n)
    BY <1>9, <2>2, <2>5, <2>6, NestedParts
  <2>8. SubSeq(args, a + b + 1, a + b + n) = parts[i][j]
    BY <2>2, <2>5, <2>7, Zenon
  <2>9. a + b + 1 + n - 1 = a + b + n
    BY <2>2, <2>5, <2>6
  <2>10. SubSeq(args, a + b + 1, a + b + 1 + n - 1) = parts[i][j]
    BY <2>8, <2>9, Zenon
  <2>11. Len(AllHoles(SubSeq(where, 1, i - 1))) = a
    BY <2>3 DEF h
  <2> HIDE DEF h
  <2> QED
    BY <2>10, <2>11, Zenon DEF b, n
<1> QED
  BY <1>9, <1>10, <1>11 DEF Reaching

(* What is selected when each clause has the arguments that are its own.   *)
SelectsByParts(table, where, args, parts) ==
  /\ Len(AllHoles(where)) = Len(args) /\ Len(args) \in Nat
  /\ Selected(table, where, args) =
       {r \in present : r.table = table /\ \A i \in DOMAIN where :
          \E j \in DOMAIN where[i] : Holds(r, where[i][j], parts[i][j])}

(* The rows that satisfy each clause by the arguments that are its own.    *)
LEMMA SelectedByParts ==
  ASSUME NEW C, NEW where \in Seq(Seq(C)), \A c \in C : c.holes \in Nat,
         NEW V, NEW parts \in Seq(Seq(Seq(V))), Fitting(where, parts),
         NEW args, args = FlattenSeq([i \in DOMAIN parts |-> FlattenSeq(parts[i])]),
         NEW table
  PROVE  SelectsByParts(table, where, args, parts)
<1> DEFINE First(i, j) == Len(AllHoles(SubSeq(where, 1, i - 1)))
                          + Len(Holes(SubSeq(where[i], 1, j - 1))) + 1
           Args(i, j) == SubSeq(args, First(i, j), First(i, j) + where[i][j].holes - 1)
<1>1. /\ Len(AllHoles(where)) = Len(args) /\ Len(args) \in Nat
      /\ \A i \in 1 .. Len(where) : \A j \in 1 .. Len(where[i]) :
           LET first == Len(AllHoles(SubSeq(where, 1, i - 1)))
                        + Len(Holes(SubSeq(where[i], 1, j - 1))) + 1
           IN  SubSeq(args, first, first + where[i][j].holes - 1) = parts[i][j]
  <2>1. Reaching(where, parts, args)
    BY ArgumentPlaces
  <2> QED
    BY <2>1 DEF Reaching
<1>2. ASSUME NEW i \in DOMAIN where, NEW j \in DOMAIN where[i] PROVE Args(i, j) = parts[i][j]
  <2>1. i \in 1 .. Len(where) /\ where[i] \in Seq(C)
    OBVIOUS
  <2>2. j \in 1 .. Len(where[i])
    BY <2>1
  <2> QED
    BY <1>1, <2>1, <2>2, Zenon
<1>3. Selected(table, where, args) =
        {r \in present : r.table = table /\ \A i \in DOMAIN where :
           \E j \in DOMAIN where[i] : Holds(r, where[i][j], Args(i, j))}
  BY DEF Selected
<1> HIDE DEF Args
<1>4. ASSUME NEW r
      PROVE  (\A i \in DOMAIN where : \E j \in DOMAIN where[i] : Holds(r, where[i][j], Args(i, j)))
             <=> (\A i \in DOMAIN where : \E j \in DOMAIN where[i] : Holds(r, where[i][j], parts[i][j]))
  BY <1>2, Zenon
<1> QED
  BY <1>1, <1>3, <1>4, Zenon DEF SelectsByParts

(* A function on the first numbers is a sequence.                          *)
LEMMA FunctionIsSeq ==
  ASSUME NEW n \in Nat, NEW S, NEW f, f = [i \in 1 .. n |-> f[i]], \A i \in 1 .. n : f[i] \in S
  PROVE  f \in Seq(S) /\ Len(f) = n /\ DOMAIN f = 1 .. n
<1>1. f \in [1 .. n -> S]
  BY Zenon
<1> QED
  BY <1>1

-----------------------------------------------------------------------------
(* What the filters select                                                 *)

(* Filters of fields in F, by words in W.                                  *)
Filters(F, W) == [field : F, op : {"=", "IN", "<", "<=", ">", ">="}, words : Seq(W)]

(* A row satisfies a filter by the filter's own values.                    *)
FilterHolds(r, table, f) == Holds(r, Atom(f.field, f.op, Len(f.words)), FilterValues(table, f))

(* The fields that are searched.                                           *)
SearchNames == {"username", "email", "display_name", "name", "description", "user"}

(* Something is searched in each table.                                    *)
LEMMA SearchedFields ==
  \A table \in DOMAIN Builder :
    Builder[table].search \in Seq(SearchNames) /\ Len(Builder[table].search) \in Nat \ {0}
<1> DEFINE Fine(s) == s \in Seq(SearchNames) /\ Len(s) \in Nat \ {0}
<1>1. Fine(UserBuilder.search)
  BY DEF UserBuilder, SearchNames
<1>2. Fine(NamespaceBuilder.search)
  BY DEF NamespaceBuilder, SearchNames
<1>3. Fine(RepositoryBuilder.search)
  BY DEF RepositoryBuilder, SearchNames
<1>4. Fine(AccessBuilder.search)
  BY DEF AccessBuilder, SearchNames
<1> HIDE DEF Fine
<1>5. \A table \in DOMAIN Builder :
        Builder[table] \in {UserBuilder, NamespaceBuilder, RepositoryBuilder, AccessBuilder}
  BY DEF Builder
<1>6. \A table \in DOMAIN Builder : Fine(Builder[table].search)
  BY <1>1, <1>2, <1>3, <1>4, <1>5, Zenon
<1> QED
  BY <1>6 DEF Fine

(* What is selected when each filter has its own values, and the search    *)
(* its term.                                                               *)
SelectsByFilters(table, cond) ==
  LET search == Builder[table].search IN
  /\ Len(AllHoles(buildWhereClause(table, cond))) = Len(whereArgs(table, cond))
  /\ Len(whereArgs(table, cond)) \in Nat
  /\ SelectedFor(table, cond) =
       {r \in present :
          /\ r.table = table
          /\ \A i \in DOMAIN cond.filters : \E j \in DOMAIN cond.filters[i] :
               FilterHolds(r, table, cond.filters[i][j])
          /\ cond.term # NoTerm =>
               \E k \in DOMAIN search : cond.term \in r.text[search[k]]}

(* The rows that satisfy the filters and have the term, if one is sought.  *)
LEMMA SelectedByFilters ==
  ASSUME NEW F, NEW W, NEW cond, cond.filters \in Seq(Seq(Filters(F, W))),
         NEW table \in DOMAIN Builder
  PROVE  SelectsByFilters(table, cond)
<1> DEFINE fs == cond.filters
           search == Builder[table].search
           term == cond.term
           C == [field : F \cup SearchNames,
                 op : {"=", "IN", "<", "<=", ">", ">=", "LIKE"}, holes : Nat]
           V == W \cup {0, 1, term}
           clauses == [i \in DOMAIN fs |-> [j \in DOMAIN fs[i] |->
                         Atom(fs[i][j].field, fs[i][j].op, Len(fs[i][j].words))]]
           parts == [i \in DOMAIN fs |-> [j \in DOMAIN fs[i] |-> FilterValues(table, fs[i][j])]]
           P == [i \in DOMAIN fs |-> ClauseArgs(table, fs[i])]
           where == buildWhereClause(table, cond)
           args == whereArgs(table, cond)
<1>1. search \in Seq(SearchNames) /\ Len(search) \in Nat \ {0}
  BY SearchedFields
<1>2. /\ fs \in Seq(Seq(Filters(F, W))) /\ Len(fs) \in Nat /\ DOMAIN fs = 1 .. Len(fs)
      /\ \A i \in 1 .. Len(fs) :
           /\ fs[i] \in Seq(Filters(F, W)) /\ DOMAIN fs[i] = 1 .. Len(fs[i]) /\ Len(fs[i]) \in Nat
  OBVIOUS
<1> HIDE DEF fs, search
<1>3. ASSUME NEW i \in 1 .. Len(fs), NEW j \in 1 .. Len(fs[i])
      PROVE  /\ Atom(fs[i][j].field, fs[i][j].op, Len(fs[i][j].words)) \in C
             /\ FilterValues(table, fs[i][j]) \in Seq(V)
             /\ Len(FilterValues(table, fs[i][j])) = Len(fs[i][j].words)
  <2> DEFINE f == fs[i][j]
  <2>1. f \in Filters(F, W)
    <3>1. fs[i] \in Seq(Filters(F, W))
      BY <1>2
    <3> QED
      BY <3>1
  <2> HIDE DEF f
  <2>2. /\ f.field \in F /\ f.op \in {"=", "IN", "<", "<=", ">", ">="} /\ f.words \in Seq(W)
        /\ Len(f.words) \in Nat /\ DOMAIN f.words = 1 .. Len(f.words)
    BY <2>1 DEF Filters
  <2>3. Atom(f.field, f.op, Len(f.words)) \in C
    BY <2>2 DEF Atom
  <2>4. \A k \in 1 .. Len(f.words) : transformValue(table, f.field, f.words[k]) \in V
    BY <2>2 DEF transformValue
  <2>5. FilterValues(table, f) \in Seq(V) /\ Len(FilterValues(table, f)) = Len(f.words)
    BY <2>2, <2>4 DEF FilterValues
  <2> QED
    BY <2>3, <2>5 DEF f
<1>4. clauses \in Seq(Seq(C)) /\ Len(clauses) = Len(fs)
      /\ \A i \in 1 .. Len(fs) : Len(clauses[i]) = Len(fs[i])
  <2> HIDE DEF C
  <2>1. ASSUME NEW i \in 1 .. Len(fs) PROVE clauses[i] \in Seq(C) /\ Len(clauses[i]) = Len(fs[i])
    <3> DEFINE g == clauses[i]
    <3>1. g = [j \in 1 .. Len(fs[i]) |-> g[j]] /\ \A j \in 1 .. Len(fs[i]) : g[j] \in C
      BY <1>2, <1>3
    <3>2. Len(fs[i]) \in Nat
      BY <1>2
    <3> HIDE DEF g
    <3>3. g \in Seq(C) /\ Len(g) = Len(fs[i])
      BY <3>1, <3>2, FunctionIsSeq
    <3> QED
      BY <3>3 DEF g
  <2>2. clauses = [i \in 1 .. Len(fs) |-> clauses[i]]
    BY <1>2
  <2> HIDE DEF clauses
  <2> QED
    BY <1>2, <2>1, <2>2, FunctionIsSeq
<1>5. parts \in Seq(Seq(Seq(V))) /\ Len(parts) = Len(fs)
      /\ \A i \in 1 .. Len(fs) : Len(parts[i]) = Len(fs[i])
  <2> HIDE DEF V
  <2>1. ASSUME NEW i \in 1 .. Len(fs) PROVE parts[i] \in Seq(Seq(V)) /\ Len(parts[i]) = Len(fs[i])
    <3> DEFINE g == parts[i]
    <3>1. g = [j \in 1 .. Len(fs[i]) |-> g[j]] /\ \A j \in 1 .. Len(fs[i]) : g[j] \in Seq(V)
      BY <1>2, <1>3
    <3>2. Len(fs[i]) \in Nat
      BY <1>2
    <3> HIDE DEF g
    <3>3. g \in Seq(Seq(V)) /\ Len(g) = Len(fs[i])
      BY <3>1, <3>2, FunctionIsSeq
    <3> QED
      BY <3>3 DEF g
  <2>2. parts = [i \in 1 .. Len(fs) |-> parts[i]]
    BY <1>2
  <2> HIDE DEF parts
  <2> QED
    BY <1>2, <2>1, <2>2, FunctionIsSeq
<1>6. \A i \in 1 .. Len(fs) : \A j \in 1 .. Len(fs[i]) : 
        /\ clauses[i][j] = Atom(fs[i][j].field, fs[i][j].op, Len(fs[i][j].words))
        /\ parts[i][j] = FilterValues(table, fs[i][j])
        /\ Len(parts[i][j]) = clauses[i][j].holes
  <2> HIDE DEF V
  <2> QED
  BY <1>2, <1>3 DEF Atom
<1>7. P = [i \in DOMAIN parts |-> FlattenSeq(parts[i])]
  BY <1>2 DEF ClauseArgs
<1>8. \A c \in C : c.holes \in Nat
  OBVIOUS
<1>9. FilterArgs(table, cond) = FlattenSeq(P)
  BY DEF FilterArgs, fs
<1>10. /\ P \in Seq(Seq(V)) /\ Len(P) = Len(fs) /\ FlattenSeq(P) \in Seq(V)
       /\ DOMAIN clauses = 1 .. Len(fs) /\ DOMAIN parts = 1 .. Len(fs)
       /\ \A i \in 1 .. Len(fs) : P[i] = FlattenSeq(parts[i])
  <2> HIDE DEF V
  <2>1. ASSUME NEW i \in 1 .. Len(fs) PROVE P[i] = FlattenSeq(parts[i]) /\ P[i] \in Seq(V)
    <3> DEFINE g == parts[i]
    <3>1. g \in Seq(Seq(V))
      <4> HIDE DEF parts
      <4> QED
        BY <1>5
    <3>2. P[i] = FlattenSeq(g)
      BY <1>2, <1>7
    <3> HIDE DEF g
    <3>3. FlattenSeq(g) \in Seq(V)
      BY <3>1, FlattenType
    <3> QED
      BY <3>2, <3>3 DEF g
  <2>2. P = [i \in 1 .. Len(fs) |-> P[i]]
    BY <1>2
  <2>3. DOMAIN clauses = 1 .. Len(fs) /\ DOMAIN parts = 1 .. Len(fs)
    BY <1>2
  <2> HIDE DEF P, parts, clauses
  <2>4. P \in Seq(Seq(V)) /\ Len(P) = Len(fs)
    BY <1>2, <2>1, <2>2, FunctionIsSeq
  <2> QED
    BY <2>1, <2>3, <2>4, FlattenType
<1>11. ASSUME NEW r, NEW i \in 1 .. Len(fs)
       PROVE  (\E j \in DOMAIN clauses[i] : Holds(r, clauses[i][j], parts[i][j]))
              <=> (\E j \in DOMAIN fs[i] : FilterHolds(r, table, fs[i][j]))
  <2>1. DOMAIN clauses[i] = DOMAIN fs[i] /\ DOMAIN fs[i] = 1 .. Len(fs[i])
    BY <1>2
  <2> HIDE DEF clauses, parts
  <2> QED
    BY <1>6, <2>1, Zenon DEF FilterHolds
<1> DEFINE Satisfied(r) == \A i \in 1 .. Len(fs) : \E j \in DOMAIN fs[i] : FilterHolds(r, table, fs[i][j])
           Found(r) == \E k \in DOMAIN search : term \in r.text[search[k]]
           Answered == /\ Len(AllHoles(where)) = Len(args) /\ Len(args) \in Nat
                       /\ Selected(table, where, args) =
                            {r \in present : /\ r.table = table /\ Satisfied(r)
                                             /\ term # NoTerm => Found(r)}
<1>12. ASSUME term = NoTerm PROVE Answered
  <2>1. where = clauses
    BY <1>12 DEF buildWhereClause, SearchFields, fs, term
  <2>2. args = FlattenSeq(P)
    <3>1. SearchArgs(table, cond) = <<>>
      BY <1>12 DEF SearchArgs, SearchFields, term
    <3>2. args = FlattenSeq(P) \o <<>>
      BY <1>9, <3>1, Zenon DEF whereArgs
    <3> HIDE DEF P, args, V
    <3>3. FlattenSeq(P) \o <<>> = FlattenSeq(P)
      BY <1>10
    <3> QED
      BY <3>2, <3>3
  <2>3. Fitting(clauses, parts)
    <3> HIDE DEF clauses, parts
    <3> QED
      BY <1>4, <1>5, <1>6 DEF Fitting
  <2> HIDE DEF where, args, clauses, P, C, V
  <2>4. args = FlattenSeq([i \in DOMAIN parts |-> FlattenSeq(parts[i])])
    BY <1>7, <2>2
  <2> HIDE DEF parts
  <2>5. SelectsByParts(table, clauses, args, parts)
    BY <1>4, <1>5, <1>8, <2>3, <2>4, SelectedByParts
  <2>6. \A r : (\A i \in DOMAIN clauses : \E j \in DOMAIN clauses[i] : Holds(r, clauses[i][j], parts[i][j]))
              <=> Satisfied(r)
    BY <1>10, <1>11, Zenon
  <2> QED
    BY <1>12, <2>1, <2>5, <2>6, Zenon DEF SelectsByParts
<1>13. ASSUME term # NoTerm PROVE Answered
  <2> DEFINE likes == [k \in DOMAIN search |-> Atom(search[k], "LIKE", 1)]
             single == <<term>>
             holders == [k \in DOMAIN search |-> single]
             terms == [k \in DOMAIN search |-> term]
             w2 == Append(clauses, likes)
             p2 == Append(parts, holders)
  <2>1. where = w2
    <3>1. SearchFields(table, cond) = search
      BY <1>13 DEF SearchFields, term, search
    <3>2. search # <<>>
      BY <1>1
    <3> QED
      BY <3>1, <3>2 DEF buildWhereClause, fs
  <2>2. args = FlattenSeq(P) \o terms
    <3>1. SearchFields(table, cond) = search
      BY <1>13 DEF SearchFields, term, search
    <3>2. SearchArgs(table, cond) = terms
      BY <3>1 DEF SearchArgs, term
    <3> QED
      BY <1>9, <3>2, Zenon DEF whereArgs
  <2>3. /\ likes \in Seq(C) /\ Len(likes) = Len(search) /\ DOMAIN likes = 1 .. Len(search)
        /\ \A k \in 1 .. Len(search) : likes[k] = Atom(search[k], "LIKE", 1)
    <3>1. \A k \in 1 .. Len(search) : Atom(search[k], "LIKE", 1) \in C
      BY <1>1 DEF Atom
    <3> HIDE DEF C
    <3> QED
      BY <1>1, <3>1
  <2>4. /\ holders \in Seq(Seq(V)) /\ Len(holders) = Len(search)
        /\ \A k \in 1 .. Len(search) : holders[k] = single /\ Len(holders[k]) = 1
    <3>1. single \in Seq(V) /\ Len(single) = 1
      OBVIOUS
    <3> HIDE DEF V, single
    <3> QED
      BY <1>1, <3>1
  <2>5. terms \in Seq(V)
    BY <1>1
  <2>6. FlattenSeq(holders) = terms
    <3>1. holders = [k \in DOMAIN terms |-> <<terms[k]>>]
      OBVIOUS
    <3> HIDE DEF holders, terms, V
    <3> QED
      BY <2>5, <3>1, FlattenSingles
  <2> HIDE DEF likes, holders, terms, clauses, parts, where, args, C, V, P
  <2>7. /\ w2 \in Seq(Seq(C)) /\ Len(w2) = Len(fs) + 1 /\ DOMAIN w2 = 1 .. Len(fs) + 1
        /\ w2[Len(fs) + 1] = likes /\ \A i \in 1 .. Len(fs) : w2[i] = clauses[i]
    BY <1>2, <1>4, <2>3
  <2>8. /\ p2 \in Seq(Seq(Seq(V))) /\ Len(p2) = Len(fs) + 1 /\ DOMAIN p2 = 1 .. Len(fs) + 1
        /\ p2[Len(fs) + 1] = holders /\ \A i \in 1 .. Len(fs) : p2[i] = parts[i]
    BY <1>2, <1>5, <2>4
  <2>9. 1 .. Len(fs) + 1 = (1 .. Len(fs)) \cup {Len(fs) + 1}
    BY <1>2
  <2>10. args = FlattenSeq([i \in DOMAIN p2 |-> FlattenSeq(p2[i])])
    <3> DEFINE Q == Append(P, terms)
    <3>1. /\ Q \in Seq(Seq(V)) /\ Len(Q) = Len(fs) + 1
          /\ Q[Len(fs) + 1] = terms /\ \A i \in 1 .. Len(fs) : Q[i] = P[i]
      BY <1>2, <1>10, <2>5
    <3>2. FlattenSeq(Q) = FlattenSeq(P) \o terms
      BY <1>10, <2>5, FlattenMore
    <3> HIDE DEF Q, p2
    <3>3. \A i \in 1 .. Len(fs) + 1 : Q[i] = FlattenSeq(p2[i])
      BY <1>10, <2>6, <2>8, <2>9, <3>1, Zenon
    <3>5. Q = [i \in 1 .. Len(fs) + 1 |-> Q[i]]
      BY <3>1
    <3>4. Q = [i \in DOMAIN p2 |-> FlattenSeq(p2[i])]
      BY <2>8, <3>3, <3>5
    <3> QED
      BY <2>2, <3>2, <3>4, Zenon
  <2> HIDE DEF w2, p2
  <2>11. Fitting(w2, p2)
    <3>1. ASSUME NEW i \in 1 .. Len(fs)
          PROVE  /\ Len(p2[i]) = Len(w2[i])
                 /\ \A j \in 1 .. Len(w2[i]) : Len(p2[i][j]) = w2[i][j].holes
      <4>1. Len(clauses[i]) = Len(fs[i]) /\ Len(parts[i]) = Len(fs[i]) /\ w2[i] = clauses[i] /\ p2[i] = parts[i]
        BY <1>4, <1>5, <2>7, <2>8
      <4> QED
        BY <1>6, <4>1, Zenon
    <3>2. /\ Len(holders) = Len(likes)
          /\ \A j \in 1 .. Len(likes) : Len(holders[j]) = likes[j].holes
      <4>1. \A k \in 1 .. Len(search) : likes[k].holes = 1
        BY <2>3 DEF Atom
      <4> QED
        BY <2>3, <2>4, <4>1, Zenon
    <3> QED
      BY <2>7, <2>8, <2>9, <3>1, <3>2, Zenon DEF Fitting
  <2>12. SelectsByParts(table, w2, args, p2)
    BY <1>8, <2>7, <2>8, <2>10, <2>11, SelectedByParts
  <2>13. ASSUME NEW r
         PROVE  (\E j \in DOMAIN likes : Holds(r, likes[j], holders[j])) <=> Found(r)
    <3>1. ASSUME NEW k \in 1 .. Len(search)
          PROVE  Holds(r, likes[k], holders[k]) <=> term \in r.text[search[k]]
      BY <2>3, <2>4 DEF Holds, Atom
    <3>2. DOMAIN search = 1 .. Len(search)
      BY <1>1
    <3> QED
      BY <2>3, <3>1, <3>2, Zenon
  <2>14. ASSUME NEW r
         PROVE  (\A i \in DOMAIN w2 : \E j \in DOMAIN w2[i] : Holds(r, w2[i][j], p2[i][j]))
                <=> Satisfied(r) /\ Found(r)
    <3>1. (\A i \in 1 .. Len(fs) : \E j \in DOMAIN w2[i] : Holds(r, w2[i][j], p2[i][j])) <=> Satisfied(r)
      BY <1>11, <2>7, <2>8, Zenon
    <3>2. (\E j \in DOMAIN w2[Len(fs) + 1] : Holds(r, w2[Len(fs) + 1][j], p2[Len(fs) + 1][j])) <=> Found(r)
      BY <2>7, <2>8, <2>13, Zenon
    <3> HIDE DEF Satisfied, Found
    <3> QED
      BY <2>7, <2>9, <3>1, <3>2, Zenon
  <2> QED
    BY <1>13, <2>1, <2>12, <2>14, Zenon DEF SelectsByParts
<1>14. Answered
  BY <1>12, <1>13
<1> QED
  BY <1>2, <1>14 DEF SelectsByFilters, SelectedFor, fs, search, term

-----------------------------------------------------------------------------
(* What the parameters ask                                                 *)

(* The comparisons that a value of a parameter has, and its values.        *)
Comparisons == {"=", "<", "<=", ">", ">="}
Values == Seq([cmp : Comparisons, word : Nat]) \ {<<>>}

(* A filter by one word.                                                   *)
LEMMA FilterByWord ==
  ASSUME NEW r, NEW table, NEW f, NEW op \in Comparisons, NEW w
  PROVE  FilterHolds(r, table, Filter(f, op, <<w>>))
         <=> Compared(r.col[f], op, transformValue(table, f, w))
<1> DEFINE filter == Filter(f, op, <<w>>)
           args == FilterValues(table, filter)
           atom == Atom(f, op, 1)
<1>1. filter.field = f /\ filter.op = op /\ filter.words = <<w>>
  BY DEF Filter
<1> HIDE DEF filter
<1>2. args[1] = transformValue(table, f, w) /\ Len(filter.words) = 1
  BY <1>1 DEF FilterValues
<1>3. atom.field = f /\ atom.op = op
  BY DEF Atom
<1> HIDE DEF args, atom
<1>4. Holds(r, atom, args) <=> Compared(r.col[f], op, args[1])
  BY <1>3 DEF Holds, Comparisons
<1>5. FilterHolds(r, table, filter) <=> Holds(r, atom, args)
  BY <1>1, <1>2 DEF FilterHolds, atom, args
<1> QED
  BY <1>2, <1>4, <1>5 DEF filter

(* A filter by several words of which one must be equal.                   *)
LEMMA FilterByWords ==
  ASSUME NEW r, NEW table, NEW f, NEW words
  PROVE  FilterHolds(r, table, Filter(f, "IN", words))
         <=> \E i \in DOMAIN words : r.col[f] = transformValue(table, f, words[i])
<1> DEFINE filter == Filter(f, "IN", words)
           args == FilterValues(table, filter)
           atom == Atom(f, "IN", Len(words))
<1>1. filter.field = f /\ filter.op = "IN" /\ filter.words = words
  BY DEF Filter
<1> HIDE DEF filter
<1>2. DOMAIN args = DOMAIN words /\ \A i \in DOMAIN words : args[i] = transformValue(table, f, words[i])
  BY <1>1 DEF FilterValues
<1>3. atom.field = f /\ atom.op = "IN"
  BY DEF Atom
<1> HIDE DEF args, atom
<1>4. Holds(r, atom, args) <=> \E i \in DOMAIN args : r.col[f] = args[i]
  BY <1>3 DEF Holds
<1>5. FilterHolds(r, table, filter) <=> Holds(r, atom, args)
  BY <1>1 DEF FilterHolds, atom, args
<1> QED
  BY <1>2, <1>4, <1>5, Zenon DEF filter

(* The fields that are booleans to the parameters are those that are to    *)
(* the builders, but for the visibility.                                   *)
LEMMA WordsMeant ==
  ASSUME NEW table \in DOMAIN Builder, NEW f \in AllowedFilters[table] \ {"tags", "is_public"}, NEW w
  PROVE  transformValue(table, f, w) = Meant(f, w)
<1>1. CASE table = "users"
  BY <1>1 DEF transformValue, Meant, IsBoolean, Builder, UserBuilder, AllowedFilters
<1>2. CASE table = "namespaces"
  BY <1>2 DEF transformValue, Meant, IsBoolean, Builder, NamespaceBuilder, AllowedFilters
<1>3. CASE table = "repositories"
  BY <1>3 DEF transformValue, Meant, IsBoolean, Builder, RepositoryBuilder, AllowedFilters
<1>4. CASE table = "accesses"
  BY <1>4 DEF transformValue, Meant, IsBoolean, Builder, AccessBuilder, AllowedFilters
<1>5. DOMAIN Builder = {"users", "namespaces", "repositories", "accesses"}
  BY DEF Builder
<1> QED
  BY <1>1, <1>2, <1>3, <1>4, <1>5

(* What the filters of a parameter say is what the parameter asks.         *)
LEMMA KeyAsked ==
  ASSUME NEW r, NEW table \in DOMAIN Builder, NEW f, NEW vals \in Values
  PROVE  LET fs == KeyFilters(f, vals) IN
         /\ fs \in Seq(Filters({f}, Nat))
         /\ f # "is_public" /\ (\A i \in DOMAIN fs : fs[i].field \in AllowedFilters[table] \ {"tags"})
            => ((\A i \in DOMAIN fs : FilterHolds(r, table, fs[i])) <=> AskedOf(r, f, vals))
<1> DEFINE fs == KeyFilters(f, vals)
           Has(i) == Compared(r.col[f], vals[i].cmp, Meant(f, vals[i].word))
           All == \A i \in DOMAIN fs : FilterHolds(r, table, fs[i])
           Valid == f # "is_public" /\ \A i \in DOMAIN fs : fs[i].field \in AllowedFilters[table] \ {"tags"}
           Goal == fs \in Seq(Filters({f}, Nat)) /\ (Valid => (All <=> AskedOf(r, f, vals)))
<1>1. /\ Len(vals) \in Nat \ {0} /\ DOMAIN vals = 1 .. Len(vals) /\ vals \in Seq([cmp : Comparisons, word : Nat])
      /\ \A i \in 1 .. Len(vals) : vals[i].cmp \in Comparisons /\ vals[i].word \in Nat
  <2> DEFINE V == [cmp : Comparisons, word : Nat]
  <2>1. vals \in Seq(V) /\ vals # <<>>
    BY DEF Values
  <2>2. \A v \in V : v.cmp \in Comparisons /\ v.word \in Nat
    OBVIOUS
  <2> HIDE DEF V
  <2>3. Len(vals) \in Nat \ {0} /\ DOMAIN vals = 1 .. Len(vals) /\ \A i \in 1 .. Len(vals) : vals[i] \in V
    BY <2>1
  <2> QED
    BY <2>1, <2>2, <2>3 DEF V
<1>2. ASSUME NEW i \in 1 .. Len(vals)
      PROVE  /\ Filter(f, vals[i].cmp, <<vals[i].word>>) \in Filters({f}, Nat)
             /\ Filter(f, vals[i].cmp, <<vals[i].word>>).field = f
  <2> DEFINE op == vals[i].cmp
             w == vals[i].word
  <2>1. op \in Comparisons /\ w \in Nat
    BY <1>1
  <2> HIDE DEF op, w
  <2>2. Filter(f, op, <<w>>) \in Filters({f}, Nat) /\ Filter(f, op, <<w>>).field = f
    BY <2>1 DEF Filter, Filters, Comparisons
  <2> QED
    BY <2>2 DEF op, w
<1>3. ASSUME Valid, NEW i \in DOMAIN fs, fs[i].field = f
      PROVE  \A w : transformValue(table, f, w) = Meant(f, w)
  <2>1. f \in AllowedFilters[table] \ {"tags", "is_public"}
    BY <1>3
  <2> QED
    BY <2>1, WordsMeant
<1>4. ASSUME NEW i \in 1 .. Len(vals), \A w : transformValue(table, f, w) = Meant(f, w)
      PROVE  FilterHolds(r, table, Filter(f, vals[i].cmp, <<vals[i].word>>)) <=> Has(i)
  BY <1>1, <1>4, FilterByWord, Zenon
<1>5. ASSUME \A i \in DOMAIN vals : ~Compares(vals[i]) PROVE Goal
  <2> DEFINE words == [i \in DOMAIN vals |-> vals[i].word]
  <2>1. \A i \in 1 .. Len(vals) : vals[i].cmp = "="
    BY <1>1, <1>5 DEF Compares
  <2>2. {vals[i].cmp : i \in DOMAIN vals} = {"="}
    BY <1>1, <2>1
  <2>3. AskedOf(r, f, vals) <=> \E i \in DOMAIN vals : Has(i)
    BY <2>2 DEF AskedOf
  <2>4. \A i \in 1 .. Len(vals) : Has(i) <=> r.col[f] = Meant(f, vals[i].word)
    BY <2>1 DEF Compared
  <2>5. words \in Seq(Nat) /\ Len(words) = Len(vals) /\ DOMAIN words = DOMAIN vals
        /\ \A i \in 1 .. Len(vals) : words[i] = vals[i].word
    BY <1>1
  <2> DEFINE op == IF Len(vals) > 1 THEN "IN" ELSE "="
             filter == Filter(f, op, words)
  <2>6. fs = <<filter>>
    BY <1>5 DEF KeyFilters
  <2>7. filter \in Filters({f}, Nat) /\ filter.field = f
    <3>1. words \in Seq(Nat)
      BY <2>5
    <3> HIDE DEF words
    <3> QED
      BY <3>1 DEF Filter, Filters
  <2> HIDE DEF words, fs, Has
  <2>8. /\ fs \in Seq(Filters({f}, Nat)) /\ 1 \in DOMAIN fs
        /\ DOMAIN fs = {1} /\ fs[1] = filter
    <3> HIDE DEF filter
    <3> QED
      BY <2>6, <2>7
  <2> SUFFICES ASSUME Valid PROVE All <=> AskedOf(r, f, vals)
    BY <2>8
  <2>9. All <=> FilterHolds(r, table, filter)
    BY <2>8
  <2>10. \A w : transformValue(table, f, w) = Meant(f, w)
    BY <1>3, <2>7, <2>8
  <2>11. CASE Len(vals) > 1
    <3>1. FilterHolds(r, table, filter)
          <=> \E i \in DOMAIN words : r.col[f] = transformValue(table, f, words[i])
      BY <2>11, FilterByWords
    <3> HIDE DEF filter
    <3>2. All <=> \E i \in 1 .. Len(vals) : r.col[f] = Meant(f, vals[i].word)
      BY <1>1, <2>5, <2>9, <2>10, <3>1
    <3>3. All <=> \E i \in DOMAIN vals : Has(i)
      BY <1>1, <2>4, <3>2
    <3> QED
      BY <2>3, <2>8, <3>3
  <2>12. CASE Len(vals) = 1
    <3>1. words = <<vals[1].word>> /\ op = "=" /\ DOMAIN vals = {1} /\ 1 \in 1 .. Len(vals)
      BY <1>1, <2>5, <2>12
    <3>2. filter = Filter(f, vals[1].cmp, <<vals[1].word>>)
      BY <2>1, <3>1
    <3>3. FilterHolds(r, table, filter) <=> Has(1)
      BY <1>4, <2>10, <3>1, <3>2, Zenon
    <3> HIDE DEF filter
    <3> QED
      BY <2>3, <2>8, <2>9, <3>1, <3>3, Zenon
  <2> QED
    BY <1>1, <2>11, <2>12
<1>6. ASSUME ~\A i \in DOMAIN vals : ~Compares(vals[i])
      PROVE  {vals[i].cmp : i \in DOMAIN vals} # {"="}
  BY <1>6 DEF Compares
<1>7. ASSUME ~\A i \in DOMAIN vals : ~Compares(vals[i]), Len(vals) = 1 PROVE Goal
  <2> DEFINE filter == Filter(f, vals[1].cmp, <<vals[1].word>>)
  <2>1. fs = <<filter>>
    BY <1>7 DEF KeyFilters
  <2>2. filter \in Filters({f}, Nat) /\ filter.field = f
    <3>1. 1 \in 1 .. Len(vals)
      BY <1>1
    <3> QED
      BY <1>2, <3>1
  <2>3. AskedOf(r, f, vals) <=> Has(1)
    BY <1>6, <1>7 DEF AskedOf
  <2> HIDE DEF fs, filter, Has
  <2>4. fs \in Seq(Filters({f}, Nat)) /\ DOMAIN fs = {1} /\ fs[1] = filter
    BY <2>1, <2>2
  <2> SUFFICES ASSUME Valid PROVE All <=> AskedOf(r, f, vals)
    BY <2>4
  <2>5. \A w : transformValue(table, f, w) = Meant(f, w)
    BY <1>3, <2>2, <2>4
  <2>6. FilterHolds(r, table, filter) <=> Has(1)
    <3>1. 1 \in 1 .. Len(vals)
      BY <1>1
    <3> QED
      BY <1>4, <2>5, <3>1, Zenon DEF filter
  <2> QED
    BY <2>3, <2>4, <2>6
<1>8. ASSUME ~\A i \in DOMAIN vals : ~Compares(vals[i]), Len(vals) # 1, IsRange(vals) PROVE Goal
  <2> DEFINE filter(i) == Filter(f, vals[i].cmp, <<vals[i].word>>)
  <2>1. fs = [i \in 1 .. 2 |-> filter(i)]
    BY <1>8 DEF KeyFilters
  <2>2. \A i \in 1 .. 2 : i \in 1 .. Len(vals) /\ filter(i) \in Filters({f}, Nat) /\ filter(i).field = f
    <3>1. \A i \in 1 .. 2 : i \in 1 .. Len(vals)
      BY <1>1, <1>8
    <3> QED
      BY <1>2, <3>1, Zenon
  <2>3. AskedOf(r, f, vals) <=> \A i \in 1 .. 2 : Has(i)
    <3>1. AskedOf(r, f, vals) <=> \A i \in 1 .. Len(vals) : i <= 2 => Has(i)
      BY <1>6, <1>8 DEF AskedOf
    <3> HIDE DEF Has
    <3> QED
      BY <1>1, <1>8, <3>1
  <2> HIDE DEF fs, filter, Has
  <2>4. fs \in Seq(Filters({f}, Nat)) /\ DOMAIN fs = 1 .. 2 /\ \A i \in 1 .. 2 : fs[i] = filter(i)
    BY <2>1, <2>2
  <2> SUFFICES ASSUME Valid PROVE All <=> AskedOf(r, f, vals)
    BY <2>4
  <2>5. \A w : transformValue(table, f, w) = Meant(f, w)
    <3>1. 1 \in DOMAIN fs /\ fs[1].field = f
      BY <2>2, <2>4
    <3> QED
      BY <1>3, <3>1
  <2>6. \A i \in 1 .. 2 : FilterHolds(r, table, filter(i)) <=> Has(i)
    BY <1>4, <2>2, <2>5, Zenon DEF filter
  <2> QED
    BY <2>3, <2>4, <2>6, Zenon
<1>9. ASSUME ~\A i \in DOMAIN vals : ~Compares(vals[i]), Len(vals) # 1, ~IsRange(vals) PROVE Goal
  <2>1. fs = <<>>
    BY <1>9 DEF KeyFilters
  <2>2. AskedOf(r, f, vals)
    BY <1>1, <1>6, <1>9 DEF AskedOf
  <2> QED
    BY <2>1, <2>2
<1> QED
  BY <1>5, <1>7, <1>8, <1>9

(* An enumeration of a finite set has all its elements, each once.         *)
LEMMA Enumerated ==
  ASSUME NEW S, IsFiniteSet(S), NEW s \in SetToSeqs(S)
  PROVE  /\ s \in Seq(S) /\ Len(s) = Cardinality(S) /\ Len(s) \in Nat
         /\ DOMAIN s = 1 .. Len(s) /\ ToSet(s) = S
         /\ \A i, j \in DOMAIN s : i # j => s[i] # s[j]
<1> DEFINE n == Cardinality(S)
<1>1. n \in Nat
  BY FS_CardinalityType
<1>2. s \in [1 .. n -> S] /\ \A i, j \in 1 .. n : i # j => s[i] # s[j]
  BY DEF SetToSeqs
<1>3. Cardinality(1 .. n) = n
  <2> HIDE DEF n
  <2> QED
    BY <1>1, FS_Interval
<1>4. s \in Injection(1 .. n, S)
  <2> HIDE DEF n
  <2> QED
    BY <1>2 DEF Injection, IsInjective
<1>5. s \in Surjection(1 .. n, S)
  BY <1>3, <1>4, FS_Injection
<1> HIDE DEF n
<1>6. ToSet(s) = S
  BY <1>2, <1>5 DEF Surjection, ToSet
<1>7. s \in Seq(S) /\ Len(s) = n /\ DOMAIN s = 1 .. n
  BY <1>1, <1>2
<1> QED
  BY <1>1, <1>2, <1>6, <1>7 DEF n

(* What the filters of the parameters say is what the parameters ask, in   *)
(* whatever order they come.                                               *)
LEMMA ParsedAsked ==
  ASSUME NEW q, IsFiniteSet(DOMAIN q.filters), \A f \in DOMAIN q.filters : q.filters[f] \in Values,
         NEW keys \in SetToSeqs(DOMAIN q.filters), NEW table \in DOMAIN Builder
  PROVE  LET fs == ParseListConditions(q, keys).filters
             F == DOMAIN q.filters
         IN  /\ fs \in Seq(Seq(Filters(F, Nat)))
             /\ /\ "is_public" \notin F
                /\ \A i \in DOMAIN fs : fs[i][1].field \in AllowedFilters[table] \ {"tags"}
                => \A r : (\A i \in DOMAIN fs : \E j \in DOMAIN fs[i] : FilterHolds(r, table, fs[i][j]))
                          <=> \A f \in F : AskedOf(r, f, q.filters[f])
<1> DEFINE F == DOMAIN q.filters
           KF(k) == KeyFilters(keys[k], q.filters[keys[k]])
           clauses(k) == [i \in DOMAIN KF(k) |-> <<KF(k)[i]>>]
           parts == [k \in DOMAIN keys |-> clauses(k)]
           A == Seq(Filters(F, Nat))
           fs == ParseListConditions(q, keys).filters
<1>1. fs = FlattenSeq(parts)
  BY DEF ParseListConditions
<1>2. keys \in Seq(F) /\ Len(keys) \in Nat /\ DOMAIN keys = 1 .. Len(keys) /\ ToSet(keys) = F
  BY Enumerated
<1>3. \A k \in 1 .. Len(keys) : keys[k] \in F /\ q.filters[keys[k]] \in Values
  BY <1>2
<1>4. ASSUME NEW k \in 1 .. Len(keys)
      PROVE  /\ KF(k) \in Seq(Filters(F, Nat))
             /\ \A r : keys[k] # "is_public"
                       /\ (\A i \in DOMAIN KF(k) : KF(k)[i].field \in AllowedFilters[table] \ {"tags"})
                       => ((\A i \in DOMAIN KF(k) : FilterHolds(r, table, KF(k)[i]))
                           <=> AskedOf(r, keys[k], q.filters[keys[k]]))
  <2> DEFINE f == keys[k]
             vals == q.filters[f]
  <2>1. f \in F /\ vals \in Values
    BY <1>3
  <2> HIDE DEF f, vals
  <2>2. /\ KeyFilters(f, vals) \in Seq(Filters({f}, Nat))
        /\ \A r : f # "is_public"
                  /\ (\A i \in DOMAIN KeyFilters(f, vals) :
                        KeyFilters(f, vals)[i].field \in AllowedFilters[table] \ {"tags"})
                  => ((\A i \in DOMAIN KeyFilters(f, vals) : FilterHolds(r, table, KeyFilters(f, vals)[i]))
                      <=> AskedOf(r, f, vals))
    BY <2>1, KeyAsked
  <2>3. Filters({f}, Nat) \subseteq Filters(F, Nat)
    BY <2>1 DEF Filters
  <2>4. KeyFilters(f, vals) \in Seq(Filters(F, Nat))
    <3> DEFINE g == KeyFilters(f, vals)
               X == Filters({f}, Nat)
               Y == Filters(F, Nat)
    <3>1. g \in Seq(X) /\ X \subseteq Y
      BY <2>2, <2>3
    <3> HIDE DEF g, X, Y
    <3>2. g \in Seq(Y)
      BY <3>1
    <3> QED
      BY <3>2 DEF g, Y
  <2> QED
    BY <2>2, <2>4 DEF f, vals
<1>5. ASSUME NEW k \in 1 .. Len(keys)
      PROVE  /\ clauses(k) \in Seq(A) /\ DOMAIN clauses(k) = DOMAIN KF(k)
             /\ \A i \in DOMAIN KF(k) : clauses(k)[i] = <<KF(k)[i]>>
  <2> DEFINE g == KF(k)
             c == clauses(k)
             X == Filters(F, Nat)
  <2>1. g \in Seq(X)
    BY <1>4
  <2>2. c = [i \in DOMAIN g |-> <<g[i]>>]
    OBVIOUS
  <2> HIDE DEF g, X, c
  <2>3. DOMAIN g = 1 .. Len(g) /\ Len(g) \in Nat /\ \A i \in 1 .. Len(g) : <<g[i]>> \in Seq(X)
    BY <2>1
  <2>4. c \in Seq(Seq(X)) /\ DOMAIN c = DOMAIN g /\ \A i \in DOMAIN g : c[i] = <<g[i]>>
    BY <2>2, <2>3
  <2> QED
    BY <2>4 DEF c, g, X
<1> HIDE DEF KF, clauses, fs
<1>6. /\ parts \in Seq(Seq(A)) /\ Len(parts) = Len(keys)
      /\ \A k \in 1 .. Len(keys) : parts[k] = clauses(k)
  <2> HIDE DEF A
  <2> QED
    BY <1>2, <1>5
<1> HIDE DEF parts
<1>7. fs \in Seq(A) /\ ToSet(fs) = UNION {ToSet(parts[k]) : k \in 1 .. Len(keys)}
  <2> HIDE DEF A
  <2> QED
    BY <1>1, <1>6, FlattenType, FlattenElements
<1>8. \A c : c \in ToSet(fs) <=> \E k \in 1 .. Len(keys) : \E i \in DOMAIN KF(k) : c = <<KF(k)[i]>>
  <2>1. \A c : c \in ToSet(fs) <=> \E k \in 1 .. Len(keys) : c \in ToSet(clauses(k))
    BY <1>6, <1>7
  <2>2. \A k \in 1 .. Len(keys) : \A c :
          c \in ToSet(clauses(k)) <=> \E i \in DOMAIN KF(k) : c = <<KF(k)[i]>>
    BY <1>5 DEF ToSet
  <2> QED
    BY <2>1, <2>2
<1>9. ASSUME "is_public" \notin F,
             \A i \in DOMAIN fs : fs[i][1].field \in AllowedFilters[table] \ {"tags"}, NEW r
      PROVE  (\A i \in DOMAIN fs : \E j \in DOMAIN fs[i] : FilterHolds(r, table, fs[i][j]))
             <=> \A f \in F : AskedOf(r, f, q.filters[f])
  <2> DEFINE Some(c) == \E j \in DOMAIN c : FilterHolds(r, table, c[j])
             Allowed(c) == c[1].field \in AllowedFilters[table] \ {"tags"}
  <2>1. (\A i \in DOMAIN fs : Some(fs[i])) <=> \A c \in ToSet(fs) : Some(c)
    BY DEF ToSet
  <2>2. \A c \in ToSet(fs) : Allowed(c)
    BY <1>9 DEF ToSet
  <2>3. \A x : Some(<<x>>) <=> FilterHolds(r, table, x)
    <3>1. ASSUME NEW x PROVE Some(<<x>>) <=> FilterHolds(r, table, x)
      <4> DEFINE c == <<x>>
      <4>1. DOMAIN c = {1} /\ c[1] = x
        OBVIOUS
      <4> HIDE DEF c
      <4>2. Some(c) <=> FilterHolds(r, table, x)
        BY <4>1
      <4> QED
        BY <4>2 DEF c
    <3> QED
      BY <3>1
  <2>4. \A x : Allowed(<<x>>) <=> x.field \in AllowedFilters[table] \ {"tags"}
    OBVIOUS
  <2> HIDE DEF Some, Allowed
  <2>5. ASSUME NEW k \in 1 .. Len(keys)
        PROVE  (\A i \in DOMAIN KF(k) : Some(<<KF(k)[i]>>)) <=> AskedOf(r, keys[k], q.filters[keys[k]])
    <3>1. \A i \in DOMAIN KF(k) : Allowed(<<KF(k)[i]>>)
      BY <1>8, <2>2, Zenon
    <3>2. \A i \in DOMAIN KF(k) : KF(k)[i].field \in AllowedFilters[table] \ {"tags"}
      BY <2>4, <3>1
    <3>3. keys[k] # "is_public"
      BY <1>3, <1>9
    <3> QED
      BY <1>4, <2>3, <3>2, <3>3, Zenon
  <2>6. (\A c \in ToSet(fs) : Some(c))
        <=> \A k \in 1 .. Len(keys) : \A i \in DOMAIN KF(k) : Some(<<KF(k)[i]>>)
    BY <1>8
  <2>7. (\A c \in ToSet(fs) : Some(c))
        <=> \A k \in 1 .. Len(keys) : AskedOf(r, keys[k], q.filters[keys[k]])
    BY <2>5, <2>6, Zenon
  <2>8. \A f : f \in F <=> \E k \in 1 .. Len(keys) : f = keys[k]
    BY <1>2 DEF ToSet
  <2>9. (\A k \in 1 .. Len(keys) : AskedOf(r, keys[k], q.filters[keys[k]]))
        <=> \A f \in F : AskedOf(r, f, q.filters[f])
    <3> HIDE DEF F
    <3> QED
      BY <2>8, Zenon
  <2> QED
    BY <2>1, <2>7, <2>9 DEF Some
<1> QED
  BY <1>7, <1>9 DEF fs

(* The fields of the filters of a scope.                                   *)
ScopeFields == {"namespace_id", "resource_id", "resource_type"}

(* What the filters of the scope are.                                      *)
LEMMA ScopeFiltersType ==
  ASSUME NEW q, NEW ns, NEW W, ns \in W, q.scope \in W, NamespaceWord \in W
  PROVE  ScopeFilters(q, ns) \in Seq(Seq(Filters(ScopeFields, W)))
<1> DEFINE X == Filters(ScopeFields, W)
<1>1. \A f \in ScopeFields, w \in W : Filter(f, "=", <<w>>) \in X
  BY DEF Filter, Filters
<1>2. /\ Filter("namespace_id", "=", <<ns>>) \in X
      /\ Filter("resource_id", "=", <<ns>>) \in X
      /\ Filter("resource_id", "=", <<q.scope>>) \in X
      /\ Filter("resource_type", "=", <<NamespaceWord>>) \in X
  BY <1>1 DEF ScopeFields
<1> HIDE DEF X
<1>3. ScopeFilters(q, ns) \in Seq(Seq(X))
  <2>1. CASE q.listing = "namespaceRepositories"
    BY <1>2, <2>1 DEF ScopeFilters
  <2>2. CASE q.listing = "namespaceUsers"
    BY <1>2, <2>2 DEF ScopeFilters
  <2>3. CASE q.listing = "repositoryUsers"
    BY <1>2, <2>3 DEF ScopeFilters
  <2>4. CASE q.listing \notin {"namespaceRepositories", "namespaceUsers", "repositoryUsers"}
    BY <2>4 DEF ScopeFilters
  <2> QED
    BY <2>1, <2>2, <2>3, <2>4
<1> QED
  BY <1>3 DEF X

(* What the filters of the scope say.                                      *)
LEMMA ScopeAsked ==
  ASSUME NEW q, q.listing \in DOMAIN Table \ {"none"}, Table[q.listing] # "repositories",
         NEW ns, q.listing \in Below => Namespaces(q) = {ns}, NEW r
  PROVE  LET fs == ScopeFilters(q, ns) IN
         (\A i \in DOMAIN fs : \E j \in DOMAIN fs[i] : FilterHolds(r, Table[q.listing], fs[i][j]))
         <=> InScope(r, q)
<1> DEFINE Is(f, w) == FilterHolds(r, "accesses", Filter(f, "=", <<w>>))
           fs == ScopeFilters(q, ns)
           Goal == (\A i \in DOMAIN fs : \E j \in DOMAIN fs[i] : FilterHolds(r, Table[q.listing], fs[i][j]))
                   <=> InScope(r, q)
<1>1. ASSUME NEW f, NEW w PROVE Is(f, w) <=> r.col[f] = w
  <2>1. transformValue("accesses", f, w) = w
    BY DEF transformValue, Builder, AccessBuilder
  <2>2. Is(f, w) <=> Compared(r.col[f], "=", transformValue("accesses", f, w))
    BY FilterByWord DEF Comparisons
  <2> QED
    BY <2>1, <2>2 DEF Compared
<1>2. CASE q.listing = "namespaceUsers"
  <2>1. Table[q.listing] = "accesses" /\ q.listing \in Below
    BY <1>2 DEF Table, Below
  <2>2. ns = q.scope
    <3>1. Namespaces(q) \subseteq {q.scope}
      BY <1>2 DEF Namespaces
    <3> QED
      BY <2>1, <3>1
  <2> DEFINE a == Filter("resource_id", "=", <<ns>>)
             b == Filter("resource_type", "=", <<NamespaceWord>>)
  <2>3. fs = <<<<a>>, <<b>>>>
    BY <1>2 DEF ScopeFilters
  <2>4. /\ FilterHolds(r, "accesses", a) <=> r.col["resource_id"] = ns
        /\ FilterHolds(r, "accesses", b) <=> r.col["resource_type"] = NamespaceWord
    BY <1>1
  <2> HIDE DEF a, b, fs
  <2>5. (\A i \in DOMAIN fs : \E j \in DOMAIN fs[i] : FilterHolds(r, "accesses", fs[i][j]))
        <=> FilterHolds(r, "accesses", a) /\ FilterHolds(r, "accesses", b)
    BY <2>3
  <2>6. InScope(r, q) <=> r.col.resource_id = q.scope /\ r.col.resource_type = NamespaceWord
    BY <1>2 DEF InScope
  <2>7. Goal
    BY <2>1, <2>2, <2>4, <2>5, <2>6
  <2> QED
    BY <2>7 DEF fs
<1>3. CASE q.listing = "repositoryUsers"
  <2>1. Table[q.listing] = "accesses" /\ Namespaces(q) = {ns}
    BY <1>3 DEF Table, Below
  <2> DEFINE a == Filter("resource_id", "=", <<ns>>)
             b == Filter("resource_id", "=", <<q.scope>>)
  <2>3. fs = <<<<a, b>>>>
    BY <1>3 DEF ScopeFilters
  <2>4. /\ FilterHolds(r, "accesses", a) <=> r.col["resource_id"] = ns
        /\ FilterHolds(r, "accesses", b) <=> r.col["resource_id"] = q.scope
    BY <1>1
  <2> HIDE DEF a, b, fs
  <2>5. (\A i \in DOMAIN fs : \E j \in DOMAIN fs[i] : FilterHolds(r, "accesses", fs[i][j]))
        <=> FilterHolds(r, "accesses", a) \/ FilterHolds(r, "accesses", b)
    BY <2>3
  <2>6. InScope(r, q) <=> r.col.resource_id \in {q.scope} \cup Namespaces(q)
    BY <1>3 DEF InScope
  <2>7. Goal
    BY <2>1, <2>4, <2>5, <2>6
  <2> QED
    BY <2>7 DEF fs
<1>4. CASE q.listing \notin {"namespaceUsers", "repositoryUsers"}
  <2>1. q.listing # "namespaceRepositories"
    BY DEF Table
  <2>2. fs = <<>>
    BY <1>4, <2>1 DEF ScopeFilters
  <2>3. InScope(r, q)
    BY <1>4 DEF InScope
  <2> QED
    BY <2>2, <2>3
<1> QED
  BY <1>2, <1>3, <1>4

(* That the conditions c are what is parsed of q, and more.                *)
Carries(c, q, keys, more) ==
  LET parsed == ParseListConditions(q, keys) IN
  /\ Validated(Table[q.listing], parsed)
  /\ c.term = q.term
  /\ c.filters = parsed.filters \o more

(* The rows selected are those asked for.                                  *)
LEMMA SelectedAsAsked ==
  ASSUME present \subseteq Row, NEW q \in Query, NEW keys \in SetToSeqs(DOMAIN q.filters), NEW ns,
         NEW c, Carries(c, q, keys, ScopeFilters(q, ns)),
         q.listing \in Below => Namespaces(q) = {ns}
  PROVE  LET table == Table[q.listing] IN
         /\ Len(AllHoles(buildWhereClause(table, c))) = Len(whereArgs(table, c))
         /\ Len(whereArgs(table, c)) \in Nat
         /\ table # "repositories" /\ "is_public" \notin DOMAIN q.filters
            => SelectedFor(table, c) = Asked(q)
<1> DEFINE table == Table[q.listing]
           F == DOMAIN q.filters \cup ScopeFields
           W == Nat \cup {ns, q.scope, NamespaceWord}
           X == Filters(F, W)
           parsed == ParseListConditions(q, keys).filters
           scope == ScopeFilters(q, ns)
           search == Builder[table].search
           Some(r, fs) == \E j \in DOMAIN fs : FilterHolds(r, table, fs[j])
<1>1. /\ table \in DOMAIN Builder /\ q.listing \in DOMAIN Table \ {"none"}
      /\ IsFiniteSet(DOMAIN q.filters) /\ \A f \in DOMAIN q.filters : q.filters[f] \in Values
  <2>1. q.listing \in DOMAIN Table \ {"none"} /\ IsFiniteSet(DOMAIN q.filters)
        /\ \A f \in DOMAIN q.filters :
             q.filters[f] \in Seq([cmp : {"=", "<", "<=", ">", ">="}, word : Nat]) \ {<<>>}
    BY QueryAssumption
  <2>2. table \in DOMAIN Builder
    BY <2>1 DEF Table, Builder
  <2> QED
    BY <2>1, <2>2 DEF Values, Comparisons
<1>2. /\ parsed \in Seq(Seq(Filters(DOMAIN q.filters, Nat)))
      /\ /\ "is_public" \notin DOMAIN q.filters
         /\ \A i \in DOMAIN parsed : parsed[i][1].field \in AllowedFilters[table] \ {"tags"}
         => \A r : (\A i \in DOMAIN parsed : Some(r, parsed[i]))
                   <=> \A f \in DOMAIN q.filters : AskedOf(r, f, q.filters[f])
  <2> HIDE DEF table
  <2> QED
    BY <1>1, ParsedAsked
<1>3. \A i \in DOMAIN parsed : parsed[i][1].field \in AllowedFilters[table] \ {"tags"}
  BY DEF Carries, Validated
<1>4. scope \in Seq(Seq(Filters(ScopeFields, W)))
  BY ScopeFiltersType
<1> HIDE DEF parsed, scope
<1>5. parsed \in Seq(Seq(X)) /\ scope \in Seq(Seq(X))
  <2> DEFINE Y == Filters(DOMAIN q.filters, Nat)
             Z == Filters(ScopeFields, W)
  <2>1. Y \subseteq X /\ Z \subseteq X
    <3>1. \A f \in Y : f \in X
      <4>1. Seq(Nat) \subseteq Seq(W)
        OBVIOUS
      <4> DEFINE N == Seq(Nat)
                 M == Seq(W)
      <4> HIDE DEF N, M, W, F
      <4>2. DOMAIN q.filters \subseteq F
        BY DEF F
      <4> QED
        BY <4>1, <4>2 DEF Filters, N, M
    <3>2. Z \subseteq X
      <4> HIDE DEF W
      <4> QED
        BY DEF Filters
    <3> QED
      BY <3>1, <3>2
  <2>2. parsed \in Seq(Seq(Y)) /\ scope \in Seq(Seq(Z))
    BY <1>2, <1>4
  <2> HIDE DEF X, Y, Z
  <2>3. Seq(Y) \subseteq Seq(X) /\ Seq(Z) \subseteq Seq(X)
    BY <2>1
  <2> QED
    BY <2>2, <2>3
<1>6. c.filters = parsed \o scope /\ c.term = q.term
  BY DEF Carries, parsed, scope
<1>7. c.filters \in Seq(Seq(X)) /\ ToSet(c.filters) = ToSet(parsed) \cup ToSet(scope)
  <2> HIDE DEF X
  <2>1. parsed \o scope \in Seq(Seq(X))
    BY <1>5
  <2>2. ToSet(parsed \o scope) = ToSet(parsed) \cup ToSet(scope)
    BY <1>5, JoinedElements
  <2> QED
    BY <1>6, <2>1, <2>2, Zenon
<1>8. /\ Len(AllHoles(buildWhereClause(table, c))) = Len(whereArgs(table, c))
      /\ Len(whereArgs(table, c)) \in Nat
      /\ SelectedFor(table, c) =
           {r \in present :
              /\ r.table = table
              /\ \A i \in DOMAIN c.filters : Some(r, c.filters[i])
              /\ c.term # NoTerm => \E k \in DOMAIN search : c.term \in r.text[search[k]]}
  <2> HIDE DEF table, F, W
  <2>1. SelectsByFilters(table, c)
    BY <1>1, <1>7, SelectedByFilters
  <2> QED
    BY <2>1 DEF SelectsByFilters
<1>9. ASSUME table # "repositories", "is_public" \notin DOMAIN q.filters
      PROVE  SelectedFor(table, c) = Asked(q)
  <2>1. ASSUME NEW r
        PROVE  (\A i \in DOMAIN c.filters : Some(r, c.filters[i]))
               <=> (\A f \in DOMAIN q.filters : AskedOf(r, f, q.filters[f])) /\ InScope(r, q)
    <3>1. (\A i \in DOMAIN scope : Some(r, scope[i])) <=> InScope(r, q)
      BY <1>1, <1>9, ScopeAsked DEF scope
    <3>2. (\A i \in DOMAIN parsed : Some(r, parsed[i]))
          <=> \A f \in DOMAIN q.filters : AskedOf(r, f, q.filters[f])
      BY <1>2, <1>3, <1>9
    <3> HIDE DEF Some
    <3>3. \A s : (\A i \in DOMAIN s : Some(r, s[i])) <=> \A x \in ToSet(s) : Some(r, x)
      BY DEF ToSet
    <3> QED
      BY <1>7, <3>1, <3>2, <3>3
  <2>2. ASSUME NEW r \in present, r.table = table
        PROVE  (\E k \in DOMAIN search : q.term \in r.text[search[k]])
               <=> \E f \in DOMAIN r.text : q.term \in r.text[f]
    <3>1. DOMAIN r.text = ToSet(search)
      BY <2>2, RowAssumption
    <3> HIDE DEF search
    <3> QED
      BY <3>1 DEF ToSet
  <2> HIDE DEF Some, search
  <2> QED
    BY <1>6, <1>8, <2>1, <2>2, Zenon DEF Asked
<1> QED
  BY <1>8, <1>9

-----------------------------------------------------------------------------
(* The invariant                                                           *)

(* The rows that the request selects from the tables of the moment.        *)
Snapshot == SelectedFor(Table[req.query.listing], req.cond)

(* Which parts a request has.                                              *)
Shape ==
  /\ {"step", "query", "cond", "result"} \subseteq DOMAIN req
  /\ {"filters", "term", "sort", "desc", "page", "limit"} \subseteq DOMAIN req.cond
  /\ {"total", "listed"} \subseteq DOMAIN req.result

(* The rows listed are those of the page that can be read.                 *)
ReadFrom(listed, page) ==
  \E e \in SetToSeqs(ReadablePlaces(page)) :
    Rising(e) /\ listed = [k \in DOMAIN e |-> page[e[k]]]

Unreadable(S) == {r \in S : ~Readable(r)}

(* How many rows there are for a page of limit rows after offset of total. *)
PageSize(total, offset, limit) ==
  IF total <= offset THEN 0 ELSE IF total - offset < limit THEN total - offset ELSE limit

(* What the transaction keeps: the total and the page are those of the     *)
(* rows that are selected now, as long as the request has not ended.       *)
SnapshotOK ==
  /\ req.step \in {"counted", "fetched"} => req.result.total = Cardinality(Snapshot)
  /\ req.step = "fetched" =>
       \E s \in SetToSeqs(Snapshot) :
         Ordered(s, req.cond) /\ ReadFrom(req.result.listed, PageFrom(s, req.cond))

(* The conditions of a request are those of its parameters, and of the one *)
(* namespace there is to its scope from when that has been looked up.      *)
CarriesAll(q, c) ==
  \E keys \in SetToSeqs(DOMAIN q.filters) : \E ns :
    /\ Carries(c, q, keys, ScopeFilters(q, ns))
    /\ q.listing \in Below => Namespaces(q) = {ns}

AskedOK ==
  LET q == req.query IN
  /\ req.step = "begun" =>
       /\ q \in Query
       /\ \E keys \in SetToSeqs(DOMAIN q.filters) : Carries(req.cond, q, keys, <<>>)
  /\ req.step \in {"ready", "counted", "fetched"} => q \in Query /\ CarriesAll(q, req.cond)
  /\ req.step \in {"counted", "fetched"} =>
       Table[q.listing] # "repositories" /\ Buildable(Table[q.listing], req.cond)

ListOK == TypeOK /\ Shape /\ SnapshotOK /\ AskedOK

(* What a listing owes to its total, whatever is written meanwhile: the    *)
(* rows of the page, but those that cannot be read.                        *)
PageOfTotal ==
  LET listed == req.result.listed
      size == PageSize(req.result.total, Offset(req.cond), req.cond.limit)
  IN req.step = "fetched" =>
       /\ IsInjective(listed)
       /\ ToSet(listed) \subseteq Snapshot \ Unreadable(Snapshot)
       /\ size - Len(listed) \in 0 .. Cardinality(Unreadable(Snapshot))
       /\ Ordered(listed, req.cond)

-----------------------------------------------------------------------------
(* Rows and pages                                                          *)

(* The rows selected are rows, and as many as there may be.                *)
LEMMA SelectedRows ==
  ASSUME present \subseteq Row, NEW table, NEW cond
  PROVE  /\ SelectedFor(table, cond) \subseteq Row
         /\ IsFiniteSet(SelectedFor(table, cond))
         /\ Cardinality(SelectedFor(table, cond)) \in 0 .. Cardinality(Row)
<1>1. SelectedFor(table, cond) \subseteq Row
  BY DEF SelectedFor, Selected
<1> HIDE DEF SelectedFor
<1>2. /\ IsFiniteSet(SelectedFor(table, cond))
      /\ Cardinality(SelectedFor(table, cond)) <= Cardinality(Row)
  BY <1>1, RowAssumption, FS_Subset
<1>3. Cardinality(SelectedFor(table, cond)) \in Nat /\ Cardinality(Row) \in Nat
  BY <1>2, RowAssumption, FS_CardinalityType
<1> QED
  BY <1>1, <1>2, <1>3

(* A page's number and limit, and the rows before it.                      *)
LEMMA PositiveNumbers ==
  /\ \A n \in Nat : PositiveOr(n, 1) \in Nat \ {0} /\ PositiveOr(n, 20) \in Nat \ {0}
  /\ \A cond : cond.page \in Nat /\ cond.limit \in Nat /\ cond.page # 0 => Offset(cond) \in Nat
<1>1. \A n \in Nat : PositiveOr(n, 1) \in Nat \ {0} /\ PositiveOr(n, 20) \in Nat \ {0}
  BY DEF PositiveOr
<1>2. ASSUME NEW cond, cond.page \in Nat, cond.limit \in Nat, cond.page # 0
      PROVE  Offset(cond) \in Nat
  <2> DEFINE w == 2 ^ Word
             n == (cond.page - 1) * cond.limit
  <2>1. w \in Nat \ {0}
    BY WordAssumption
  <2>2. n \in Int
    BY <1>2
  <2> HIDE DEF w, n
  <2>3. n % w \in Nat
    BY <2>1, <2>2
  <2> QED
    BY <2>3 DEF Offset, w, n
<1> QED
  BY <1>1, <1>2

(* The conditions that are parsed, for keys in any order.                  *)
LEMMA ParsedConditions ==
  ASSUME NEW q, NEW keys
  PROVE  LET cond == ParseListConditions(q, keys)
         IN  /\ {"filters", "term", "sort", "desc", "page", "limit"} \subseteq DOMAIN cond
             /\ cond.page = PositiveOr(q.page, 1)
             /\ cond.limit = PositiveOr(q.limit, 20)
BY DEF ParseListConditions

(* The filters that are parsed are a sequence.                             *)
LEMMA ParsedSequence ==
  ASSUME NEW q \in Query, NEW keys \in SetToSeqs(DOMAIN q.filters)
  PROVE  \E S : ParseListConditions(q, keys).filters \in Seq(S)
<1>1. IsFiniteSet(DOMAIN q.filters) /\ \A f \in DOMAIN q.filters : q.filters[f] \in Values
  BY QueryAssumption DEF Values, Comparisons
<1>2. "users" \in DOMAIN Builder
  BY DEF Builder
<1>3. ParseListConditions(q, keys).filters \in Seq(Seq(Filters(DOMAIN q.filters, Nat)))
  BY <1>1, <1>2, ParsedAsked
<1> QED
  BY <1>3

(* The request that is answered, or has not been made.                     *)
LEMMA IdleRequest ==
  /\ {"step", "query", "cond", "result"} \subseteq DOMAIN Idle
  /\ {"filters", "term", "sort", "desc", "page", "limit"} \subseteq DOMAIN Idle.cond
  /\ {"total", "listed"} \subseteq DOMAIN Idle.result
  /\ Idle.query = NoQuery
  /\ Idle.cond.page \in Nat \ {0} /\ Idle.cond.limit \in Nat \ {0}
  /\ Idle.result.total \in 0 .. Cardinality(Row)
  /\ ToSet(Idle.result.listed) \subseteq Row
<1>1. /\ {"filters", "term", "sort", "desc", "page", "limit"} \subseteq DOMAIN NoCond
      /\ NoCond.page = PositiveOr(1, 1) /\ NoCond.limit = PositiveOr(1, 20)
  <2> DEFINE q == [filters |-> <<>>, term |-> NoTerm, sort |-> "", desc |-> FALSE,
                   page |-> 1, limit |-> 1]
  <2>1. q.page = 1 /\ q.limit = 1 /\ NoCond = ParseListConditions(q, <<>>)
    BY DEF NoCond
  <2> HIDE DEF q
  <2> QED
    BY <2>1, ParsedConditions
<1>2. NoCond.page \in Nat \ {0} /\ NoCond.limit \in Nat \ {0}
  BY <1>1 DEF PositiveOr
<1>3. Cardinality(Row) \in Nat
  BY RowAssumption, FS_CardinalityType
<1>4. /\ {"total", "listed"} \subseteq DOMAIN NoResult
      /\ NoResult.total \in 0 .. Cardinality(Row)
      /\ ToSet(NoResult.listed) \subseteq Row
  BY <1>3 DEF NoResult, ToSet
<1> HIDE DEF NoCond, NoResult
<1> QED
  BY <1>1, <1>2, <1>4 DEF Idle

(* An enumeration of the selected rows, and a page of it.                  *)
LEMMA PageOfRows ==
  ASSUME NEW S, IsFiniteSet(S), NEW s \in SetToSeqs(S), NEW cond,
         Offset(cond) \in Nat, cond.limit \in Nat
  PROVE  LET page == PageFrom(s, cond)
             n == Cardinality(S)
             offset == Offset(cond)
         IN  /\ DOMAIN page = 1 .. Len(page)
             /\ \A i \in DOMAIN page : offset + i \in 1 .. n /\ page[i] = s[offset + i]
             /\ Len(page) = PageSize(n, offset, cond.limit) /\ Len(page) \in Nat
             /\ IsInjective(page)
             /\ ToSet(page) \subseteq S
             /\ Ordered(s, cond) => Ordered(page, cond)
<1> DEFINE n == Cardinality(S)
           offset == Offset(cond)
           limit == cond.limit
           last == Min({offset + limit, Len(s)})
           page == SubSeq(s, offset + 1, last)
<1>1. n \in Nat
  BY FS_CardinalityType
<1>2. s \in [1 .. n -> S] /\ \A i, j \in 1 .. n : i # j => s[i] # s[j]
  BY DEF SetToSeqs
<1> HIDE DEF n, offset, limit
<1>3. s \in Seq(S) /\ Len(s) = n
  BY <1>1, <1>2
<1>4. offset \in Nat /\ limit \in Nat
  BY DEF offset, limit
<1>5. last = IF offset + limit <= n THEN offset + limit ELSE n
  <2> DEFINE m == offset + limit
  <2>1. m = offset + limit /\ m \in Nat
    BY <1>4
  <2> HIDE DEF m
  <2>2. last = Min({m, n})
    BY <1>3 DEF m
  <2>3. \E x \in {m, n} : \A y \in {m, n} : x <= y
    BY <1>1, <2>1
  <2>4. Min({m, n}) \in {m, n} /\ \A y \in {m, n} : Min({m, n}) <= y
    BY <2>3 DEF Min
  <2> QED
    BY <1>1, <2>1, <2>2, <2>4
<1>6. last \in Nat /\ last <= n
  BY <1>1, <1>4, <1>5
<1> HIDE DEF last
<1>7. \A i \in offset + 1 .. last : s[i] \in S
  BY <1>1, <1>2, <1>4, <1>6
<1>8. /\ page \in Seq(S)
      /\ Len(page) = IF offset + 1 <= last THEN last - (offset + 1) + 1 ELSE 0
      /\ \A i \in 1 .. last - (offset + 1) + 1 : page[i] = s[offset + 1 + i - 1]
  <2> DEFINE first == offset + 1
  <2>1. first \in Int /\ last \in Int /\ \A i \in first .. last : s[i] \in S
    BY <1>4, <1>6, <1>7
  <2> HIDE DEF first
  <2>2. /\ SubSeq(s, first, last) \in Seq(S)
        /\ Len(SubSeq(s, first, last)) = IF first <= last THEN last - first + 1 ELSE 0
        /\ \A i \in 1 .. last - first + 1 : SubSeq(s, first, last)[i] = s[first + i - 1]
    BY <2>1, SubSeqProperties
  <2> QED
    BY <2>2 DEF first
<1> HIDE DEF page
<1>9. DOMAIN page = 1 .. Len(page)
  BY <1>8, LenProperties
<1>10. Len(page) = PageSize(n, offset, limit) /\ Len(page) \in Nat
  BY <1>1, <1>4, <1>5, <1>8 DEF PageSize
<1>11. ASSUME NEW i \in DOMAIN page PROVE offset + i \in 1 .. n /\ page[i] = s[offset + i]
  <2>1. i \in 1 .. last - (offset + 1) + 1
    BY <1>4, <1>6, <1>8, <1>9
  <2>2. offset + 1 + i - 1 = offset + i
    BY <1>4, <2>1
  <2>3. page[i] = s[offset + i]
    BY <1>8, <2>1, <2>2
  <2> QED
    BY <1>1, <1>4, <1>6, <2>1, <2>3
<1>12. IsInjective(page)
  <2>1. ASSUME NEW i \in DOMAIN page, NEW j \in DOMAIN page, page[i] = page[j] PROVE i = j
    <3>1. offset + i = offset + j
      BY <1>2, <1>11, <2>1
    <3>2. i \in Int /\ j \in Int
      BY <1>8, <1>9
    <3> QED
      BY <1>4, <3>1, <3>2
  <2> QED
    BY <2>1 DEF IsInjective
<1>13. ToSet(page) \subseteq S
  BY <1>2, <1>11 DEF ToSet
<1>14. ASSUME Ordered(s, cond) PROVE Ordered(page, cond)
  <2>1. DOMAIN s = 1 .. n
    BY <1>2
  <2>2. ASSUME NEW i \in DOMAIN page, NEW j \in DOMAIN page, i < j
        PROVE  /\ offset + i \in DOMAIN s /\ offset + j \in DOMAIN s /\ offset + i < offset + j
               /\ page[i] = s[offset + i] /\ page[j] = s[offset + j]
    <3>1. i \in Int /\ j \in Int
      BY <1>8, <1>9
    <3> QED
      BY <1>4, <1>11, <2>1, <2>2, <3>1
  <2> QED
    BY <1>14, <2>2 DEF Ordered
<1>15. page = PageFrom(s, cond)
  BY DEF page, last, offset, limit, PageFrom
<1> QED
  BY <1>9, <1>10, <1>11, <1>12, <1>13, <1>14, <1>15 DEF n, offset, limit

(* Places in rising order: none comes earlier than its number says, nor    *)
(* later than leaves room for the places after it.                         *)
LEMMA RisingPlaces ==
  ASSUME NEW N \in Nat, NEW P \in SUBSET (1 .. N), NEW e \in SetToSeqs(P), Rising(e)
  PROVE  /\ Cardinality(P) \in Nat /\ DOMAIN e = 1 .. Cardinality(P)
         /\ \A i, j \in DOMAIN e : e[i] = e[j] => i = j
         /\ \A k \in DOMAIN e : e[k] \in P /\ k <= e[k] /\ e[k] <= N - Cardinality(P) + k
<1> DEFINE n == Cardinality(P)
<1>1. IsFiniteSet(P)
  <2>1. IsFiniteSet(1 .. N)
    BY FS_Interval
  <2> QED
    BY <2>1, FS_Subset
<1>2. n \in Nat /\ DOMAIN e = 1 .. n /\ ToSet(e) = P /\ \A i, j \in 1 .. n : i # j => e[i] # e[j]
  BY <1>1, Enumerated
<1> HIDE DEF n
<1>3. \A k \in 1 .. n : e[k] \in P /\ e[k] \in Int /\ 1 <= e[k] /\ e[k] <= N
  <2>1. \A k \in 1 .. n : e[k] \in P
    BY <1>2 DEF ToSet
  <2>2. \A x \in P : x \in Int /\ 1 <= x /\ x <= N
    OBVIOUS
  <2> QED
    BY <2>1, <2>2
<1>4. \A i, j \in 1 .. n : i <= j => e[i] <= e[j]
  <2> SUFFICES ASSUME NEW i \in 1 .. n, NEW j \in 1 .. n, i <= j PROVE e[i] <= e[j]
    OBVIOUS
  <2>1. CASE i < j
    BY <1>2, <1>3, <2>1 DEF Rising
  <2>2. CASE i = j
    BY <1>3, <2>2
  <2> QED
    BY <1>2, <2>1, <2>2
<1>5. ASSUME NEW k \in 1 .. n PROVE k <= e[k] /\ e[k] <= N - n + k
  <2> DEFINE m == e[k]
             f == [j \in 1 .. k |-> e[j]]
             g == [j \in k .. n |-> e[j]]
  <2>0. m \in Int /\ 1 <= m /\ m <= N /\ k \in Int /\ 1 <= k /\ k <= n
    BY <1>2, <1>3
  <2>1. f \in Injection(1 .. k, 1 .. m)
    <3>1. \A j \in 1 .. k : j \in 1 .. n /\ e[j] \in 1 .. m
      BY <1>2, <1>3, <1>4, <2>0
    <3> QED
      BY <1>2, <3>1 DEF Injection, IsInjective
  <2>2. g \in Injection(k .. n, m .. N)
    <3>1. \A j \in k .. n : j \in 1 .. n /\ e[j] \in m .. N
      BY <1>2, <1>3, <1>4, <2>0
    <3> QED
      BY <1>2, <3>1 DEF Injection, IsInjective
  <2> HIDE DEF m, f, g
  <2>3. /\ IsFiniteSet(1 .. m) /\ Cardinality(1 .. m) = m
        /\ Cardinality(1 .. k) = k
        /\ IsFiniteSet(m .. N) /\ Cardinality(m .. N) = N - m + 1
        /\ Cardinality(k .. n) = n - k + 1
    BY <1>2, <2>0, FS_Interval
  <2>4. Cardinality(1 .. k) <= Cardinality(1 .. m) /\ Cardinality(k .. n) <= Cardinality(m .. N)
    BY <2>1, <2>2, <2>3, FS_Injection
  <2>5. k <= m /\ n - k + 1 <= N - m + 1
    BY <2>3, <2>4
  <2>6. m <= N - n + k
    BY <1>2, <2>0, <2>5
  <2> QED
    BY <2>5, <2>6 DEF m
<1> QED
  BY <1>2, <1>3, <1>5 DEF n

(* No more rows are skipped than cannot be read.                           *)
LEMMA SkippedRows ==
  ASSUME NEW S, IsFiniteSet(S), NEW page, NEW L \in Nat, DOMAIN page = 1 .. L,
         IsInjective(page), ToSet(page) \subseteq S
  PROVE  L - Cardinality(ReadablePlaces(page)) \in 0 .. Cardinality(Unreadable(S))
<1> DEFINE P == ReadablePlaces(page)
           U == (1 .. L) \ P
           f == [k \in U |-> page[k]]
<1>1. P \subseteq 1 .. L
  BY DEF ReadablePlaces
<1>2. \A k \in U : page[k] \in Unreadable(S)
  BY DEF ReadablePlaces, Unreadable, ToSet
<1>3. f \in Injection(U, Unreadable(S))
  BY <1>2 DEF Injection, IsInjective
<1>4. IsFiniteSet(Unreadable(S))
  BY FS_Subset DEF Unreadable
<1> HIDE DEF P, f
<1>5. /\ IsFiniteSet(1 .. L) /\ Cardinality(1 .. L) = L /\ (1 .. L) \cap P = P
      /\ IsFiniteSet(U) /\ Cardinality(U) = Cardinality(1 .. L) - Cardinality((1 .. L) \cap P)
  <2>1. IsFiniteSet(1 .. L) /\ Cardinality(1 .. L) = L
    BY FS_Interval
  <2>2. (1 .. L) \cap P = P
    BY <1>1
  <2>3. IsFiniteSet(U) /\ Cardinality(U) = Cardinality(1 .. L) - Cardinality((1 .. L) \cap P)
    BY <2>1, FS_Difference
  <2> QED
    BY <2>1, <2>2, <2>3
<1>6. Cardinality(U) = L - Cardinality(P)
  BY <1>5, Zenon
<1> HIDE DEF U
<1>7. Cardinality(U) <= Cardinality(Unreadable(S))
  BY <1>3, <1>4, FS_Injection
<1>8. Cardinality(U) \in Nat /\ Cardinality(Unreadable(S)) \in Nat
  BY <1>4, <1>5, FS_CardinalityType
<1>9. Cardinality(U) \in 0 .. Cardinality(Unreadable(S))
  BY <1>7, <1>8
<1> QED
  BY <1>6, <1>9 DEF P

(* What is read of a page: its rows that can be read, in their order, each *)
(* as near to its place as the rows that are skipped leave it.             *)
LEMMA RowsRead ==
  ASSUME NEW S, IsFiniteSet(S), NEW s \in SetToSeqs(S), NEW cond, Ordered(s, cond),
         Offset(cond) \in Nat, cond.limit \in Nat,
         NEW listed, ReadFrom(listed, PageFrom(s, cond))
  PROVE  LET n == Cardinality(S)
             offset == Offset(cond)
             missing == PageSize(n, offset, cond.limit) - Len(listed)
         IN  /\ Len(listed) \in Nat /\ DOMAIN listed = 1 .. Len(listed)
             /\ missing \in 0 .. Cardinality(Unreadable(S))
             /\ IsInjective(listed)
             /\ ToSet(listed) \subseteq S \ Unreadable(S)
             /\ Ordered(listed, cond)
             /\ \A i \in DOMAIN listed : \E m \in 1 .. n :
                  listed[i] = s[m] /\ offset + i <= m /\ m <= offset + i + missing
<1> DEFINE n == Cardinality(S)
           offset == Offset(cond)
           page == PageFrom(s, cond)
           L == Len(page)
           P == ReadablePlaces(page)
           missing == PageSize(n, offset, cond.limit) - Len(listed)
<1>1. /\ DOMAIN page = 1 .. L /\ L \in Nat /\ L = PageSize(n, offset, cond.limit)
      /\ \A i \in DOMAIN page : offset + i \in 1 .. n /\ page[i] = s[offset + i]
      /\ IsInjective(page) /\ ToSet(page) \subseteq S /\ Ordered(page, cond)
  BY PageOfRows
<1>2. PICK e \in SetToSeqs(P) : Rising(e) /\ listed = [k \in DOMAIN e |-> page[e[k]]]
  BY DEF ReadFrom
<1> HIDE DEF page, L
<1>3. P \subseteq 1 .. L /\ \A k \in P : Readable(page[k])
  BY <1>1 DEF ReadablePlaces
<1>4. L - Cardinality(P) \in 0 .. Cardinality(Unreadable(S))
  BY <1>1, SkippedRows
<1> HIDE DEF P
<1>5. /\ Cardinality(P) \in Nat /\ DOMAIN e = 1 .. Cardinality(P)
      /\ \A i, j \in DOMAIN e : e[i] = e[j] => i = j
      /\ \A k \in DOMAIN e : e[k] \in P /\ k <= e[k] /\ e[k] <= L - Cardinality(P) + k
  BY <1>1, <1>2, <1>3, RisingPlaces
<1>6. DOMAIN listed = DOMAIN e /\ \A k \in DOMAIN e : listed[k] = page[e[k]] /\ e[k] \in DOMAIN page
  BY <1>1, <1>2, <1>3, <1>5
<1>7. Len(listed) = Cardinality(P)
  <2>1. listed \in Seq(S)
    BY <1>1, <1>2, <1>5, <1>6 DEF ToSet
  <2> QED
    BY <1>5, <1>6, <2>1, LenProperties
<1>8. missing = L - Cardinality(P)
  BY <1>1, <1>7
<1> HIDE DEF n, offset, missing
<1>9. IsInjective(listed)
  <2>1. ASSUME NEW i \in DOMAIN e, NEW j \in DOMAIN e, listed[i] = listed[j] PROVE i = j
    <3>1. e[i] = e[j]
      BY <1>1, <1>6, <2>1 DEF IsInjective
    <3> QED
      BY <1>5, <3>1
  <2> QED
    BY <1>6, <2>1 DEF IsInjective
<1>10. ToSet(listed) \subseteq S \ Unreadable(S)
  <2>1. ASSUME NEW k \in DOMAIN e PROVE listed[k] \in S /\ Readable(listed[k])
    BY <1>1, <1>3, <1>5, <1>6 DEF ToSet
  <2> QED
    BY <1>6, <2>1 DEF ToSet, Unreadable
<1>11. Ordered(listed, cond)
  <2>1. ASSUME NEW i \in DOMAIN listed, NEW j \in DOMAIN listed, i < j
        PROVE  /\ e[i] \in DOMAIN page /\ e[j] \in DOMAIN page /\ e[i] < e[j]
               /\ listed[i] = page[e[i]] /\ listed[j] = page[e[j]]
    BY <1>2, <1>6, <2>1 DEF Rising
  <2> QED
    BY <1>1, <2>1 DEF Ordered
<1>12. ASSUME NEW i \in DOMAIN listed
       PROVE  \E m \in 1 .. n : listed[i] = s[m] /\ offset + i <= m /\ m <= offset + i + missing
  <2> DEFINE m == offset + e[i]
  <2>1. m \in 1 .. n /\ listed[i] = s[m]
    BY <1>1, <1>6, <1>12
  <2>2. i \in Int /\ e[i] \in Int /\ i <= e[i] /\ e[i] <= i + missing /\ missing \in Int /\ offset \in Int
    BY <1>1, <1>3, <1>4, <1>5, <1>6, <1>8, <1>12 DEF offset
  <2>3. offset + i <= m /\ m <= offset + i + missing
    BY <2>2
  <2> QED
    BY <2>1, <2>3
<1>13. missing \in 0 .. Cardinality(Unreadable(S))
  BY <1>4, <1>8
<1>14. Len(listed) \in Nat /\ DOMAIN listed = 1 .. Len(listed)
  BY <1>5, <1>6, <1>7
<1> QED
  BY <1>9, <1>10, <1>11, <1>12, <1>13, <1>14 DEF n, offset, missing

-----------------------------------------------------------------------------
(* Steps                                                                   *)

(* The rows selected stay the same while nothing of their table is         *)
(* written.                                                                *)
LEMMA SnapshotKept ==
  ASSUME req'.query = req.query, req'.cond = req.cond,
         \A r : r.table = Table[req.query.listing] => (r \in present' <=> r \in present)
  PROVE  Snapshot' = Snapshot
<1> DEFINE table == Table[req.query.listing]
           where == buildWhereClause(table, req.cond)
           args == whereArgs(table, req.cond)
           First(i, j) == Len(AllHoles(SubSeq(where, 1, i - 1)))
                          + Len(Holes(SubSeq(where[i], 1, j - 1))) + 1
           Fits(r) == \A i \in DOMAIN where : \E j \in DOMAIN where[i] :
                        Holds(r, where[i][j],
                              SubSeq(args, First(i, j), First(i, j) + where[i][j].holes - 1))
<1>1. Snapshot = {r \in present : r.table = table /\ Fits(r)}
  BY DEF Snapshot, SelectedFor, Selected
<1>2. Snapshot' = {r \in present' : r.table = table /\ Fits(r)}
  BY DEF Snapshot, SelectedFor, Selected
<1> HIDE DEF Fits
<1>3. {r \in present' : r.table = table /\ Fits(r)} = {r \in present : r.table = table /\ Fits(r)}
  OBVIOUS
<1> QED
  BY <1>1, <1>2, <1>3

(* The namespaces of a scope stay the same while nothing of the tables     *)
(* they are looked up in is written.                                       *)
LEMMA NamespacesKept ==
  ASSUME req'.query = req.query,
         \A r : r.table = "namespaces" => (r \in present' <=> r \in present),
         req.query.listing = "repositoryUsers" =>
           \A r : r.table = "repositories" => (r \in present' <=> r \in present)
  PROVE  Namespaces(req.query)' = Namespaces(req.query)
<1> DEFINE q == req.query
           Repositories == {r \in present : r.table = "repositories" /\ r.col.id = q.scope}
           Ids == IF q.listing = "repositoryUsers" THEN {r.col.namespace_id : r \in Repositories}
                  ELSE {q.scope}
           Rows == {r \in present : r.table = "namespaces" /\ r.col.id \in Ids}
<1>1. Namespaces(req.query) = {r.col.id : r \in Rows} /\ Namespaces(req.query)' = {r.col.id : r \in Rows'}
  BY DEF Namespaces
<1>2. q.listing = "repositoryUsers" => Repositories' = Repositories
  OBVIOUS
<1>3. Ids' = Ids
  BY <1>2
<1>4. Rows' = Rows
  <2> HIDE DEF Ids
  <2> QED
    BY <1>3
<1> HIDE DEF Rows
<1> QED
  BY <1>1, <1>4

(* A request that stays as it is while its rows and the namespaces of its  *)
(* scope do.                                                               *)
LEMMA RequestKept ==
  ASSUME ListOK, UNCHANGED req, present' \subseteq Row,
         req.step \in {"counted", "fetched"} => Snapshot' = Snapshot,
         req.step \in {"ready", "counted", "fetched"} /\ req.query.listing \in Below
           => Namespaces(req.query)' = Namespaces(req.query)
  PROVE  ListOK'
<1>1. TypeOK' /\ Shape'
  BY DEF ListOK, TypeOK, Shape
<1>2. SnapshotOK'
  BY DEF ListOK, SnapshotOK
<1>3. AskedOK'
  <2>1. req.step = "begun" =>
          /\ req.query \in Query
          /\ \E keys \in SetToSeqs(DOMAIN req.query.filters) : Carries(req.cond, req.query, keys, <<>>)
    BY DEF ListOK, AskedOK
  <2>2. req.step \in {"ready", "counted", "fetched"} =>
          req.query \in Query /\ CarriesAll(req.query, req.cond)'
    BY DEF ListOK, AskedOK, CarriesAll
  <2> QED
    BY <2>1, <2>2 DEF ListOK, AskedOK
<1> QED
  BY <1>1, <1>2, <1>3 DEF ListOK

(* A write, which the tables read keep out.                                *)
LEMMA WriteStep ==
  ASSUME ListOK, NEW r \in Row, Write(r)
  PROVE  ListOK'
<1>1. /\ UNCHANGED req /\ r.table \notin TablesRead
      /\ present' = IF r \in present THEN present \ {r} ELSE present \cup {r}
  BY DEF Write
<1>2. present' \subseteq Row
  BY <1>1 DEF ListOK, TypeOK
<1>3. ASSUME req.step \in {"counted", "fetched"} PROVE Snapshot' = Snapshot
  <2>1. r.table # Table[req.query.listing]
    BY <1>1, <1>3 DEF TablesRead
  <2>2. \A x : x.table = Table[req.query.listing] => (x \in present' <=> x \in present)
    BY <1>1, <2>1
  <2> QED
    BY <1>1, <2>2, SnapshotKept
<1>4. ASSUME req.step \in {"ready", "counted", "fetched"}, req.query.listing \in Below
      PROVE  Namespaces(req.query)' = Namespaces(req.query)
  <2>1. /\ r.table # "namespaces"
        /\ req.query.listing = "repositoryUsers" => r.table # "repositories"
    BY <1>1, <1>4 DEF TablesRead, Below
  <2>2. \A x : x.table = "namespaces" => (x \in present' <=> x \in present)
    BY <1>1, <2>1
  <2>3. req.query.listing = "repositoryUsers" =>
          \A x : x.table = "repositories" => (x \in present' <=> x \in present)
    BY <1>1, <2>1
  <2> QED
    BY <1>1, <2>2, <2>3, NamespacesKept
<1> QED
  BY <1>1, <1>2, <1>3, <1>4, RequestKept

(* A request that is answered.                                             *)
LEMMA ReplyStep ==
  ASSUME ListOK, NEW status \in {"200", "400", "500"}, Reply(status)
  PROVE  ListOK'
<1>1. UNCHANGED present /\ req' = [Idle EXCEPT !.step = status]
  BY DEF Reply
<1>2. /\ {"step", "query", "cond", "result"} \subseteq DOMAIN req'
      /\ req'.step = status
      /\ req'.query = Idle.query /\ req'.cond = Idle.cond /\ req'.result = Idle.result
  BY <1>1, IdleRequest
<1>3. TypeOK' /\ Shape'
  BY <1>1, <1>2, IdleRequest DEF ListOK, TypeOK, Shape, Step
<1>4. SnapshotOK' /\ AskedOK'
  BY <1>2 DEF SnapshotOK, AskedOK
<1> QED
  BY <1>3, <1>4 DEF ListOK

(* A request that is parsed and checked.                                   *)
LEMMA ReceiveStep ==
  ASSUME ListOK, NEW q \in Query, Receive(q)
  PROVE  ListOK'
<1>1. CASE Reply("400")
  BY <1>1, ReplyStep
<1>2. ASSUME NEW keys \in SetToSeqs(DOMAIN q.filters),
             Validated(Table[q.listing], ParseListConditions(q, keys)),
             req' = [step |-> "begun", query |-> q, cond |-> ParseListConditions(q, keys),
                     result |-> NoResult],
             UNCHANGED present
      PROVE  ListOK'
  <2> DEFINE cond == ParseListConditions(q, keys)
  <2>1. /\ {"filters", "term", "sort", "desc", "page", "limit"} \subseteq DOMAIN cond
        /\ cond.page = PositiveOr(q.page, 1) /\ cond.limit = PositiveOr(q.limit, 20)
    BY ParsedConditions
  <2>2. cond.page \in Nat \ {0} /\ cond.limit \in Nat \ {0}
    BY <2>1, QueryAssumption, PositiveNumbers
  <2>3. /\ {"step", "query", "cond", "result"} \subseteq DOMAIN req'
        /\ req'.step = "begun" /\ req'.query = q /\ req'.cond = cond /\ req'.result = NoResult
    BY <1>2
  <2>4. /\ {"total", "listed"} \subseteq DOMAIN NoResult
        /\ NoResult.total \in 0 .. Cardinality(Row)
        /\ ToSet(NoResult.listed) \subseteq Row
    BY IdleRequest DEF Idle
  <2> HIDE DEF cond
  <2>5. TypeOK' /\ Shape'
    BY <1>2, <2>1, <2>2, <2>3, <2>4 DEF ListOK, TypeOK, Shape, Step
  <2>6. SnapshotOK'
    BY <2>3 DEF SnapshotOK
  <2>7. Carries(cond, q, keys, <<>>)
    <3>1. cond.term = q.term
      BY DEF cond, ParseListConditions
    <3>2. \E S : cond.filters \in Seq(S)
      BY ParsedSequence DEF cond
    <3>3. cond.filters \o <<>> = cond.filters
      BY <3>2
    <3> QED
      BY <1>2, <3>1, <3>3 DEF Carries, cond
  <2>8. AskedOK'
    BY <2>3, <2>7 DEF AskedOK
  <2> QED
    BY <2>5, <2>6, <2>8 DEF ListOK
<1> QED
  BY <1>1, <1>2 DEF Receive

(* A scope has one namespace at most.                                      *)
LEMMA OneNamespace ==
  ASSUME present \subseteq Row, NEW q, NEW ns \in Namespaces(q)
  PROVE  Namespaces(q) = {ns}
<1> DEFINE repos == {r \in present : r.table = "repositories" /\ r.col.id = q.scope}
           ids == IF q.listing = "repositoryUsers" THEN {r.col.namespace_id : r \in repos}
                  ELSE {q.scope}
<1>1. Namespaces(q) \subseteq ids
  BY DEF Namespaces
<1>2. ASSUME NEW x \in ids, NEW y \in ids PROVE x = y
  <2>1. CASE q.listing = "repositoryUsers"
    <3>1. PICK r \in present, s \in present :
            /\ r.table = "repositories" /\ r.col.id = q.scope /\ x = r.col.namespace_id
            /\ s.table = "repositories" /\ s.col.id = q.scope /\ y = s.col.namespace_id
      BY <1>2, <2>1
    <3> QED
      BY <3>1, RowAssumption
  <2>2. CASE q.listing # "repositoryUsers"
    BY <1>2, <2>2
  <2> QED
    BY <2>1, <2>2
<1> HIDE DEF ids
<1> QED
  BY <1>1, <1>2

(* A request of which only the step and the result change goes on to carry *)
(* the same conditions.                                                    *)
LEMMA CarriedOn ==
  ASSUME ListOK, req.step \in {"ready", "counted"}, UNCHANGED present,
         req'.query = req.query, req'.cond = req.cond
  PROVE  req.query \in Query /\ CarriesAll(req.query, req.cond)'
<1>1. req.query \in Query /\ CarriesAll(req.query, req.cond)
  BY DEF ListOK, AskedOK
<1>2. Namespaces(req.query)' = Namespaces(req.query)
  BY NamespacesKept
<1> QED
  BY <1>1, <1>2 DEF CarriesAll

(* The look for what a listing is below.                                   *)
LEMMA BeginStep ==
  ASSUME ListOK, ListAll \/ ListBelow
  PROVE  ListOK'
<1>1. UNCHANGED present
  BY DEF ListAll, ListBelow
<1>2. /\ {"step", "query", "cond", "result"} \subseteq DOMAIN req'
      /\ req'.step = "ready" /\ req'.query = req.query /\ req'.result = req.result
      /\ {"filters", "term", "sort", "desc", "page", "limit"} \subseteq DOMAIN req'.cond
      /\ req'.cond.page = req.cond.page /\ req'.cond.limit = req.cond.limit
  <2>1. CASE ListAll
    BY <2>1 DEF ListAll, ListOK, Shape
  <2>2. CASE ListBelow
    <3>1. PICK ns : req' = [req EXCEPT !.step = "ready",
                                       !.cond.filters = @ \o ScopeFilters(req.query, ns)]
      BY <2>2 DEF ListBelow
    <3> QED
      BY <3>1 DEF ListOK, Shape
  <2> QED
    BY <2>1, <2>2
<1>3. TypeOK' /\ Shape'
  BY <1>1, <1>2 DEF ListOK, TypeOK, Shape, Step
<1>4. SnapshotOK'
  BY <1>2 DEF SnapshotOK
<1> DEFINE q == req.query
<1>5. req.step = "begun"
  BY DEF ListAll, ListBelow
<1>6. PICK keys \in SetToSeqs(DOMAIN q.filters) : Carries(req.cond, q, keys, <<>>)
  BY <1>5 DEF ListOK, AskedOK
<1>7. q \in Query
  BY <1>5 DEF ListOK, AskedOK
<1> DEFINE parsed == ParseListConditions(q, keys).filters
<1>8. req.cond.filters = parsed /\ \E S : parsed \in Seq(S)
  <2>1. \E S : parsed \in Seq(S)
    BY <1>7, ParsedSequence
  <2>2. req.cond.filters = parsed \o <<>>
    BY <1>6 DEF Carries
  <2> HIDE DEF parsed
  <2> QED
    BY <2>1, <2>2
<1>9. \E ns : /\ Carries(req'.cond, q, keys, ScopeFilters(q, ns))
              /\ q.listing \in Below => Namespaces(q) = {ns}
  <2>1. CASE ListAll
    <3>1. req'.cond = req.cond /\ q.listing \notin Below
      BY <2>1 DEF ListAll, ListOK, Shape
    <3>2. ScopeFilters(q, 0) = <<>>
      BY <3>1 DEF ScopeFilters, Below
    <3> QED
      BY <1>6, <3>1, <3>2
  <2>2. CASE ListBelow
    <3>1. PICK ns \in Namespaces(q) :
            req' = [req EXCEPT !.step = "ready", !.cond.filters = @ \o ScopeFilters(q, ns)]
      BY <2>2 DEF ListBelow
    <3>2. req'.cond.filters = parsed \o ScopeFilters(q, ns) /\ req'.cond.term = req.cond.term
      BY <1>8, <3>1 DEF ListOK, Shape
    <3>3. Carries(req'.cond, q, keys, ScopeFilters(q, ns))
      BY <1>6, <3>2 DEF Carries
    <3>4. Namespaces(q) = {ns}
      BY <1>7, <3>1, OneNamespace DEF ListOK, TypeOK
    <3> QED
      BY <3>3, <3>4
  <2> QED
    BY <2>1, <2>2
<1>10. CarriesAll(q, req'.cond)
  BY <1>9, Zenon DEF CarriesAll
<1>11. AskedOK'
  <2>1. CarriesAll(req.query, req.cond)'
    <3>1. Namespaces(req.query)' = Namespaces(q)
      BY <1>1, <1>2, NamespacesKept
    <3> QED
      BY <1>2, <1>10, <3>1 DEF CarriesAll
  <2> QED
    BY <1>2, <1>7, <2>1 DEF AskedOK
<1> QED
  BY <1>3, <1>4, <1>11 DEF ListOK

(* The count, which fixes the rows that the page is of.                    *)
LEMMA CountStep ==
  ASSUME ListOK, Count
  PROVE  ListOK'
<1>1. /\ UNCHANGED present
      /\ req' = [req EXCEPT !.step = "counted", !.result.total = Cardinality(Snapshot)]
  BY DEF Count, Snapshot
<1>2. Cardinality(Snapshot) \in 0 .. Cardinality(Row)
  BY SelectedRows DEF Snapshot, ListOK, TypeOK
<1>3. /\ {"step", "query", "cond", "result"} \subseteq DOMAIN req'
      /\ req'.step = "counted" /\ req'.query = req.query /\ req'.cond = req.cond
      /\ {"total", "listed"} \subseteq DOMAIN req'.result
      /\ req'.result.total = Cardinality(Snapshot) /\ req'.result.listed = req.result.listed
  BY <1>1 DEF ListOK, Shape
<1>4. Snapshot' = Snapshot
  BY <1>1, <1>3, SnapshotKept
<1>5. TypeOK' /\ Shape'
  BY <1>1, <1>2, <1>3 DEF ListOK, TypeOK, Shape, Step
<1>6. SnapshotOK'
  BY <1>3, <1>4 DEF SnapshotOK
<1> DEFINE table == Table[req.query.listing]
<1>7. table # "repositories" /\ Buildable(table, req.cond)
  <2>1. /\ req.step = "ready" /\ Buildable(table, req.cond)
        /\ BaseHoles(table) + Len(AllHoles(buildWhereClause(table, req.cond)))
             <= Len(whereArgs(table, req.cond))
    BY DEF Count
  <2>2. req.query \in Query /\ present \subseteq Row /\ CarriesAll(req.query, req.cond)
    BY <2>1 DEF ListOK, TypeOK, AskedOK
  <2>3. /\ Len(AllHoles(buildWhereClause(table, req.cond))) = Len(whereArgs(table, req.cond))
        /\ Len(whereArgs(table, req.cond)) \in Nat
    <3>1. \A c : CarriesAll(req.query, c) =>
            /\ Len(AllHoles(buildWhereClause(table, c))) = Len(whereArgs(table, c))
            /\ Len(whereArgs(table, c)) \in Nat
      BY <2>2, SelectedAsAsked DEF CarriesAll
    <3> QED
      BY <2>2, <3>1
  <2> QED
    BY <2>1, <2>3 DEF BaseHoles
<1>8. AskedOK'
  <2>1. req.step = "ready"
    BY DEF Count
  <2>2. req.query \in Query /\ CarriesAll(req.query, req.cond)'
    BY <1>1, <1>3, <2>1, CarriedOn
  <2> QED
    BY <1>3, <1>7, <2>2 DEF AskedOK, Buildable
<1> QED
  BY <1>5, <1>6, <1>8 DEF ListOK

(* The page, of the rows that were counted.                                *)
LEMMA FetchStep ==
  ASSUME ListOK, Fetch
  PROVE  ListOK'
<1>1. /\ UNCHANGED present /\ req.step = "counted"
      /\ \E s \in SetToSeqs(Snapshot) :
           /\ Ordered(s, req.cond)
           /\ \E listed : /\ ReadFrom(listed, PageFrom(s, req.cond))
                          /\ req' = [req EXCEPT !.step = "fetched", !.result.listed = listed]
  BY Zenon DEF Fetch, Snapshot, ReadFrom
<1>s. PICK s \in SetToSeqs(Snapshot) :
        /\ Ordered(s, req.cond)
        /\ \E listed : /\ ReadFrom(listed, PageFrom(s, req.cond))
                       /\ req' = [req EXCEPT !.step = "fetched", !.result.listed = listed]
  BY <1>1
<1>2. PICK listed :
        /\ s \in SetToSeqs(Snapshot)
        /\ Ordered(s, req.cond) /\ ReadFrom(listed, PageFrom(s, req.cond))
        /\ req' = [req EXCEPT !.step = "fetched", !.result.listed = listed]
  BY <1>s
<1>3. IsFiniteSet(Snapshot) /\ Snapshot \subseteq Row
  BY SelectedRows DEF Snapshot, ListOK, TypeOK
<1>4. Offset(req.cond) \in Nat /\ req.cond.limit \in Nat
  BY PositiveNumbers DEF ListOK, TypeOK
<1>5. ToSet(listed) \subseteq Row
  BY <1>2, <1>3, <1>4, RowsRead
<1>6. /\ {"step", "query", "cond", "result"} \subseteq DOMAIN req'
      /\ req'.step = "fetched" /\ req'.query = req.query /\ req'.cond = req.cond
      /\ {"total", "listed"} \subseteq DOMAIN req'.result
      /\ req'.result.total = req.result.total /\ req'.result.listed = listed
  BY <1>2 DEF ListOK, Shape
<1>7. Snapshot' = Snapshot
  BY <1>1, <1>6, SnapshotKept
<1>8. TypeOK' /\ Shape'
  BY <1>1, <1>5, <1>6 DEF ListOK, TypeOK, Shape, Step
<1>9. SnapshotOK'
  <2>1. req'.result.total = Cardinality(Snapshot')
    BY <1>1, <1>6, <1>7 DEF ListOK, SnapshotOK
  <2>2. /\ s \in SetToSeqs(Snapshot') /\ Ordered(s, req'.cond)
        /\ ReadFrom(req'.result.listed, PageFrom(s, req'.cond))
    BY <1>2, <1>6, <1>7
  <2> QED
    BY <2>1, <2>2 DEF SnapshotOK
<1>10. AskedOK'
  <2>1. req.query \in Query /\ CarriesAll(req.query, req.cond)'
    BY <1>1, <1>6, CarriedOn
  <2>2. Table[req.query.listing] # "repositories" /\ Buildable(Table[req.query.listing], req.cond)
    BY <1>1 DEF ListOK, AskedOK
  <2> QED
    BY <1>6, <2>1, <2>2 DEF AskedOK, Buildable
<1> QED
  BY <1>8, <1>9, <1>10 DEF ListOK

(* Each step keeps the invariant.                                          *)
LEMMA ListStep ==
  ASSUME ListOK, [Next]_vars
  PROVE  ListOK'
<1>1. CASE UNCHANGED vars
  <2>1. UNCHANGED req /\ UNCHANGED present
    BY <1>1 DEF vars
  <2>2. Snapshot' = Snapshot
    BY <2>1, SnapshotKept
  <2>3. Namespaces(req.query)' = Namespaces(req.query)
    BY <2>1, NamespacesKept
  <2> QED
    BY <2>1, <2>2, <2>3, RequestKept DEF ListOK, TypeOK
<1>2. ASSUME NEW r \in Row, Write(r) PROVE ListOK'
  BY <1>2, WriteStep
<1>3. ASSUME NEW q \in Query, Receive(q) PROVE ListOK'
  BY <1>3, ReceiveStep
<1>4. CASE ListAll \/ ListBelow
  BY <1>4, BeginStep
<1>5. CASE NothingBelow \/ Answer
  BY <1>5, ReplyStep DEF NothingBelow, Answer
<1>6. CASE Count
  BY <1>6, CountStep
<1>7. CASE Fetch
  BY <1>7, FetchStep
<1>8. CASE Fail
  BY <1>8, ReplyStep DEF Fail
<1> QED
  BY <1>1, <1>2, <1>3, <1>4, <1>5, <1>6, <1>7, <1>8 DEF Next

-----------------------------------------------------------------------------
(* The page that is answered                                               *)

(* So many elements as places at most.                                     *)
LEMMA PlacesBound ==
  ASSUME NEW s, NEW a \in Nat, NEW b \in Nat, a <= b + 1,
         NEW T, \A x \in T : \E k \in a .. b : x = s[k]
  PROVE  Cardinality(T) <= b + 1 - a
<1> DEFINE D == a .. b
           S == {s[k] : k \in D}
           f == [k \in D |-> s[k]]
<1>1. IsFiniteSet(D) /\ Cardinality(D) = b + 1 - a
  <2>1. IsFiniteSet(a .. b) /\ Cardinality(a .. b) = IF a > b THEN 0 ELSE b - a + 1
    BY FS_Interval
  <2> QED
    BY <2>1
<1>2. f \in Surjection(D, S)
  BY DEF Surjection
<1>3. T \subseteq S
  OBVIOUS
<1> HIDE DEF D, S, f
<1>4. IsFiniteSet(S) /\ Cardinality(S) <= Cardinality(D)
  BY <1>1, <1>2, FS_Surjection
<1>5. IsFiniteSet(T) /\ Cardinality(T) <= Cardinality(S)
  BY <1>3, <1>4, FS_Subset
<1>6. Cardinality(T) \in Nat /\ Cardinality(S) \in Nat
  BY <1>4, <1>5, FS_CardinalityType
<1> QED
  BY <1>1, <1>4, <1>5, <1>6

(* A listing with an order.                                                *)
Sorted(c) == c.sort # ""

(* In an ordered enumeration the rows that belong before another are those *)
(* that come before it, and those that belong after it come after it.      *)
LEMMA OrderedPlaces ==
  ASSUME NEW S, IsFiniteSet(S), NEW s \in SetToSeqs(S), NEW c, Sorted(c), Ordered(s, c),
         \A r \in S : r.col[c.sort] \in Int, NEW m \in 1 .. Cardinality(S)
  PROVE  LET Before(a, b) == IF c.desc THEN a.col[c.sort] > b.col[c.sort]
                             ELSE a.col[c.sort] < b.col[c.sort]
         IN  /\ Cardinality({r \in S : Before(r, s[m])}) <= m - 1
             /\ Cardinality({r \in S : Before(s[m], r)}) <= Cardinality(S) - m
<1> DEFINE n == Cardinality(S)
           Key(r) == r.col[c.sort]
           Before(a, b) == IF c.desc THEN Key(a) > Key(b) ELSE Key(a) < Key(b)
<1>1. /\ Len(s) = n /\ n \in Nat /\ DOMAIN s = 1 .. n /\ ToSet(s) = S
  BY Enumerated
<1>2. \A r \in S : \E k \in 1 .. n : r = s[k]
  BY <1>1 DEF ToSet
<1>3. \A k \in 1 .. n : Key(s[k]) \in Int
  BY <1>1 DEF ToSet
<1>4. \A i, j \in 1 .. n : i < j => IF c.desc THEN Key(s[i]) >= Key(s[j]) ELSE Key(s[i]) <= Key(s[j])
  BY <1>1, Zenon DEF Ordered, Sorted
<1>0. /\ m \in 1 .. n /\ m \in Int /\ 1 <= m /\ m <= n
      /\ \A k \in 1 .. n : k \in Int /\ 1 <= k /\ k <= n
  BY <1>1
<1> HIDE DEF n, Key
<1>5. ASSUME NEW k \in 1 .. n, Before(s[k], s[m]) PROVE k \in 1 .. m - 1
  <2>1. Key(s[k]) \in Int /\ Key(s[m]) \in Int
    BY <1>0, <1>3
  <2>2. m < k => IF c.desc THEN Key(s[m]) >= Key(s[k]) ELSE Key(s[m]) <= Key(s[k])
    BY <1>0, <1>4
  <2>3. ~ (m < k)
    BY <1>5, <2>1, <2>2
  <2>4. m # k
    BY <1>5, <2>1
  <2> QED
    BY <1>0, <1>1, <2>3, <2>4
<1>6. ASSUME NEW k \in 1 .. n, Before(s[m], s[k]) PROVE k \in m + 1 .. n
  <2>1. Key(s[k]) \in Int /\ Key(s[m]) \in Int
    BY <1>0, <1>3
  <2>2. k < m => IF c.desc THEN Key(s[k]) >= Key(s[m]) ELSE Key(s[k]) <= Key(s[m])
    BY <1>0, <1>4
  <2>3. ~ (k < m)
    BY <1>6, <2>1, <2>2
  <2>4. m # k
    BY <1>6, <2>1
  <2> QED
    BY <1>0, <1>1, <2>3, <2>4
<1> HIDE DEF Before
<1>7. Cardinality({r \in S : Before(r, s[m])}) <= m - 1
  <2>1. \A x \in {r \in S : Before(r, s[m])} : \E k \in 1 .. m - 1 : x = s[k]
    BY <1>2, <1>5
  <2>2. 1 \in Nat /\ m - 1 \in Nat /\ 1 <= (m - 1) + 1 /\ (m - 1) + 1 - 1 = m - 1
    BY <1>0
  <2> DEFINE b == m - 1
             T == {r \in S : Before(r, s[m])}
  <2> HIDE DEF b, T
  <2>3. Cardinality(T) <= b + 1 - 1
    BY <2>1, <2>2, PlacesBound DEF b, T
  <2> QED
    BY <2>2, <2>3 DEF b, T
<1>8. Cardinality({r \in S : Before(s[m], r)}) <= n - m
  <2>1. \A x \in {r \in S : Before(s[m], r)} : \E k \in m + 1 .. n : x = s[k]
    BY <1>2, <1>6
  <2> DEFINE a == m + 1
             T == {r \in S : Before(s[m], r)}
  <2>2. a \in Nat /\ n \in Nat /\ a <= n + 1 /\ n + 1 - a = n - m
    BY <1>0, <1>1
  <2> HIDE DEF a, T
  <2>3. Cardinality(T) <= n + 1 - a
    BY <2>1, <2>2, PlacesBound DEF a, T
  <2> QED
    BY <2>2, <2>3 DEF T
<1> QED
  BY <1>7, <1>8 DEF Before, Key, n

(* The rows of the moment are those that the request asks for.             *)
LEMMA SnapshotAsked ==
  ASSUME ListOK, req.step \in {"counted", "fetched"}, "is_public" \notin DOMAIN req.query.filters
  PROVE  /\ Snapshot = Asked(req.query)
         /\ IsFiniteSet(Snapshot)
         /\ \A r \in Snapshot : req.cond.sort # "" => r.col[req.cond.sort] \in Int
<1> DEFINE q == req.query
           c == req.cond
           table == Table[q.listing]
<1>1. /\ q \in Query /\ present \subseteq Row /\ CarriesAll(q, c)
      /\ table # "repositories" /\ Buildable(table, c)
  BY DEF ListOK, TypeOK, AskedOK
<1>2. Snapshot = Asked(q)
  BY <1>1, SelectedAsAsked DEF CarriesAll, Snapshot
<1>3. IsFiniteSet(Snapshot) /\ Snapshot \subseteq Row
  BY <1>1, SelectedRows DEF Snapshot
<1>4. \A r \in Snapshot : r.table = table
  BY <1>2 DEF Asked
<1>5. ASSUME NEW r \in Snapshot, c.sort # "" PROVE r.col[c.sort] \in Int
  <2>1. c.sort \in Builder[table].sorts
    BY <1>1, <1>5 DEF Buildable
  <2> QED
    BY <1>3, <1>4, <2>1, RowAssumption
<1> QED
  BY <1>2, <1>3, <1>5

-----------------------------------------------------------------------------
(* Theorems                                                                *)

(* The invariant holds throughout.                                         *)
THEOREM ListingInvariant == Spec => []ListOK
<1>1. Init => ListOK
  <2> SUFFICES ASSUME Init PROVE ListOK
    OBVIOUS
  <2>1. present \subseteq Row /\ req = Idle
    BY DEF Init
  <2>2. Idle.step = "idle"
    BY DEF Idle
  <2>3. TypeOK /\ Shape
    BY <2>1, <2>2, IdleRequest DEF TypeOK, Shape, Step
  <2>4. SnapshotOK /\ AskedOK
    BY <2>1, <2>2 DEF SnapshotOK, AskedOK
  <2> QED
    BY <2>3, <2>4 DEF ListOK
<1>2. ListOK /\ [Next]_vars => ListOK'
  BY ListStep
<1> QED
  BY <1>1, <1>2, PTL DEF Spec

(* Every part of a request has its type; pages and limits are positive,    *)
(* whatever the parameters of the URL were (ParseListConditions).          *)
THEOREM TypeCorrect == Spec => []TypeOK
<1>1. ListOK => TypeOK
  BY DEF ListOK
<1> QED
  BY <1>1, ListingInvariant, PTL

(* Count and page are of one snapshot (the transactions of the services):  *)
(* the rows listed are distinct, selected still, in their order, and no    *)
(* more are missing of as many as the total leaves for the page than       *)
(* cannot be read, which the stores skip.                                  *)
THEOREM PagesMatchTotals == Spec => []PageOfTotal
<1>1. ListOK => PageOfTotal
  <2> SUFFICES ASSUME ListOK, req.step = "fetched" PROVE PageOfTotal
    BY DEF PageOfTotal
  <2>1. PICK s \in SetToSeqs(Snapshot) :
          Ordered(s, req.cond) /\ ReadFrom(req.result.listed, PageFrom(s, req.cond))
    BY DEF ListOK, SnapshotOK
  <2>2. req.result.total = Cardinality(Snapshot)
    BY DEF ListOK, SnapshotOK
  <2>3. IsFiniteSet(Snapshot)
    BY SelectedRows DEF Snapshot, ListOK, TypeOK
  <2>4. Offset(req.cond) \in Nat /\ req.cond.limit \in Nat
    BY PositiveNumbers DEF ListOK, TypeOK
  <2> QED
    BY <2>1, <2>2, <2>3, <2>4, RowsRead DEF PageOfTotal
<1> QED
  BY <1>1, ListingInvariant, PTL

(* The total of a listing is the number of rows that its parameters and    *)
(* its scope ask for: each argument reaches its placeholder, in whatever   *)
(* order the parser took the parameters (buildWhereClause, List).          *)
THEOREM CountsAsAsked == Spec => []CountedAsAsked
<1>1. ListOK => CountedAsAsked
  BY SnapshotAsked DEF ListOK, SnapshotOK, CountedAsAsked
<1> QED
  BY <1>1, ListingInvariant, PTL

(* The rows answered are the page that was asked for: distinct, of those   *)
(* that are asked for, as many as the total leaves for the page but for    *)
(* accounts without a role, and none in or after the page belongs before   *)
(* it (Build, List, the transactions of the services).                     *)
THEOREM PagesAsAsked == Spec => []ListedIsPage
<1>1. ListOK => ListedIsPage
  <2> DEFINE c == req.cond
             offset == (c.page - 1) * c.limit
             listed == req.result.listed
             total == req.result.total
             all == Asked(req.query)
             rest == total - offset
             size == IF rest < 0 THEN 0 ELSE IF rest < c.limit THEN rest ELSE c.limit
             missing == size - Len(listed)
             Before(a, b) == IF c.desc THEN a.col[c.sort] > b.col[c.sort]
                             ELSE a.col[c.sort] < b.col[c.sort]
  <2> SUFFICES ASSUME ListOK, req.step = "fetched", offset < 2 ^ Word,
                      "is_public" \notin DOMAIN req.query.filters
               PROVE  /\ IsInjective(listed)
                      /\ ToSet(listed) \subseteq {r \in all : Readable(r)}
                      /\ missing \in 0 .. Cardinality({r \in all : ~Readable(r)})
                      /\ c.sort # "" => \A i \in DOMAIN listed :
                           /\ Cardinality({r \in all : Before(r, listed[i])}) <= offset + missing + i - 1
                           /\ Cardinality({r \in all : Before(listed[i], r)}) <= total - offset - i
    BY DEF ListedIsPage
  <2>1. /\ Snapshot = all /\ IsFiniteSet(all) /\ total = Cardinality(all)
        /\ \A r \in all : Sorted(c) => r.col[c.sort] \in Int
    BY SnapshotAsked DEF ListOK, SnapshotOK, Sorted
  <2>2. PICK s \in SetToSeqs(all) : Ordered(s, c) /\ ReadFrom(listed, PageFrom(s, c))
    BY <2>1 DEF ListOK, SnapshotOK
  <2>3. c.page \in Nat \ {0} /\ c.limit \in Nat \ {0}
    BY DEF ListOK, TypeOK
  <2>4. offset \in Nat
    BY <2>3
  <2>5. Offset(c) = offset
    <3> DEFINE w == 2 ^ Word
    <3>1. w \in Nat \ {0} /\ offset < w
      BY WordAssumption
    <3> HIDE DEF w, offset
    <3>2. offset % w = offset
      BY <2>4, <3>1
    <3> QED
      BY <3>2 DEF Offset, w, offset
  <2>6. total \in Nat
    BY <2>1, FS_CardinalityType
  <2> HIDE DEF c, offset, listed, total, all, Before
  <2>7. PageSize(total, offset, c.limit) = size
    BY <2>3, <2>4, <2>6 DEF PageSize
  <2> HIDE DEF size
  <2>8. /\ Len(listed) \in Nat /\ DOMAIN listed = 1 .. Len(listed)
        /\ missing \in 0 .. Cardinality(Unreadable(all))
        /\ IsInjective(listed)
        /\ ToSet(listed) \subseteq all \ Unreadable(all)
        /\ \A i \in DOMAIN listed : \E m \in 1 .. total :
             listed[i] = s[m] /\ offset + i <= m /\ m <= offset + i + missing
    BY <2>1, <2>2, <2>3, <2>4, <2>5, <2>7, RowsRead
  <2> HIDE DEF missing
  <2>9. Cardinality(Unreadable(all)) \in Nat
    BY <2>1, FS_Subset, FS_CardinalityType DEF Unreadable
  <2>10. ASSUME Sorted(c), NEW i \in DOMAIN listed
         PROVE  /\ Cardinality({r \in all : Before(r, listed[i])}) <= offset + missing + i - 1
                /\ Cardinality({r \in all : Before(listed[i], r)}) <= total - offset - i
    <3>1. PICK m \in 1 .. total : listed[i] = s[m] /\ offset + i <= m /\ m <= offset + i + missing
      BY <2>8
    <3>2. m \in 1 .. Cardinality(all)
      BY <2>1, <3>1
    <3>3. /\ Cardinality({r \in all : Before(r, s[m])}) <= m - 1
          /\ Cardinality({r \in all : Before(s[m], r)}) <= Cardinality(all) - m
      BY <2>1, <2>2, <2>10, <3>2, OrderedPlaces DEF Before
    <3>4. /\ Cardinality({r \in all : Before(r, listed[i])}) <= m - 1
          /\ Cardinality({r \in all : Before(listed[i], r)}) <= total - m
      BY <2>1, <3>1, <3>3, Zenon
    <3> DEFINE T == {r \in all : Before(r, listed[i])}
               U == {r \in all : Before(listed[i], r)}
    <3>5. Cardinality(T) \in Nat /\ Cardinality(U) \in Nat
      BY <2>1, FS_Subset, FS_CardinalityType
    <3> HIDE DEF T, U
    <3>6. Cardinality(T) <= m - 1 /\ Cardinality(U) <= total - m
      BY <3>4 DEF T, U
    <3>7. m \in Int /\ i \in Int /\ missing \in Int
      BY <2>6, <2>8, <2>9
    <3>8. Cardinality(T) <= offset + missing + i - 1 /\ Cardinality(U) <= total - offset - i
      BY <2>4, <2>6, <3>1, <3>5, <3>6, <3>7
    <3> QED
      BY <3>8 DEF T, U
  <2>11. all \ Unreadable(all) = {r \in all : Readable(r)}
    BY DEF Unreadable
  <2> QED
    BY <2>8, <2>10, <2>11, Zenon DEF Before, Sorted, Unreadable
<1> QED
  BY <1>1, ListingInvariant, PTL
=============================================================================
