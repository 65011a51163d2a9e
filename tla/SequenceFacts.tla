--------------------------- MODULE SequenceFacts ---------------------------
(***************************************************************************)
(* What the recursive operators on sequences compute, for all sequences:   *)
(* the flattening of a sequence of sequences, and folds.  Induction is     *)
(* over sets of numbers: the least number of a set that is not empty       *)
(* exists because the order of the numbers is well founded.                *)
(***************************************************************************)
EXTENDS SequencesExt, SequenceTheorems, WellFoundedInduction, TLAPS

-----------------------------------------------------------------------------
(* Numbers *)

(* A set of numbers has a least one.                                       *)
LEMMA LeastNumber ==
    ASSUME NEW S \in SUBSET Nat, S # {}
    PROVE  \E n \in S : \A k \in S : n <= k
<1> DEFINE less == {p \in Nat \X Nat : p[1] < p[2]}
<1>1. IsWellFoundedOn(less, Nat)
  BY NatLessThanWellFounded DEF OpToRel
<1>2. \A i, j \in Nat : i < j => <<i, j>> \in less
  OBVIOUS
<1>3. PICK n \in S : \A k \in S : <<k, n>> \notin less
  <2> HIDE DEF less
  <2> QED BY <1>1, WFMin
<1>4. \A k \in S : ~ (k < n)
  BY <1>2, <1>3
<1> QED BY <1>4

(* What holds of 0 and, with a number up to N, of the next, holds up to N. *)
LEMMA UpTo ==
    ASSUME NEW N \in Nat, NEW S, 0 \in S,
           \A n \in 0 .. N : n \in S /\ n < N => n + 1 \in S
    PROVE  0 .. N \subseteq S
<1> DEFINE others == (0 .. N) \ S
<1> SUFFICES ASSUME others # {}
             PROVE  FALSE
  OBVIOUS
<1>1. PICK n \in others : \A k \in others : n <= k
  <2>1. others \in SUBSET Nat
    OBVIOUS
  <2> HIDE DEF others
  <2> QED BY <2>1, LeastNumber
<1>2. n # 0 /\ n - 1 \in 0 .. N /\ n - 1 < N /\ n - 1 + 1 = n
  BY <1>1
<1>3. n - 1 \in S
  BY <1>1, <1>2
<1> QED BY <1>1, <1>2, <1>3

LEMMA FromOneBefore ==
    ASSUME NEW N \in Nat, NEW S, 0 \in S,
           \A n \in 1 .. N : n - 1 \in S => n \in S
    PROVE  0 .. N \subseteq S
<1>1. ASSUME NEW n \in 0 .. N, n \in S, n < N
      PROVE  n + 1 \in S
  <2>1. n + 1 \in 1 .. N /\ n + 1 - 1 = n
    BY <1>1
  <2> QED BY <1>1, <2>1
<1> QED BY <1>1, UpTo

(* A set of numbers up to N has a greatest one, and Max is that.           *)
LEMMA MaxOfNumbers ==
    ASSUME NEW N \in Nat, NEW S \in SUBSET (0 .. N), S # {}
    PROVE  Max(S) \in S /\ \A k \in S : Max(S) >= k
<1> DEFINE bounds == {n \in Nat : \A k \in S : n >= k}
<1>1. N \in bounds
  OBVIOUS
<1>2. PICK n \in bounds : \A k \in bounds : n <= k
  BY <1>1, LeastNumber
<1>3. n \in S
  <2> SUFFICES ASSUME n \notin S
               PROVE  FALSE
    OBVIOUS
  <2>1. \A k \in S : k \in Nat /\ n > k
    OBVIOUS
  <2>2. n # 0 /\ n - 1 \in Nat
    <3>1. PICK k \in S : TRUE
      OBVIOUS
    <3>2. n \in Nat /\ k \in Nat /\ n > k
      BY <2>1, <3>1
    <3> QED BY <3>2
  <2>3. \A k \in S : n - 1 >= k
    BY <2>1
  <2> QED BY <1>2, <2>2, <2>3
<1>4. \E x \in S : \A y \in S : x >= y
  BY <1>3
<1> QED BY <1>4 DEF Max

(* The initial segments of 1 .. N, over which FoldLeft goes.               *)
LEMMA Segment ==
    ASSUME NEW n \in Nat, n # 0
    PROVE  Max(1 .. n) = n /\ (1 .. n) \ {n} = 1 .. (n - 1) /\ 1 .. n # {}
<1>1. 1 .. n \in SUBSET (0 .. n) /\ 1 .. n # {} /\ n \in 1 .. n
  OBVIOUS
<1>2. Max(1 .. n) \in 1 .. n /\ Max(1 .. n) >= n
  BY <1>1, MaxOfNumbers
<1> QED BY <1>1, <1>2

-----------------------------------------------------------------------------
(* Recursion *)

(* The steps of a recursion up to N with values in V, and what it defines. *)
Steps(N, V) == [V \X (1 .. N) -> V]
Follows(f, N, V, base, step) ==
    /\ f \in [0 .. N -> V]
    /\ f[0] = base
    /\ \A n \in 1 .. N : f[n] = step[<<f[n - 1], n>>]

(* The same over the sets of positions, each without the last of them.     *)
Folds(f, N, V, base, step) ==
    /\ f \in [SUBSET (1 .. N) -> V]
    /\ f = [s \in SUBSET (1 .. N) |->
               IF s = {} THEN base ELSE step[<<f[s \ {Max(s)}], Max(s)>>]]

(* A function that is defined by what it is at 0 and by a step exists.     *)
LEMMA RecursionDefined ==
    ASSUME NEW N \in Nat, NEW V, NEW base \in V, NEW step \in Steps(N, V)
    PROVE  \E f : Follows(f, N, V, base, step)
<1> USE DEF Steps
<1> DEFINE Upto(f, k) == [n \in 0 .. k |-> IF n = 0 THEN base ELSE step[<<f[n - 1], n>>]]
           defined == {k \in 0 .. N : \E f \in [0 .. k -> V] : f = Upto(f, k)}
<1>1. 0 \in defined
  <2> DEFINE f == [n \in 0 .. 0 |-> base]
  <2>1. f \in [0 .. 0 -> V] /\ f = Upto(f, 0)
    OBVIOUS
  <2>2. \E g \in [0 .. 0 -> V] : g = Upto(g, 0)
    <3> HIDE DEF f, Upto
    <3> QED BY <2>1
  <2> QED BY <2>2
<1>2. ASSUME NEW k \in 0 .. N, k \in defined, k < N
      PROVE  k + 1 \in defined
  <2>1. PICK f \in [0 .. k -> V] : f = Upto(f, k)
    BY <1>2
  <2> DEFINE v == step[<<f[k], k + 1>>]
             g == [n \in 0 .. k + 1 |-> IF n = k + 1 THEN v ELSE f[n]]
  <2>2. v \in V
    BY <1>2
  <2>3. g \in [0 .. k + 1 -> V]
    BY <2>2
  <2>4. \A n \in 0 .. k + 1 : g[n] = IF n = 0 THEN base ELSE step[<<g[n - 1], n>>]
    <3>1. \A n \in 0 .. k : g[n] = f[n]
      OBVIOUS
    <3>2. \A n \in 0 .. k : f[n] = IF n = 0 THEN base ELSE step[<<f[n - 1], n>>]
      BY <2>1
    <3>3. \A n \in 0 .. k : n # 0 => n - 1 \in 0 .. k
      OBVIOUS
    <3>4. g[k + 1] = step[<<g[k], k + 1>>]
      <4>1. k \in 0 .. k /\ k + 1 \in 0 .. k + 1
        OBVIOUS
      <4>2. g[k] = f[k]
        BY <3>1, <4>1
      <4>3. g[k + 1] = v
        BY <4>1
      <4> HIDE DEF g
      <4> QED BY <4>2, <4>3
    <3>5. k + 1 # 0 /\ k + 1 - 1 = k /\ k \in Nat
      OBVIOUS
    <3>6. \A n \in 0 .. k + 1 : n \in 0 .. k \/ n = k + 1
      OBVIOUS
    <3> HIDE DEF g
    <3>7. ASSUME NEW n \in 0 .. k
          PROVE  g[n] = IF n = 0 THEN base ELSE step[<<g[n - 1], n>>]
      BY <3>1, <3>2, <3>3
    <3> QED BY <3>4, <3>5, <3>6, <3>7
  <2>5. g = Upto(g, k + 1)
    BY <2>4
  <2>6. \E h \in [0 .. k + 1 -> V] : h = Upto(h, k + 1)
    <3> HIDE DEF g, Upto
    <3> QED BY <2>3, <2>5
  <2>7. k + 1 \in 0 .. N
    BY <1>2
  <2> HIDE DEF Upto
  <2> QED BY <2>6, <2>7
<1>3. N \in defined
  <2> HIDE DEF defined
  <2> QED BY <1>1, <1>2, UpTo
<1>4. PICK f \in [0 .. N -> V] : f = Upto(f, N)
  BY <1>3
<1>5. f[0] = base
  BY <1>4
<1>6. \A n \in 1 .. N : f[n] = step[<<f[n - 1], n>>]
  <2>1. \A n \in 1 .. N : n \in 0 .. N /\ n # 0
    OBVIOUS
  <2> QED BY <1>4, <2>1
<1> QED BY <1>4, <1>5, <1>6 DEF Follows

(* FoldLeft is defined by recursion over the sets of positions.            *)
LEMMA FoldDefined ==
    ASSUME NEW N \in Nat, NEW V, NEW base \in V, NEW step \in Steps(N, V)
    PROVE  \E f : Folds(f, N, V, base, step)
<1> USE DEF Steps
<1> DEFINE Upto(f, k) == [s \in SUBSET (1 .. k) |->
                             IF s = {} THEN base ELSE step[<<f[s \ {Max(s)}], Max(s)>>]]
           defined == {k \in 0 .. N : \E f \in [SUBSET (1 .. k) -> V] : f = Upto(f, k)}
<1>0. \A s \in SUBSET (1 .. N) : s # {} => Max(s) \in s /\ \A k \in s : Max(s) >= k
  <2>1. \A s \in SUBSET (1 .. N) : s \in SUBSET (0 .. N)
    OBVIOUS
  <2> QED BY <2>1, MaxOfNumbers
<1>1. 0 \in defined
  <2> DEFINE f == [s \in SUBSET (1 .. 0) |-> base]
  <2>1. 1 .. 0 = {} /\ SUBSET (1 .. 0) = {{}}
    OBVIOUS
  <2>2. f \in [SUBSET (1 .. 0) -> V] /\ f = Upto(f, 0)
    BY <2>1
  <2>3. \E g \in [SUBSET (1 .. 0) -> V] : g = Upto(g, 0)
    <3> HIDE DEF f, Upto
    <3> QED BY <2>2
  <2>4. 0 \in 0 .. N
    OBVIOUS
  <2> HIDE DEF Upto
  <2> QED BY <2>3, <2>4
<1>2. ASSUME NEW k \in 0 .. N, k \in defined, k < N
      PROVE  k + 1 \in defined
  <2>1. PICK f \in [SUBSET (1 .. k) -> V] : f = Upto(f, k)
    BY <1>2
  <2> DEFINE g == [s \in SUBSET (1 .. k + 1) |->
                      IF k + 1 \in s THEN step[<<f[s \ {k + 1}], k + 1>>] ELSE f[s]]
  <2>2. \A s \in SUBSET (1 .. k + 1) : /\ s \ {k + 1} \in SUBSET (1 .. k)
                                       /\ k + 1 \notin s => s \in SUBSET (1 .. k)
    OBVIOUS
  <2>3. g \in [SUBSET (1 .. k + 1) -> V]
    <3>1. k + 1 \in 1 .. N
      BY <1>2
    <3>2. \A s \in SUBSET (1 .. k + 1) : g[s] \in V
      BY <2>2, <3>1
    <3> QED BY <3>2
  <2>4. ASSUME NEW s \in SUBSET (1 .. k + 1)
        PROVE  g[s] = IF s = {} THEN base ELSE step[<<g[s \ {Max(s)}], Max(s)>>]
    <3>1. \A t \in SUBSET (1 .. k) : t \in SUBSET (1 .. k + 1) /\ k + 1 \notin t
      OBVIOUS
    <3>2. \A t \in SUBSET (1 .. k) : g[t] = f[t]
      BY <3>1
    <3>3. CASE k + 1 \in s
      <4>1. s \in SUBSET (1 .. N) /\ s # {}
        BY <1>2, <3>3
      <4>2. Max(s) \in s /\ Max(s) >= k + 1
        BY <1>0, <3>3, <4>1
      <4>3. Max(s) = k + 1
        <5>1. Max(s) \in 1 .. k + 1
          BY <4>2
        <5> QED BY <4>2, <5>1
      <4> QED BY <2>2, <3>2, <3>3, <4>1, <4>3
    <3>4. CASE k + 1 \notin s
      <4>1. s \in SUBSET (1 .. k) /\ s \in SUBSET (1 .. N)
        BY <1>2, <2>2, <3>4
      <4>2. f[s] = IF s = {} THEN base ELSE step[<<f[s \ {Max(s)}], Max(s)>>]
        BY <2>1, <4>1
      <4>3. s \ {Max(s)} \in SUBSET (1 .. k)
        BY <4>1
      <4> QED BY <3>2, <4>1, <4>2, <4>3
    <3> QED BY <3>3, <3>4
  <2>5. g = Upto(g, k + 1)
    BY <2>4
  <2>6. \E h \in [SUBSET (1 .. k + 1) -> V] : h = Upto(h, k + 1)
    <3> HIDE DEF g, Upto
    <3> QED BY <2>3, <2>5
  <2>7. k + 1 \in 0 .. N
    BY <1>2
  <2> HIDE DEF Upto
  <2> QED BY <2>6, <2>7
<1>3. N \in defined
  <2> HIDE DEF defined
  <2> QED BY <1>1, <1>2, UpTo
<1> QED BY <1>3 DEF Folds

-----------------------------------------------------------------------------
(* Flattening *)

LEMMA ConcatIndices ==
    ASSUME NEW E, NEW s \in Seq(E), NEW t \in Seq(E)
    PROVE  /\ s \o t \in Seq(E) /\ Len(s \o t) = Len(s) + Len(t)
           /\ \A i \in 1 .. Len(s) : (s \o t)[i] = s[i]
           /\ \A i \in 1 .. Len(t) : (s \o t)[Len(s) + i] = t[i]
           /\ \A i \in DOMAIN (s \o t) : \/ i \in DOMAIN s /\ (s \o t)[i] = s[i]
                                         \/ /\ i > Len(s) /\ i - Len(s) \in DOMAIN t
                                            /\ (s \o t)[i] = t[i - Len(s)]
<1>1. s \o t \in Seq(E) /\ Len(s \o t) = Len(s) + Len(t)
  OBVIOUS
<1>2. \A i \in 1 .. Len(s) + Len(t) :
          (s \o t)[i] = IF i <= Len(s) THEN s[i] ELSE t[i - Len(s)]
  OBVIOUS
<1> QED BY <1>1, <1>2

LEMMA ToSetConcat ==
    ASSUME NEW E, NEW s \in Seq(E), NEW t \in Seq(E)
    PROVE  ToSet(s \o t) = ToSet(s) \cup ToSet(t)
<1>1. \A i \in DOMAIN s : i \in DOMAIN (s \o t) /\ (s \o t)[i] = s[i]
  BY ConcatIndices
<1>2. \A i \in DOMAIN t : Len(s) + i \in DOMAIN (s \o t) /\ (s \o t)[Len(s) + i] = t[i]
  BY ConcatIndices
<1>3. \A i \in DOMAIN (s \o t) : \/ i \in DOMAIN s /\ (s \o t)[i] = s[i]
                                 \/ i - Len(s) \in DOMAIN t /\ (s \o t)[i] = t[i - Len(s)]
  BY ConcatIndices
<1>4. ToSet(s) \subseteq ToSet(s \o t)
  BY <1>1 DEF ToSet
<1>5. ToSet(t) \subseteq ToSet(s \o t)
  BY <1>2 DEF ToSet
<1>6. ToSet(s \o t) \subseteq ToSet(s) \cup ToSet(t)
  BY <1>3 DEF ToSet
<1> QED BY <1>4, <1>5, <1>6

(* FlattenSeq appends one sequence after the other.                        *)
LEMMA FlattenSteps ==
    ASSUME NEW E, NEW seqs \in Seq(Seq(E))
    PROVE  \E flat \in [0 .. Len(seqs) -> Seq(E)] :
               /\ flat[0] = << >>
               /\ \A n \in 1 .. Len(seqs) : flat[n] = flat[n - 1] \o seqs[n]
               /\ FlattenSeq(seqs) = flat[Len(seqs)]
<1> DEFINE N == Len(seqs)
           step == [p \in Seq(E) \X (1 .. N) |-> p[1] \o seqs[p[2]]]
           Flatten(f) == [i \in 1 .. N |-> IF i = 1 THEN seqs[i] ELSE f[i - 1] \o seqs[i]]
<1>1. \A n \in 1 .. N : seqs[n] \in Seq(E)
  OBVIOUS
<1>2. step \in [Seq(E) \X (1 .. N) -> Seq(E)]
  BY <1>1
<1>3. PICK flat : Follows(flat, N, Seq(E), << >>, step)
  <2>1. << >> \in Seq(E) /\ N \in Nat /\ step \in Steps(N, Seq(E))
    BY <1>2 DEF Steps
  <2> HIDE DEF N, step
  <2> QED BY <2>1, RecursionDefined
<1>4. flat \in [0 .. N -> Seq(E)] /\ flat[0] = << >>
  BY <1>3 DEF Follows
<1>5. ASSUME NEW n \in 1 .. N
      PROVE  n - 1 \in 0 .. N /\ flat[n] = flat[n - 1] \o seqs[n]
  <2>1. n \in 0 .. N /\ n # 0 /\ n - 1 \in 0 .. N
    OBVIOUS
  <2>2. flat[n] = step[<<flat[n - 1], n>>]
    BY <1>3, <2>1 DEF Follows
  <2>3. flat[n - 1] \in Seq(E)
    BY <1>4, <2>1
  <2> QED BY <2>1, <2>2, <2>3
<1> DEFINE g == [i \in 1 .. N |-> flat[i]]
<1>6. g = Flatten(g)
  <2>1. ASSUME NEW n \in 1 .. N
        PROVE  flat[n] = IF n = 1 THEN seqs[n] ELSE g[n - 1] \o seqs[n]
    <3>1. CASE n = 1
      <4>1. n - 1 = 0 /\ << >> \o seqs[n] = seqs[n]
        BY <1>1, <3>1
      <4> QED BY <1>4, <1>5, <3>1, <4>1
    <3>2. CASE n # 1
      <4>1. n - 1 \in 1 .. N
        BY <3>2
      <4> QED BY <1>5, <3>2, <4>1
    <3> QED BY <3>1, <3>2
  <2> QED BY <2>1
<1> DEFINE h == CHOOSE f : f = Flatten(f)
<1>7. h = Flatten(h)
  <2> HIDE DEF Flatten
  <2> QED BY <1>6
<1>8. \A n \in 1 .. N : h[n] = flat[n]
  <2> DEFINE same == {n \in 0 .. N : n # 0 => h[n] = flat[n]}
  <2>1. 0 \in same
    OBVIOUS
  <2>2. ASSUME NEW n \in 1 .. N, n - 1 \in same
        PROVE  n \in same
    <3>1. h[n] = IF n = 1 THEN seqs[n] ELSE h[n - 1] \o seqs[n]
      <4> HIDE DEF h
      <4> QED BY <1>7
    <3>2. flat[n] = flat[n - 1] \o seqs[n]
      BY <1>5
    <3>3. n \in 0 .. N
      OBVIOUS
    <3>4. CASE n = 1
      <4>1. n - 1 = 0 /\ << >> \o seqs[n] = seqs[n]
        BY <1>1, <3>4
      <4> HIDE DEF h
      <4> QED BY <1>4, <3>1, <3>2, <3>3, <3>4, <4>1
    <3>5. CASE n # 1
      <4>1. h[n - 1] = flat[n - 1]
        BY <2>2, <3>5
      <4> HIDE DEF h
      <4> QED BY <3>1, <3>2, <3>3, <3>5, <4>1
    <3> QED BY <3>4, <3>5
  <2>3. 0 .. N \subseteq same
    <3> N \in Nat
      OBVIOUS
    <3> HIDE DEF same, N
    <3> QED BY <2>1, <2>2, FromOneBefore
  <2> HIDE DEF h
  <2> QED BY <2>3
<1>9. FlattenSeq(seqs) = IF N = 0 THEN seqs ELSE h[N]
  BY DEF FlattenSeq
<1>10. FlattenSeq(seqs) = flat[N]
  <2>1. CASE N = 0
    BY <1>4, <1>9, <2>1
  <2>2. CASE N # 0
    <3>1. N \in 1 .. N
      BY <2>2
    <3> HIDE DEF h
    <3> QED BY <1>8, <1>9, <2>2, <3>1
  <2> QED BY <2>1, <2>2
<1> HIDE DEF step
<1> QED BY <1>4, <1>5, <1>10

LEMMA FlattenElements ==
    ASSUME NEW E, NEW seqs \in Seq(Seq(E))
    PROVE  /\ FlattenSeq(seqs) \in Seq(E)
           /\ ToSet(FlattenSeq(seqs)) = UNION {ToSet(seqs[n]) : n \in DOMAIN seqs}
<1> DEFINE N == Len(seqs)
<1>0. \A n \in 1 .. N : seqs[n] \in Seq(E)
  OBVIOUS
<1>1. PICK flat \in [0 .. N -> Seq(E)] :
          /\ flat[0] = << >>
          /\ \A n \in 1 .. N : flat[n] = flat[n - 1] \o seqs[n]
          /\ FlattenSeq(seqs) = flat[N]
  BY FlattenSteps
<1> DEFINE right == {n \in 0 .. N : ToSet(flat[n]) = UNION {ToSet(seqs[k]) : k \in 1 .. n}}
<1>2. 0 \in right
  BY <1>1 DEF ToSet
<1>3. ASSUME NEW n \in 1 .. N, n - 1 \in right
      PROVE  n \in right
  <2>1. n \in 0 .. N /\ n - 1 \in 0 .. N
    OBVIOUS
  <2>2. flat[n] = flat[n - 1] \o seqs[n] /\ flat[n - 1] \in Seq(E) /\ seqs[n] \in Seq(E)
    BY <1>0, <1>1, <2>1
  <2>3. ToSet(flat[n]) = ToSet(flat[n - 1]) \cup ToSet(seqs[n])
    BY <2>2, ToSetConcat
  <2>4. 1 .. n = (1 .. n - 1) \cup {n}
    OBVIOUS
  <2>5. ToSet(flat[n]) = UNION {ToSet(seqs[k]) : k \in 1 .. n}
    BY <1>3, <2>3, <2>4
  <2> QED BY <2>1, <2>5
<1>4. N \in right
  <2> N \in Nat /\ N \in 0 .. N
    OBVIOUS
  <2> HIDE DEF right, N
  <2> QED BY <1>2, <1>3, FromOneBefore
<1>5. N \in 0 .. N /\ 1 .. N = DOMAIN seqs
  OBVIOUS
<1>6. flat[N] \in Seq(E) /\ ToSet(flat[N]) = UNION {ToSet(seqs[n]) : n \in DOMAIN seqs}
  BY <1>1, <1>4, <1>5
<1> QED BY <1>1, <1>6

(* No element of B comes before one of A.                                  *)
InOrder(s, A, B) == \A i, j \in DOMAIN s : s[i] \in A /\ s[j] \in B => i <= j

LEMMA ConcatInOrder ==
    ASSUME NEW E, NEW s \in Seq(E), NEW t \in Seq(E), NEW A, NEW B,
           InOrder(s, A, B), InOrder(t, A, B),
           ToSet(s) \cap B = {} \/ ToSet(t) \cap A = {}
    PROVE  InOrder(s \o t, A, B)
<1> SUFFICES ASSUME NEW i \in DOMAIN (s \o t), NEW j \in DOMAIN (s \o t),
                    (s \o t)[i] \in A, (s \o t)[j] \in B
             PROVE  i <= j
  BY DEF InOrder
<1>1. \A k \in DOMAIN (s \o t) : \/ k \in DOMAIN s /\ (s \o t)[k] = s[k]
                                 \/ /\ k > Len(s) /\ k - Len(s) \in DOMAIN t
                                    /\ (s \o t)[k] = t[k - Len(s)]
  BY ConcatIndices
<1>2. DOMAIN s = 1 .. Len(s) /\ DOMAIN t = 1 .. Len(t) /\ Len(s) \in Nat /\ Len(t) \in Nat
      /\ DOMAIN (s \o t) \subseteq Nat
  BY ConcatIndices
<1>3. CASE i \in DOMAIN s /\ (s \o t)[i] = s[i]
  <2>1. CASE j \in DOMAIN s /\ (s \o t)[j] = s[j]
    BY <1>3, <2>1 DEF InOrder
  <2>2. CASE j > Len(s)
    BY <1>2, <1>3, <2>2
  <2> QED BY <1>1, <2>1, <2>2
<1>4. CASE /\ i > Len(s) /\ i - Len(s) \in DOMAIN t
           /\ (s \o t)[i] = t[i - Len(s)]
  <2>1. ToSet(t) \cap A # {}
    BY <1>4 DEF ToSet
  <2>2. ~ (j \in DOMAIN s /\ (s \o t)[j] = s[j])
    BY <2>1 DEF ToSet
  <2>3. j - Len(s) \in DOMAIN t /\ (s \o t)[j] = t[j - Len(s)]
    BY <1>1, <2>2
  <2>4. i - Len(s) <= j - Len(s)
    BY <1>4, <2>3 DEF InOrder
  <2> QED BY <1>2, <2>4
<1> QED BY <1>1, <1>3, <1>4

(* Order within the parts, and of the parts, is order in the whole.        *)
LEMMA FlattenInOrder ==
    ASSUME NEW E, NEW seqs \in Seq(Seq(E)), NEW A, NEW B,
           \A p \in DOMAIN seqs : InOrder(seqs[p], A, B),
           \A p, q \in DOMAIN seqs : ToSet(seqs[p]) \cap A # {} /\ ToSet(seqs[q]) \cap B # {}
                                         => p <= q
    PROVE  InOrder(FlattenSeq(seqs), A, B)
<1> DEFINE N == Len(seqs)
<1>0. \A n \in 1 .. N : seqs[n] \in Seq(E)
  OBVIOUS
<1>1. PICK flat \in [0 .. N -> Seq(E)] :
          /\ flat[0] = << >>
          /\ \A n \in 1 .. N : flat[n] = flat[n - 1] \o seqs[n]
          /\ FlattenSeq(seqs) = flat[N]
  BY FlattenSteps
<1> DEFINE right == {n \in 0 .. N : /\ ToSet(flat[n]) = UNION {ToSet(seqs[k]) : k \in 1 .. n}
                                    /\ InOrder(flat[n], A, B)}
<1>2. 0 \in right
  BY <1>1 DEF ToSet, InOrder
<1>3. ASSUME NEW n \in 1 .. N, n - 1 \in right
      PROVE  n \in right
  <2>1. n \in 0 .. N /\ n - 1 \in 0 .. N
    OBVIOUS
  <2>2. flat[n] = flat[n - 1] \o seqs[n] /\ flat[n - 1] \in Seq(E) /\ seqs[n] \in Seq(E)
    BY <1>0, <1>1, <2>1
  <2>3. ToSet(flat[n]) = ToSet(flat[n - 1]) \cup ToSet(seqs[n])
    BY <2>2, ToSetConcat
  <2>4. 1 .. n = (1 .. n - 1) \cup {n}
    OBVIOUS
  <2>5. ToSet(flat[n]) = UNION {ToSet(seqs[k]) : k \in 1 .. n}
    BY <1>3, <2>3, <2>4
  <2>6. ToSet(flat[n - 1]) \cap B = {} \/ ToSet(seqs[n]) \cap A = {}
    <3> SUFFICES ASSUME ToSet(flat[n - 1]) \cap B # {}, ToSet(seqs[n]) \cap A # {}
                 PROVE  FALSE
      OBVIOUS
    <3>1. PICK k \in 1 .. n - 1 : ToSet(seqs[k]) \cap B # {}
      BY <1>3
    <3>2. k \in DOMAIN seqs /\ n \in DOMAIN seqs /\ ~ (n <= k)
      BY <2>1
    <3> QED BY <3>1, <3>2
  <2>7. InOrder(flat[n], A, B)
    <3>1. InOrder(flat[n - 1], A, B) /\ InOrder(seqs[n], A, B)
      BY <1>3, <2>1
    <3> QED BY <2>2, <2>6, <3>1, ConcatInOrder
  <2> QED BY <2>1, <2>5, <2>7
<1>4. N \in right
  <2> N \in Nat /\ N \in 0 .. N
    OBVIOUS
  <2> HIDE DEF right, N
  <2> QED BY <1>2, <1>3, FromOneBefore
<1> QED BY <1>1, <1>4
=============================================================================
