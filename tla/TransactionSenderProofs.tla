----------------------- MODULE TransactionSenderProofs -----------------------
(***************************************************************************)
(* Theorems about TransactionSender, for all messages, keys and nestings   *)
(* of savepoints.                                                          *)
(***************************************************************************)
EXTENDS TransactionSender, SequenceFacts, FiniteSetTheorems

-----------------------------------------------------------------------------
(* Only *)

(* The positions of seq that an output stands for, up to n.                *)
Picks(out, seq, some, n) ==
    \E at \in [1 .. Len(out) -> 1 .. n] :
        /\ \A i, j \in 1 .. Len(out) : i < j => at[i] < at[j]
        /\ \A i \in 1 .. Len(out) : out[i] = seq[at[i]] /\ out[i] \in some
        /\ \A k \in 1 .. n : seq[k] \in some => \E i \in 1 .. Len(out) : at[i] = k

(* One turn of the recursion.                                              *)
KeptNext(kept, x, some) == IF x \in some THEN Append(kept, x) ELSE kept
KeptUpTo(f, seq, some) ==
    [n \in 0 .. Len(seq) |->
        IF n = 0 THEN << >>
        ELSE IF seq[n] \in some THEN Append(f[n - 1], seq[n]) ELSE f[n - 1]]

LEMMA OnlySteps ==
    ASSUME NEW E, NEW seq \in Seq(E), NEW some
    PROVE  \E kept \in [0 .. Len(seq) -> Seq(E)] :
               /\ kept[0] = << >>
               /\ \A n \in 1 .. Len(seq) : kept[n] = KeptNext(kept[n - 1], seq[n], some)
               /\ Only(seq, some) = kept[Len(seq)]
<1> DEFINE N == Len(seq)
           step == [p \in Seq(E) \X (1 .. N) |-> KeptNext(p[1], seq[p[2]], some)]
<1>1. step \in Steps(N, Seq(E))
  <2>1. \A n \in 1 .. N : seq[n] \in E
    OBVIOUS
  <2>2. \A p \in Seq(E) \X (1 .. N) : KeptNext(p[1], seq[p[2]], some) \in Seq(E)
    BY <2>1 DEF KeptNext
  <2> QED BY <2>2 DEF Steps
<1>2. PICK g : Follows(g, N, Seq(E), << >>, step)
  <2>1. << >> \in Seq(E) /\ N \in Nat
    OBVIOUS
  <2> HIDE DEF N, step
  <2> QED BY <1>1, <2>1, RecursionDefined
<1>3. g \in [0 .. N -> Seq(E)] /\ g[0] = << >>
  BY <1>2 DEF Follows
<1>4. \A n \in 1 .. N : n - 1 \in 0 .. N /\ g[n] = KeptNext(g[n - 1], seq[n], some)
  <2>1. \A n \in 1 .. N : n - 1 \in 0 .. N /\ g[n - 1] \in Seq(E)
    BY <1>3
  <2> QED BY <1>2, <2>1 DEF Follows
<1>5. g = KeptUpTo(g, seq, some)
  <2>1. \A n \in 0 .. N : n # 0 => n \in 1 .. N
    OBVIOUS
  <2> QED BY <1>3, <1>4, <2>1 DEF KeptUpTo, KeptNext
<1> DEFINE h == CHOOSE f : f = KeptUpTo(f, seq, some)
<1>6. h = KeptUpTo(h, seq, some)
  BY <1>5
<1>7. Only(seq, some) = h[N]
  BY DEF Only, KeptUpTo
<1>8. \A n \in 0 .. N : h[n] = g[n]
  <2> DEFINE same == {n \in 0 .. N : h[n] = g[n]}
  <2> HIDE DEF h
  <2>1. 0 \in same
    BY <1>3, <1>6 DEF KeptUpTo
  <2>2. ASSUME NEW n \in 1 .. N, n - 1 \in same
        PROVE  n \in same
    <3>1. n \in 0 .. N /\ n # 0
      OBVIOUS
    <3>2. h[n] = KeptNext(h[n - 1], seq[n], some)
      BY <1>6, <3>1 DEF KeptUpTo, KeptNext
    <3> QED BY <1>4, <2>2, <3>1, <3>2
  <2>3. 0 .. N \subseteq same
    <3> N \in Nat
      OBVIOUS
    <3> HIDE DEF same, N
    <3> QED BY <2>1, <2>2, FromOneBefore
  <2> QED BY <2>3
<1>9. Only(seq, some) = g[N]
  <2> N \in 0 .. N
    OBVIOUS
  <2> HIDE DEF h
  <2> QED BY <1>7, <1>8
<1> HIDE DEF step, h
<1> QED BY <1>3, <1>4, <1>9

(* What the output is, whatever the input.                                 *)
LEMMA OnlyPicks ==
    ASSUME NEW E, NEW seq \in Seq(E), NEW some
    PROVE  Only(seq, some) \in Seq(E) /\ Picks(Only(seq, some), seq, some, Len(seq))
<1> DEFINE N == Len(seq)
<1>1. PICK kept \in [0 .. N -> Seq(E)] :
          /\ kept[0] = << >>
          /\ \A n \in 1 .. N : kept[n] = KeptNext(kept[n - 1], seq[n], some)
          /\ Only(seq, some) = kept[N]
  BY OnlySteps
<1> DEFINE right == {n \in 0 .. N : Picks(kept[n], seq, some, n)}
<1>2. 0 \in right
  <2> DEFINE at == [i \in 1 .. 0 |-> 1]
  <2>1. kept[0] = << >> /\ Len(<< >>) = 0 /\ 1 .. 0 = {} /\ 0 \in 0 .. N
    BY <1>1
  <2>2. at \in [1 .. 0 -> 1 .. 0]
    BY <2>1
  <2>3. Picks(<< >>, seq, some, 0)
    <3> HIDE DEF at
    <3> QED BY <2>1, <2>2 DEF Picks
  <2> QED BY <2>1, <2>3
<1>3. ASSUME NEW n \in 1 .. N, n - 1 \in right
      PROVE  n \in right
  <2> DEFINE out == kept[n - 1]
  <2>1. n \in 0 .. N /\ n - 1 \in 0 .. N /\ out \in Seq(E) /\ seq[n] \in E
    BY <1>1
  <2>2. PICK at \in [1 .. Len(out) -> 1 .. n - 1] :
            /\ \A i, j \in 1 .. Len(out) : i < j => at[i] < at[j]
            /\ \A i \in 1 .. Len(out) : out[i] = seq[at[i]] /\ out[i] \in some
            /\ \A k \in 1 .. n - 1 : seq[k] \in some => \E i \in 1 .. Len(out) : at[i] = k
    BY <1>3 DEF Picks
  <2>3. kept[n] = KeptNext(out, seq[n], some)
    BY <1>1
  <2>4. \A i \in 1 .. Len(out) : at[i] \in 1 .. n /\ at[i] < n
    BY <2>2
  <2>5. \A k \in 1 .. n : k \in 1 .. n - 1 \/ k = n
    OBVIOUS
  <2> HIDE DEF out
  <2>6. CASE seq[n] \notin some
    <3>1. kept[n] = out
      BY <2>3, <2>6 DEF KeptNext
    <3>2. at \in [1 .. Len(out) -> 1 .. n]
      BY <2>4
    <3>3. \A k \in 1 .. n : seq[k] \in some => \E i \in 1 .. Len(out) : at[i] = k
      BY <2>2, <2>5, <2>6
    <3>4. Picks(out, seq, some, n)
      BY <2>2, <3>2, <3>3 DEF Picks
    <3> QED BY <2>1, <3>1, <3>4
  <2>7. CASE seq[n] \in some
    <3> DEFINE more == Append(out, seq[n])
               at2 == [i \in 1 .. Len(more) |-> IF i = Len(more) THEN n ELSE at[i]]
    <3>1. kept[n] = more
      BY <2>3, <2>7 DEF KeptNext
    <3>2. /\ Len(more) = Len(out) + 1 /\ Len(out) \in Nat
          /\ more[Len(more)] = seq[n]
          /\ \A i \in 1 .. Len(out) : more[i] = out[i]
      BY <2>1
    <3>3. \A i \in 1 .. Len(more) : i \in 1 .. Len(out) \/ i = Len(more)
      BY <3>2
    <3>3a. Len(more) \in 1 .. Len(more) /\ 1 .. Len(out) \subseteq 1 .. Len(more)
           /\ Len(more) \notin 1 .. Len(out)
      BY <3>2
    <3> HIDE DEF more
    <3>4. at2[Len(more)] = n /\ \A i \in 1 .. Len(out) : at2[i] = at[i]
      BY <3>3a
    <3>5. at2 \in [1 .. Len(more) -> 1 .. n]
      <4>1. \A i \in 1 .. Len(more) : at2[i] \in 1 .. n
        BY <2>4, <3>3, <3>4
      <4> QED BY <4>1
    <3> HIDE DEF at2
    <3>6. \A i, j \in 1 .. Len(more) : i < j => at2[i] < at2[j]
      <4>1. \A i, j \in 1 .. Len(more) : i < j => i \in 1 .. Len(out)
        BY <3>2
      <4> QED BY <2>2, <2>4, <3>3, <3>4, <4>1
    <3>7. \A i \in 1 .. Len(more) : more[i] = seq[at2[i]] /\ more[i] \in some
      BY <2>2, <2>7, <3>2, <3>3, <3>4
    <3>8. \A k \in 1 .. n : seq[k] \in some => \E i \in 1 .. Len(more) : at2[i] = k
      BY <2>2, <2>5, <3>3a, <3>4
    <3>9. Picks(more, seq, some, n)
      BY <3>5, <3>6, <3>7, <3>8 DEF Picks
    <3> QED BY <2>1, <3>1, <3>9
  <2> QED BY <2>6, <2>7
<1>4. N \in right
  <2> N \in Nat /\ N \in 0 .. N
    OBVIOUS
  <2> HIDE DEF right, N
  <2> QED BY <1>2, <1>3, FromOneBefore
<1>5. N \in 0 .. N
  OBVIOUS
<1> QED BY <1>1, <1>4, <1>5

(* Nothing is in a sequence twice.                                         *)
Distinct(s) == \A i, j \in DOMAIN s : s[i] = s[j] => i = j

LEMMA OnlyElements ==
    ASSUME NEW E, NEW seq \in Seq(E), NEW some
    PROVE  ToSet(Only(seq, some)) = ToSet(seq) \cap some
<1> DEFINE out == Only(seq, some)
<1>1. out \in Seq(E) /\ Picks(out, seq, some, Len(seq))
  BY OnlyPicks
<1> HIDE DEF out
<1>2. PICK at \in [1 .. Len(out) -> 1 .. Len(seq)] :
          /\ \A i \in 1 .. Len(out) : out[i] = seq[at[i]] /\ out[i] \in some
          /\ \A k \in 1 .. Len(seq) : seq[k] \in some => \E i \in 1 .. Len(out) : at[i] = k
  BY <1>1 DEF Picks
<1>3. DOMAIN out = 1 .. Len(out) /\ DOMAIN seq = 1 .. Len(seq)
  BY <1>1
<1>4. ToSet(out) \subseteq ToSet(seq) \cap some
  BY <1>2, <1>3 DEF ToSet
<1>5. ToSet(seq) \cap some \subseteq ToSet(out)
  BY <1>2, <1>3 DEF ToSet
<1> QED BY <1>4, <1>5 DEF out

LEMMA OnlyInOrder ==
    ASSUME NEW E, NEW seq \in Seq(E), NEW some, NEW A, NEW B, InOrder(seq, A, B)
    PROVE  InOrder(Only(seq, some), A, B)
<1> DEFINE out == Only(seq, some)
<1>1. out \in Seq(E) /\ Picks(out, seq, some, Len(seq))
  BY OnlyPicks
<1> HIDE DEF out
<1>2. PICK at \in [1 .. Len(out) -> 1 .. Len(seq)] :
          /\ \A i, j \in 1 .. Len(out) : i < j => at[i] < at[j]
          /\ \A i \in 1 .. Len(out) : out[i] = seq[at[i]]
  BY <1>1 DEF Picks
<1>3. DOMAIN out = 1 .. Len(out) /\ DOMAIN seq = 1 .. Len(seq)
  BY <1>1
<1>4. ASSUME NEW i \in 1 .. Len(out), NEW j \in 1 .. Len(out), out[i] \in A, out[j] \in B
      PROVE  i <= j
  <2>1. at[i] <= at[j] /\ at[i] \in Nat /\ at[j] \in Nat
    BY <1>2, <1>3, <1>4 DEF InOrder
  <2>2. ~ (j < i)
    BY <1>2, <2>1
  <2> QED BY <2>2
<1> QED BY <1>3, <1>4 DEF InOrder, out

LEMMA OnlyDistinct ==
    ASSUME NEW E, NEW seq \in Seq(E), NEW some, Distinct(seq)
    PROVE  Distinct(Only(seq, some))
<1> DEFINE out == Only(seq, some)
<1>1. out \in Seq(E)
  BY OnlyPicks
<1>2. \A x : InOrder(seq, {x}, {x})
  BY DEF Distinct, InOrder
<1>3. \A x : InOrder(out, {x}, {x})
  BY <1>2, OnlyInOrder
<1> HIDE DEF out
<1>4. DOMAIN out \subseteq Nat
  BY <1>1
<1>5. ASSUME NEW i \in DOMAIN out, NEW j \in DOMAIN out, out[i] = out[j]
      PROVE  i = j
  <2>1. InOrder(out, {out[i]}, {out[i]})
    BY <1>3
  <2>2. i <= j /\ j <= i
    BY <1>5, <2>1 DEF InOrder
  <2> QED BY <1>4, <2>2
<1> QED BY <1>5 DEF Distinct, out

-----------------------------------------------------------------------------
(* Batching *)

(* What the channel layer may be given that has m in it.                   *)
Having(m) == {unit \in Seq(Messages) : m \in ToSet(unit)}

(* What all of some units have in them.                                    *)
Within(units) == UNION {ToSet(units[i]) : i \in DOMAIN units}

LEMMA UnitsFacts ==
    ASSUME NEW items \in Seq(Messages)
    PROVE  /\ Units(items) \in Seq(Seq(Messages))
           /\ Within(Units(items)) = ToSet(items)
           /\ \A m, n : InOrder(items, {m}, {n}) => InOrder(Units(items), Having(m), Having(n))
           /\ \A i \in DOMAIN Units(items) : Len(Units(items)[i]) > 1 =>
                  Units(items)[i] = items /\ Len(items) >= 3 /\ Batchable(items[1])
<1>1. CASE Len(items) < 3 \/ ~Batchable(items[1])
  <2> DEFINE units == [i \in 1 .. Len(items) |-> <<items[i]>>]
  <2>1. Units(items) = units
    BY <1>1 DEF Units
  <2>2. \A i \in 1 .. Len(items) : items[i] \in Messages
    OBVIOUS
  <2>3. \A i \in 1 .. Len(items) : /\ <<items[i]>> \in Seq(Messages) /\ Len(<<items[i]>>) = 1
                                   /\ ToSet(<<items[i]>>) = {items[i]}
    BY <2>2 DEF ToSet
  <2>4. /\ units \in Seq(Seq(Messages)) /\ DOMAIN units = DOMAIN items
        /\ \A i \in DOMAIN units : /\ ToSet(units[i]) = {items[i]}
                                   /\ Len(units[i]) = 1
    BY <2>3
  <2> HIDE DEF units
  <2>5. Within(units) = ToSet(items)
    <3>1. Within(units) = UNION {{items[i]} : i \in DOMAIN items}
      BY <2>4 DEF Within
    <3> QED BY <3>1 DEF ToSet
  <2>6. ASSUME NEW m, NEW n, InOrder(items, {m}, {n})
        PROVE  InOrder(units, Having(m), Having(n))
    BY <2>4, <2>6 DEF InOrder, Having
  <2>7. ASSUME NEW i \in DOMAIN units
        PROVE  ~ (Len(units[i]) > 1)
    <3>1. Len(units[i]) = 1
      BY <2>4
    <3> QED BY <3>1
  <2> QED BY <2>1, <2>4, <2>5, <2>6, <2>7
<1>2. CASE ~(Len(items) < 3 \/ ~Batchable(items[1]))
  <2>1. Units(items) = <<items>>
    BY <1>2 DEF Units
  <2>2. <<items>> \in Seq(Seq(Messages)) /\ DOMAIN <<items>> = {1} /\ <<items>>[1] = items
    OBVIOUS
  <2>3. Within(<<items>>) = ToSet(items)
    BY <2>2 DEF Within
  <2>4. \A A, B : InOrder(<<items>>, A, B)
    BY <2>2 DEF InOrder
  <2>5. Len(items) >= 3
    BY <1>2
  <2> QED BY <1>2, <2>1, <2>2, <2>3, <2>4, <2>5
<1> QED BY <1>1, <1>2

(* The groups of messages with one key, in the order of batch_messages.    *)
Leaders(data) == Only(data, {m \in ToSet(data) : Leads(data, m)})

LEMMA GroupFacts ==
    ASSUME NEW data \in Seq(Messages), NEW m
    PROVE  /\ SameKey(data, m) \in Seq(Messages)
           /\ ToSet(SameKey(data, m)) = {n \in ToSet(data) : GroupKey[n] = GroupKey[m]}
<1>1. ToSet(data) \subseteq Messages
  BY DEF ToSet
<1> QED BY <1>1, OnlyPicks, OnlyElements DEF SameKey, WithKeyOf

LEMMA LeaderFacts ==
    ASSUME NEW data \in Seq(Messages), Distinct(data)
    PROVE  /\ Leaders(data) \in Seq(Messages)
           /\ ToSet(Leaders(data)) \subseteq ToSet(data)
           /\ \A p, q \in DOMAIN Leaders(data) :
                  GroupKey[Leaders(data)[p]] = GroupKey[Leaders(data)[q]] => p = q
           /\ \A m \in ToSet(data) :
                  \E p \in DOMAIN Leaders(data) : GroupKey[Leaders(data)[p]] = GroupKey[m]
<1> DEFINE firsts == {m \in ToSet(data) : Leads(data, m)}
           out == Leaders(data)
<1>1. out \in Seq(Messages) /\ ToSet(out) = firsts /\ Distinct(out)
  <2>1. out \in Seq(Messages) /\ ToSet(out) = ToSet(data) \cap firsts /\ Distinct(out)
    BY OnlyPicks, OnlyElements, OnlyDistinct DEF Leaders
  <2> QED BY <2>1
<1>2. DOMAIN data \subseteq Nat
  OBVIOUS
<1>3. ASSUME NEW m \in firsts, NEW n \in firsts, GroupKey[m] = GroupKey[n]
      PROVE  m = n
  <2>1. PICK i, j \in DOMAIN data : data[i] = m /\ data[j] = n
    BY DEF ToSet
  <2>2. i <= j /\ j <= i
    BY <1>3, <2>1 DEF Leads
  <2> QED BY <1>2, <2>1, <2>2
<1>4. ASSUME NEW m \in ToSet(data)
      PROVE  \E n \in firsts : GroupKey[n] = GroupKey[m]
  <2> DEFINE alike == {i \in DOMAIN data : GroupKey[data[i]] = GroupKey[m]}
  <2>1. alike \in SUBSET Nat /\ alike # {}
    BY <1>2 DEF ToSet
  <2>2. PICK i \in alike : \A k \in alike : i <= k
    <3> HIDE DEF alike
    <3> QED BY <2>1, LeastNumber
  <2>3. Leads(data, data[i])
    <3> SUFFICES ASSUME NEW k \in DOMAIN data, NEW j \in DOMAIN data, data[j] = data[i],
                        GroupKey[data[k]] = GroupKey[data[i]]
                 PROVE  j <= k
      BY DEF Leads
    <3>1. j = i
      BY DEF Distinct
    <3> QED BY <2>2, <3>1
  <2>4. data[i] \in firsts
    BY <2>3 DEF ToSet
  <2> QED BY <2>2, <2>4
<1> HIDE DEF firsts
<1>5. \A p \in DOMAIN out : out[p] \in firsts
  BY <1>1 DEF ToSet
<1>6. \A p, q \in DOMAIN out : GroupKey[out[p]] = GroupKey[out[q]] => p = q
  BY <1>1, <1>3, <1>5 DEF Distinct
<1>7. \A n \in firsts : \E p \in DOMAIN out : out[p] = n
  BY <1>1 DEF ToSet
<1>8. firsts \subseteq ToSet(data)
  BY DEF firsts
<1> QED BY <1>1, <1>4, <1>6, <1>7, <1>8

LEMMA WithinAny ==
    ASSUME NEW units
    PROVE  /\ \A m : m \in Within(units) <=> \E i \in DOMAIN units : m \in ToSet(units[i])
           /\ \A m : m \in Within(units) <=> \E u \in ToSet(units) : m \in ToSet(u)
BY DEF Within, ToSet

LEMMA FlatWithin ==
    ASSUME NEW groups \in Seq(Seq(Seq(Messages)))
    PROVE  Within(FlattenSeq(groups)) = UNION {Within(groups[p]) : p \in DOMAIN groups}
<1> DEFINE flat == FlattenSeq(groups)
<1>1. ToSet(flat) = UNION {ToSet(groups[p]) : p \in DOMAIN groups}
  BY FlattenElements
<1> HIDE DEF flat
<1>2. ASSUME NEW m
      PROVE  m \in Within(flat) <=> \E p \in DOMAIN groups : m \in Within(groups[p])
  <2>1. m \in Within(flat) <=> \E u \in ToSet(flat) : m \in ToSet(u)
    BY WithinAny
  <2>2. \A p \in DOMAIN groups :
            m \in Within(groups[p]) <=> \E u \in ToSet(groups[p]) : m \in ToSet(u)
    BY WithinAny
  <2> QED BY <1>1, <2>1, <2>2
<1> QED BY <1>2 DEF flat

(* What a batch is made of.                                                *)
Batched(data, unit) ==
    /\ Len(unit) >= 3 /\ Batchable(unit[1])
    /\ \E m \in ToSet(data) : unit = SameKey(data, m)

LEMMA BatchFacts ==
    ASSUME NEW data \in Seq(Messages), Distinct(data)
    PROVE  /\ BatchMessages(data) \in Seq(Seq(Messages))
           /\ Within(BatchMessages(data)) = ToSet(data)
           /\ \A m, n : GroupKey[m] = GroupKey[n] /\ InOrder(data, {m}, {n}) =>
                  InOrder(BatchMessages(data), Having(m), Having(n))
           /\ \A u \in ToSet(BatchMessages(data)) : Len(u) > 1 => Batched(data, u)
<1> DEFINE leaders == Leaders(data)
           groups == [i \in 1 .. Len(leaders) |-> Units(SameKey(data, leaders[i]))]
<1>1. /\ leaders \in Seq(Messages)
      /\ ToSet(leaders) \subseteq ToSet(data)
      /\ \A p, q \in DOMAIN leaders : GroupKey[leaders[p]] = GroupKey[leaders[q]] => p = q
      /\ \A m \in ToSet(data) : \E p \in DOMAIN leaders : GroupKey[leaders[p]] = GroupKey[m]
  BY LeaderFacts
<1>2. BatchMessages(data) = FlattenSeq(groups)
  BY DEF BatchMessages, Leaders
<1> HIDE DEF leaders
<1>3. \A p \in 1 .. Len(leaders) : leaders[p] \in ToSet(data) /\ p \in DOMAIN leaders
  BY <1>1 DEF ToSet
<1>4. /\ DOMAIN groups = 1 .. Len(leaders)
      /\ \A p \in DOMAIN groups : groups[p] = Units(SameKey(data, leaders[p]))
  OBVIOUS
<1>5. \A p \in DOMAIN groups :
          /\ SameKey(data, leaders[p]) \in Seq(Messages)
          /\ groups[p] \in Seq(Seq(Messages))
          /\ Within(groups[p]) = {n \in ToSet(data) : GroupKey[n] = GroupKey[leaders[p]]}
  BY <1>4, GroupFacts, UnitsFacts
<1>6. groups \in Seq(Seq(Seq(Messages)))
  <2>1. Len(leaders) \in Nat
    BY <1>1
  <2> QED BY <1>4, <1>5, <2>1
<1> HIDE DEF groups
<1>7. FlattenSeq(groups) \in Seq(Seq(Messages))
  BY <1>6, FlattenElements
<1>8. Within(FlattenSeq(groups)) = ToSet(data)
  <2>1. Within(FlattenSeq(groups)) = UNION {Within(groups[p]) : p \in DOMAIN groups}
    BY <1>6, FlatWithin
  <2>2. ToSet(data) \subseteq UNION {Within(groups[p]) : p \in DOMAIN groups}
    <3>1. ASSUME NEW m \in ToSet(data)
          PROVE  \E p \in DOMAIN groups : m \in Within(groups[p])
      <4>1. PICK p \in DOMAIN leaders : GroupKey[leaders[p]] = GroupKey[m]
        BY <1>1
      <4>2. p \in DOMAIN groups
        BY <1>1, <1>4
      <4> QED BY <1>5, <4>1, <4>2
    <3> QED BY <3>1
  <2>3. \A p \in DOMAIN groups : Within(groups[p]) \subseteq ToSet(data)
    BY <1>5
  <2> QED BY <2>1, <2>2, <2>3
<1>9. ASSUME NEW m, NEW n, GroupKey[m] = GroupKey[n], InOrder(data, {m}, {n})
      PROVE  InOrder(FlattenSeq(groups), Having(m), Having(n))
  <2>1. ASSUME NEW p \in DOMAIN groups
        PROVE  InOrder(groups[p], Having(m), Having(n))
    <3> DEFINE items == SameKey(data, leaders[p])
    <3>1. InOrder(items, {m}, {n})
      BY <1>9, OnlyInOrder DEF SameKey
    <3>2. items \in Seq(Messages) /\ groups[p] = Units(items)
      BY <1>4, <1>5
    <3> HIDE DEF items
    <3> QED BY <3>1, <3>2, UnitsFacts
  <2>2. ASSUME NEW p \in DOMAIN groups, NEW k, ToSet(groups[p]) \cap Having(k) # {}
        PROVE  GroupKey[k] = GroupKey[leaders[p]]
    <3>1. k \in Within(groups[p])
      BY <2>2, WithinAny DEF Having
    <3> QED BY <1>5, <3>1
  <2>3. ASSUME NEW p \in DOMAIN groups, NEW q \in DOMAIN groups,
               ToSet(groups[p]) \cap Having(m) # {}, ToSet(groups[q]) \cap Having(n) # {}
        PROVE  p <= q
    <3>1. p = q
      BY <1>1, <1>3, <1>4, <1>9, <2>2, <2>3
    <3>2. p \in Nat
      BY <1>4
    <3> QED BY <3>1, <3>2
  <2> QED BY <1>6, <2>1, <2>3, FlattenInOrder
<1>10. ASSUME NEW u \in ToSet(FlattenSeq(groups)), Len(u) > 1
       PROVE  Batched(data, u)
  <2>1. PICK p \in DOMAIN groups : u \in ToSet(groups[p])
    BY <1>6, FlattenElements
  <2> DEFINE items == SameKey(data, leaders[p])
  <2>2. items \in Seq(Messages) /\ groups[p] = Units(items)
    BY <1>4, <1>5
  <2>3. u = items /\ Len(items) >= 3 /\ Batchable(items[1])
    <3> HIDE DEF items
    <3> QED BY <1>10, <2>1, <2>2, UnitsFacts DEF ToSet
  <2>4. leaders[p] \in ToSet(data)
    BY <1>3, <1>4
  <2> QED BY <2>3, <2>4 DEF Batched
<1> QED BY <1>2, <1>7, <1>8, <1>9, <1>10

-----------------------------------------------------------------------------
(* What the hooks give to the channel layer *)

LEMMA TransmissionFacts ==
    ASSUME NEW hook \in Hook, Distinct(hook.data)
    PROVE  /\ hook.data \in Seq(Messages)
           /\ Transmissions(hook) \in Seq(Seq(Messages))
           /\ Within(Transmissions(hook)) = ToSet(hook.data)
           /\ \A m, n : GroupKey[m] = GroupKey[n] /\ InOrder(hook.data, {m}, {n}) =>
                  InOrder(Transmissions(hook), Having(m), Having(n))
           /\ \A u \in ToSet(Transmissions(hook)) : Len(u) > 1 =>
                  hook.kind = "sender" /\ Batched(hook.data, u)
<1> DEFINE data == hook.data
<1>1. data \in Seq(Messages)
  BY DEF Hook
<1>2. CASE hook.kind = "sender"
  BY <1>1, <1>2, BatchFacts DEF Transmissions
<1>3. CASE hook.kind # "sender"
  <2> DEFINE units == [i \in 1 .. Len(data) |-> <<data[i]>>]
  <2>1. Transmissions(hook) = units
    BY <1>3 DEF Transmissions
  <2>2. \A i \in 1 .. Len(data) : data[i] \in Messages
    BY <1>1
  <2>3. \A i \in 1 .. Len(data) : /\ <<data[i]>> \in Seq(Messages) /\ Len(<<data[i]>>) = 1
                                  /\ ToSet(<<data[i]>>) = {data[i]}
    BY <2>2 DEF ToSet
  <2>4. /\ units \in Seq(Seq(Messages)) /\ DOMAIN units = DOMAIN data
        /\ \A i \in DOMAIN units : /\ ToSet(units[i]) = {data[i]}
                                   /\ Len(units[i]) = 1
    BY <1>1, <2>3
  <2> HIDE DEF units, data
  <2>5. Within(units) = ToSet(data)
    <3>1. Within(units) = UNION {{data[i]} : i \in DOMAIN data}
      BY <2>4 DEF Within
    <3> QED BY <3>1 DEF ToSet
  <2>6. ASSUME NEW m, NEW n, InOrder(data, {m}, {n})
        PROVE  InOrder(units, Having(m), Having(n))
    BY <2>4, <2>6 DEF InOrder, Having
  <2>7. ASSUME NEW u \in ToSet(units)
        PROVE  ~ (Len(u) > 1)
    <3>1. Len(u) = 1
      BY <2>4 DEF ToSet
    <3> QED BY <3>1
  <2> QED BY <1>1, <2>1, <2>4, <2>5, <2>6, <2>7 DEF data
<1> QED BY <1>2, <1>3

-----------------------------------------------------------------------------
(* The inductive invariant *)

(* Outside a transaction nothing is registered with the connection.        *)
Idle == ~inBlock => hooks = << >> /\ savepoints = << >>

(* What is registered was registered under savepoints that exist by now:   *)
(* a savepoint that is created later does not cover it.                    *)
SidsCreated ==
    /\ \A i \in DOMAIN savepoints : savepoints[i] <= created
    /\ \A i \in DOMAIN hooks : \A sid \in hooks[i].sids : sid <= created

(* No message waits twice.                                                 *)
HeldOnce ==
    /\ \A i \in DOMAIN hooks : Distinct(hooks[i].data)
    /\ \A i, j \in DOMAIN hooks : i # j => ToSet(hooks[i].data) \cap ToSet(hooks[j].data) = {}

OneSender ==
    \A i, j \in DOMAIN hooks : hooks[i].kind = "sender" /\ hooks[j].kind = "sender" => i = j

(* What waits was sent by the application and has not left; whatever open  *)
(* savepoint forgets the callable was open when the message was sent.      *)
HeldScoped ==
    \A i \in DOMAIN hooks : \A m \in ToSet(hooks[i].data) :
        /\ m \in used \ Out
        /\ hooks[i].sids \cap ToSet(savepoints) \subseteq scope[m]
        /\ hooks[i].kind = "internal" => scope[m] = hooks[i].sids /\ m \notin undone

Holding == Idle /\ SidsCreated /\ HeldOnce /\ OneSender /\ HeldScoped /\ Out \subseteq used

LEMMA HeldAny ==
    ASSUME NEW some
    PROVE  \A m : m \in Held(some) <=> \E i \in DOMAIN some : m \in ToSet(some[i].data)
BY DEF Held

LEMMA ElementsIn ==
    ASSUME NEW E, NEW s \in Seq(E)
    PROVE  ToSet(s) \subseteq E
BY DEF ToSet

LEMMA AppendedElements ==
    ASSUME NEW E, NEW s \in Seq(E), NEW e \in E
    PROVE  /\ Append(s, e) \in Seq(E) /\ ToSet(Append(s, e)) = ToSet(s) \cup {e}
           /\ DOMAIN Append(s, e) = DOMAIN s \cup {Len(s) + 1} /\ Len(s) + 1 \notin DOMAIN s
           /\ Append(s, e)[Len(s) + 1] = e
           /\ \A i \in DOMAIN s : Append(s, e)[i] = s[i]
<1>1. /\ Append(s, e) \in Seq(E)
      /\ DOMAIN Append(s, e) = DOMAIN s \cup {Len(s) + 1} /\ Len(s) + 1 \notin DOMAIN s
      /\ Append(s, e)[Len(s) + 1] = e
      /\ \A i \in DOMAIN s : Append(s, e)[i] = s[i]
  OBVIOUS
<1> DEFINE t == Append(s, e)
           last == Len(s) + 1
<1> HIDE DEF t, last
<1>2. DOMAIN t = DOMAIN s \cup {last} /\ t[last] = e /\ \A i \in DOMAIN s : t[i] = s[i]
  BY <1>1 DEF t, last
<1>3. ToSet(t) = ToSet(s) \cup {e}
  BY <1>2 DEF ToSet
<1> QED BY <1>1, <1>3 DEF t

(* The callable with number at is given m: it is the sender, or new.       *)
Given(m, at) ==
    /\ hooks' \in Seq(Hook) /\ at \in Nat
    /\ DOMAIN hooks' = DOMAIN hooks \cup {at}
    /\ \A i \in DOMAIN hooks : i # at => hooks'[i] = hooks[i]
    /\ at \in DOMAIN hooks =>
           /\ hooks[at].kind = "sender"
           /\ hooks'[at].sids = hooks[at].sids /\ hooks'[at].kind = hooks[at].kind
           /\ hooks'[at].data = Append(hooks[at].data, m)
    /\ at \notin DOMAIN hooks =>
           /\ hooks'[at].sids = ToSet(savepoints) /\ hooks'[at].data = <<m>>
           /\ hooks'[at].kind = "sender" => \A i \in DOMAIN hooks : hooks[i].kind # "sender"

LEMMA HookAppended ==
    ASSUME TypeOK, NEW m \in Messages, NEW kind \in {"sender", "internal"},
           kind = "sender" => \A i \in DOMAIN hooks : hooks[i].kind # "sender",
           hooks' = Append(hooks, [sids |-> ToSet(savepoints), kind |-> kind, data |-> <<m>>])
    PROVE  Given(m, Len(hooks) + 1)
<1> DEFINE hook == [sids |-> ToSet(savepoints), kind |-> kind, data |-> <<m>>]
<1>1. hook \in Hook
  <2>1. ToSet(savepoints) \subseteq 1 .. MaxSavepoints
    <3>1. savepoints \in Seq(1 .. MaxSavepoints)
      BY DEF TypeOK
    <3> QED BY <3>1, ElementsIn
  <2>2. <<m>> \in Seq(Messages)
    OBVIOUS
  <2> QED BY <2>1, <2>2 DEF Hook
<1>2. hook.sids = ToSet(savepoints) /\ hook.kind = kind /\ hook.data = <<m>>
  OBVIOUS
<1>3. hooks \in Seq(Hook) /\ Len(hooks) + 1 \in Nat
  BY DEF TypeOK
<1> HIDE DEF hook
<1>4. hooks' = Append(hooks, hook)
  BY DEF hook
<1> QED BY <1>1, <1>2, <1>3, <1>4, AppendedElements DEF Given

LEMMA MessageGiven ==
    ASSUME TypeOK, OneSender, NEW m \in Messages, WebsocketSend(m) \/ InternalSend(m)
    PROVE  \E at : Given(m, at)
<1>1. CASE InternalSend(m)
  BY <1>1, HookAppended DEF InternalSend
<1>2. CASE WebsocketSend(m) /\ ~ \E i \in DOMAIN hooks : hooks[i].kind = "sender"
  BY <1>2, HookAppended DEF WebsocketSend
<1>3. CASE WebsocketSend(m) /\ \E i \in DOMAIN hooks : hooks[i].kind = "sender"
  <2>1. PICK at \in DOMAIN hooks : hooks[at].kind = "sender"
    BY <1>3
  <2>2. \A i \in DOMAIN hooks : hooks[i].kind = "sender" <=> i = at
    BY <2>1 DEF OneSender
  <2>3. hooks' = [i \in DOMAIN hooks |->
                    IF hooks[i].kind = "sender"
                    THEN [hooks[i] EXCEPT !.data = Append(@, m)] ELSE hooks[i]]
    BY <1>3 DEF WebsocketSend
  <2>4. hooks \in Seq(Hook)
    BY DEF TypeOK
  <2> DEFINE hook == [hooks[at] EXCEPT !.data = Append(@, m)]
  <2>5. /\ hook \in Hook
        /\ hook.sids = hooks[at].sids /\ hook.kind = hooks[at].kind
        /\ hook.data = Append(hooks[at].data, m)
    <3>1. hooks[at] \in Hook
      BY <2>1, <2>4
    <3>2. Append(hooks[at].data, m) \in Seq(Messages)
      BY <3>1 DEF Hook
    <3> QED BY <3>1, <3>2 DEF Hook
  <2>6. hooks'[at] = hook
    BY <2>1, <2>3
  <2> HIDE DEF hook
  <2>7. DOMAIN hooks' = DOMAIN hooks /\ \A i \in DOMAIN hooks : i # at => hooks'[i] = hooks[i]
    BY <2>2, <2>3
  <2>8. hooks' \in Seq(Hook)
    <3>1. \A i \in DOMAIN hooks : hooks'[i] \in Hook
      BY <2>4, <2>5, <2>6, <2>7
    <3>2. DOMAIN hooks = 1 .. Len(hooks) /\ Len(hooks) \in Nat
      BY <2>4
    <3>3. hooks' = [i \in 1 .. Len(hooks) |-> hooks'[i]]
      BY <2>3, <3>2
    <3> QED BY <3>1, <3>2, <3>3
  <2>9. at \in Nat
    BY <2>1, <2>4
  <2> QED BY <2>1, <2>5, <2>6, <2>7, <2>8, <2>9 DEF Given
<1> QED BY <1>1, <1>2, <1>3

(* What the callables hold then.                                           *)
LEMMA GivenHeld ==
    ASSUME TypeOK, NEW m \in Messages, NEW at, Given(m, at)
    PROVE  /\ Held(hooks') = Held(hooks) \cup {m}
           /\ \A i \in DOMAIN hooks' :
                  ToSet(hooks'[i].data) =
                      (IF i \in DOMAIN hooks THEN ToSet(hooks[i].data) ELSE {})
                      \cup (IF i = at THEN {m} ELSE {})
<1>1. \A i \in DOMAIN hooks' :
          ToSet(hooks'[i].data) = (IF i \in DOMAIN hooks THEN ToSet(hooks[i].data) ELSE {})
                                  \cup (IF i = at THEN {m} ELSE {})
  <2> SUFFICES ASSUME NEW i \in DOMAIN hooks'
               PROVE  ToSet(hooks'[i].data) =
                          (IF i \in DOMAIN hooks THEN ToSet(hooks[i].data) ELSE {})
                          \cup (IF i = at THEN {m} ELSE {})
    OBVIOUS
  <2>1. CASE i # at
    BY <2>1 DEF Given
  <2>2. CASE i = at /\ i \in DOMAIN hooks
    <3>1. hooks[i].data \in Seq(Messages)
      <4>1. hooks \in Seq(Hook)
        BY DEF TypeOK
      <4>2. hooks[i] \in Hook
        BY <2>2, <4>1
      <4> QED BY <4>2 DEF Hook
    <3>2. hooks'[i].data = Append(hooks[i].data, m)
      BY <2>2 DEF Given
    <3>3. ToSet(Append(hooks[i].data, m)) = ToSet(hooks[i].data) \cup {m}
      BY <3>1, AppendedElements
    <3> QED BY <2>2, <3>2, <3>3
  <2>3. CASE i = at /\ i \notin DOMAIN hooks
    <3>1. hooks'[i].data = <<m>>
      BY <2>3 DEF Given
    <3>2. ToSet(<<m>>) = {m}
      BY DEF ToSet
    <3> QED BY <2>3, <3>1, <3>2
  <2> QED BY <2>1, <2>2, <2>3
<1>2. DOMAIN hooks' = DOMAIN hooks \cup {at}
  BY DEF Given
<1>3. \A n : n \in Held(hooks') <=> n \in Held(hooks) \cup {m}
  BY <1>1, <1>2 DEF Held
<1> QED BY <1>1, <1>3

(* The callables that are kept when a savepoint is rolled back.            *)
LEMMA OnlyEach ==
    ASSUME NEW E, NEW seq \in Seq(E), NEW some
    PROVE  \E at \in [DOMAIN Only(seq, some) -> DOMAIN seq] :
               /\ \A i, j \in DOMAIN Only(seq, some) : at[i] = at[j] => i = j
               /\ \A i \in DOMAIN Only(seq, some) :
                      Only(seq, some)[i] = seq[at[i]] /\ Only(seq, some)[i] \in some
               /\ \A k \in DOMAIN seq : seq[k] \in some =>
                      \E i \in DOMAIN Only(seq, some) : at[i] = k
<1> DEFINE out == Only(seq, some)
<1>1. out \in Seq(E) /\ Picks(out, seq, some, Len(seq))
  BY OnlyPicks
<1> HIDE DEF out
<1>2. DOMAIN seq = 1 .. Len(seq) /\ DOMAIN out = 1 .. Len(out) /\ DOMAIN out \subseteq Nat
  BY <1>1
<1>3. PICK at \in [1 .. Len(out) -> 1 .. Len(seq)] :
          /\ \A i, j \in 1 .. Len(out) : i < j => at[i] < at[j]
          /\ \A i \in 1 .. Len(out) : out[i] = seq[at[i]] /\ out[i] \in some
          /\ \A k \in 1 .. Len(seq) : seq[k] \in some => \E i \in 1 .. Len(out) : at[i] = k
  BY <1>1 DEF Picks
<1>4. ASSUME NEW i \in DOMAIN out, NEW j \in DOMAIN out, at[i] = at[j]
      PROVE  i = j
  <2>1. at[i] \in Nat
    BY <1>2, <1>3
  <2>2. ~(i < j) /\ ~(j < i)
    BY <1>2, <1>3, <1>4, <2>1
  <2> QED BY <1>2, <2>2
<1>5. at \in [DOMAIN out -> DOMAIN seq]
  BY <1>2
<1>6. \E to \in [DOMAIN out -> DOMAIN seq] :
          /\ \A i, j \in DOMAIN out : to[i] = to[j] => i = j
          /\ \A i \in DOMAIN out : out[i] = seq[to[i]] /\ out[i] \in some
          /\ \A k \in DOMAIN seq : seq[k] \in some => \E i \in DOMAIN out : to[i] = k
  <2>1. /\ \A i \in DOMAIN out : out[i] = seq[at[i]] /\ out[i] \in some
        /\ \A k \in DOMAIN seq : seq[k] \in some => \E i \in DOMAIN out : at[i] = k
    BY <1>2, <1>3
  <2> QED BY <1>4, <1>5, <2>1
<1> QED BY <1>6 DEF out

-----------------------------------------------------------------------------
(* The commit *)

Good == Max({n \in 0 .. Len(hooks) : \A i \in 1 .. n : ~Breaks(hooks[i])})
ForLayer == FlattenSeq([i \in 1 .. Good |-> Transmissions(hooks[i])])

(* The callables run up to the first that raises.                          *)
LEMMA GoodFacts ==
    ASSUME TypeOK
    PROVE  /\ Good \in 0 .. Len(hooks)
           /\ \A i \in 1 .. Good : ~Breaks(hooks[i])
           /\ Good < Len(hooks) => Breaks(hooks[Good + 1])
<1> DEFINE S == {n \in 0 .. Len(hooks) : \A i \in 1 .. n : ~Breaks(hooks[i])}
<1>1. Len(hooks) \in Nat
  BY DEF TypeOK
<1>2. 0 \in S
  BY <1>1
<1>3. S \in SUBSET (0 .. Len(hooks))
  OBVIOUS
<1>4. Max(S) \in S /\ \A k \in S : Max(S) >= k
  <2> HIDE DEF S
  <2> QED BY <1>1, <1>2, <1>3, MaxOfNumbers
<1>5. Good = Max(S)
  BY DEF Good
<1>6. ASSUME Good < Len(hooks), ~Breaks(hooks[Good + 1])
      PROVE  FALSE
  <2>1. Good \in 0 .. Len(hooks) /\ \A i \in 1 .. Good : ~Breaks(hooks[i])
    BY <1>4, <1>5
  <2>2. \A i \in 1 .. Good + 1 : i \in 1 .. Good \/ i = Good + 1
    BY <2>1
  <2>3. Good + 1 \in S
    BY <1>1, <1>6, <2>1, <2>2
  <2>4. Good >= Good + 1
    BY <1>4, <1>5, <2>3
  <2> QED BY <2>1, <2>4
<1> QED BY <1>4, <1>5, <1>6

LEMMA SubSeqElements ==
    ASSUME NEW E, NEW s \in Seq(E), NEW a \in Nat, NEW b \in 0 .. Len(s), 1 <= a, a <= b + 1
    PROVE  /\ SubSeq(s, a, b) \in Seq(E)
           /\ DOMAIN SubSeq(s, a, b) = 1 .. (b + 1) - a
           /\ \A i \in DOMAIN SubSeq(s, a, b) :
                  a + (i - 1) \in a .. b /\ SubSeq(s, a, b)[i] = s[a + (i - 1)]
           /\ \A k \in a .. b : /\ (k - a) + 1 \in DOMAIN SubSeq(s, a, b)
                                 /\ SubSeq(s, a, b)[(k - a) + 1] = s[k]
<1>1. b \in Nat /\ b <= Len(s) /\ Len(s) \in Nat
  OBVIOUS
<1>2. /\ SubSeq(s, a, b) \in Seq(E)
      /\ DOMAIN SubSeq(s, a, b) = 1 .. (b + 1) - a
      /\ \A i \in 1 .. (b + 1) - a : SubSeq(s, a, b)[i] = s[a + (i - 1)]
  <2>1. \A i \in 1 .. (b + 1) - a : a + (i - 1) \in 1 .. Len(s)
    BY <1>1
  <2>2. SubSeq(s, a, b) = [i \in 1 .. (b + 1) - a |-> s[a + (i - 1)]]
    BY <1>1, <2>1
  <2>3. (b + 1) - a \in Nat
    BY <1>1
  <2>4. \A i \in 1 .. (b + 1) - a : s[a + (i - 1)] \in E
    BY <2>1
  <2> DEFINE part == [i \in 1 .. (b + 1) - a |-> s[a + (i - 1)]]
  <2>5. DOMAIN part = 1 .. (b + 1) - a /\ \A i \in 1 .. (b + 1) - a : part[i] = s[a + (i - 1)]
    OBVIOUS
  <2>6. part \in Seq(E)
    BY <2>3, <2>4
  <2> HIDE DEF part
  <2> QED BY <2>2, <2>5, <2>6 DEF part
<1>3. \A k \in a .. b : (k - a) + 1 \in 1 .. (b + 1) - a /\ a + (((k - a) + 1) - 1) = k
  BY <1>1
<1>4. \A i \in 1 .. (b + 1) - a : a + (i - 1) \in a .. b
  BY <1>1
<1> QED BY <1>2, <1>3, <1>4

(* What is lost when a callable raises: what it and those after it hold.   *)
LEMMA HeldRest ==
    ASSUME TypeOK
    PROVE  \A m : m \in Held(SubSeq(hooks, Good + 1, Len(hooks))) <=>
                     \E i \in DOMAIN hooks : i > Good /\ m \in ToSet(hooks[i].data)
<1> DEFINE rest == SubSeq(hooks, Good + 1, Len(hooks))
<1>1. hooks \in Seq(Hook) /\ Len(hooks) \in Nat /\ DOMAIN hooks = 1 .. Len(hooks)
  BY DEF TypeOK
<1>2. Good \in 0 .. Len(hooks)
  BY GoodFacts
<1>3. /\ \A i \in DOMAIN rest : \E k \in Good + 1 .. Len(hooks) : rest[i] = hooks[k]
      /\ \A k \in Good + 1 .. Len(hooks) : \E i \in DOMAIN rest : rest[i] = hooks[k]
  <2>1. /\ Good + 1 \in Nat /\ 1 <= Good + 1 /\ Good + 1 <= Len(hooks) + 1
        /\ Len(hooks) \in 0 .. Len(hooks)
    BY <1>1, <1>2
  <2> QED BY <1>1, <2>1, SubSeqElements
<1>4. \A k : k \in Good + 1 .. Len(hooks) <=> k \in DOMAIN hooks /\ k > Good
  BY <1>1, <1>2
<1> HIDE DEF rest
<1>5. \A m : m \in Held(rest) <=> \E i \in DOMAIN rest : m \in ToSet(rest[i].data)
  BY HeldAny
<1> QED BY <1>3, <1>4, <1>5 DEF rest

LEMMA LayerFacts ==
    ASSUME TypeOK, HeldOnce
    PROVE  /\ ForLayer \in Seq(Seq(Messages))
           /\ \A m : m \in Within(ForLayer) <=>
                        \E i \in 1 .. Good : m \in ToSet(hooks[i].data)
           /\ \A i \in 1 .. Good : \A m, n \in ToSet(hooks[i].data) :
                  GroupKey[m] = GroupKey[n] /\ InOrder(hooks[i].data, {m}, {n}) =>
                      InOrder(ForLayer, Having(m), Having(n))
           /\ \A u \in ToSet(ForLayer) : Len(u) > 1 =>
                  \E i \in 1 .. Good : hooks[i].kind = "sender" /\ Batched(hooks[i].data, u)
<1> DEFINE parts == [i \in 1 .. Good |-> Transmissions(hooks[i])]
<1>1. /\ Good \in Nat
      /\ \A i \in 1 .. Good : i \in DOMAIN hooks /\ hooks[i] \in Hook /\ i \in Nat
  <2>1. hooks \in Seq(Hook) /\ Good \in 0 .. Len(hooks)
    BY GoodFacts DEF TypeOK
  <2> QED BY <2>1
<1>2. /\ DOMAIN parts = 1 .. Good /\ \A i \in 1 .. Good : parts[i] = Transmissions(hooks[i])
      /\ ForLayer = FlattenSeq(parts)
  BY DEF ForLayer
<1>3. \A i \in 1 .. Good : Distinct(hooks[i].data)
  BY <1>1 DEF HeldOnce
<1>4. parts \in Seq(Seq(Seq(Messages)))
  <2>1. \A i \in 1 .. Good : Transmissions(hooks[i]) \in Seq(Seq(Messages))
    BY <1>1, <1>3, TransmissionFacts
  <2> QED BY <1>1, <2>1
<1> HIDE DEF parts
<1>5. \A i \in 1 .. Good : Within(parts[i]) = ToSet(hooks[i].data)
  BY <1>1, <1>2, <1>3, TransmissionFacts
<1>6. \A m : m \in Within(FlattenSeq(parts)) <=> \E i \in 1 .. Good : m \in ToSet(hooks[i].data)
  <2>1. Within(FlattenSeq(parts)) = UNION {Within(parts[p]) : p \in DOMAIN parts}
    BY <1>4, FlatWithin
  <2> QED BY <1>2, <1>5, <2>1
<1>7. ASSUME NEW i \in 1 .. Good, NEW m \in ToSet(hooks[i].data), NEW n \in ToSet(hooks[i].data),
             GroupKey[m] = GroupKey[n], InOrder(hooks[i].data, {m}, {n})
      PROVE  InOrder(FlattenSeq(parts), Having(m), Having(n))
  <2>1. ASSUME NEW p \in DOMAIN parts, NEW k \in {m, n}, ToSet(parts[p]) \cap Having(k) # {}
        PROVE  p = i
    <3>1. k \in Within(parts[p])
      BY <2>1, WithinAny DEF Having
    <3>2. k \in ToSet(hooks[p].data) /\ p \in DOMAIN hooks /\ i \in DOMAIN hooks
      BY <1>1, <1>2, <1>5, <3>1
    <3> QED BY <1>7, <2>1, <3>2 DEF HeldOnce
  <2>2. ASSUME NEW p \in DOMAIN parts
        PROVE  InOrder(parts[p], Having(m), Having(n))
    <3>1. CASE p = i
      <4>1. parts[i] = Transmissions(hooks[i])
        BY <1>2
      <4> QED BY <1>1, <1>3, <1>7, <3>1, <4>1, TransmissionFacts
    <3>2. CASE p # i
      <4>1. ToSet(parts[p]) \cap Having(m) = {}
        BY <2>1, <3>2
      <4>2. \A j \in DOMAIN parts[p] : parts[p][j] \notin Having(m)
        BY <4>1 DEF ToSet
      <4> QED BY <4>2 DEF InOrder
    <3> QED BY <3>1, <3>2
  <2>3. ASSUME NEW p \in DOMAIN parts, NEW q \in DOMAIN parts,
               ToSet(parts[p]) \cap Having(m) # {}, ToSet(parts[q]) \cap Having(n) # {}
        PROVE  p <= q
    <3>1. p = i /\ q = i /\ i \in Nat
      BY <1>1, <2>1, <2>3
    <3> QED BY <3>1
  <2> QED BY <1>4, <2>2, <2>3, FlattenInOrder
<1>8. ASSUME NEW u \in ToSet(FlattenSeq(parts)), Len(u) > 1
      PROVE  \E i \in 1 .. Good : hooks[i].kind = "sender" /\ Batched(hooks[i].data, u)
  <2>1. PICK i \in 1 .. Good : u \in ToSet(parts[i])
    <3>1. ToSet(FlattenSeq(parts)) = UNION {ToSet(parts[n]) : n \in DOMAIN parts}
      BY <1>4, FlattenElements
    <3> QED BY <1>2, <1>8, <3>1
  <2>2. u \in ToSet(Transmissions(hooks[i]))
    BY <1>2, <2>1
  <2> QED BY <1>1, <1>3, <1>8, <2>2, TransmissionFacts
<1>9. FlattenSeq(parts) \in Seq(Seq(Messages))
  BY <1>4, FlattenElements
<1> QED BY <1>2, <1>6, <1>7, <1>8, <1>9

(* What has left after more is sent.                                       *)
LEMMA SentMore ==
    ASSUME TypeOK, NEW more \in Seq(Seq(Messages)), sent' = sent \o more
    PROVE  /\ sent' \in Seq(Seq(Messages))
           /\ Out' = Out \cup Within(more)
           /\ Len(sent) \in Nat /\ DOMAIN sent = 1 .. Len(sent)
           /\ \A i \in DOMAIN sent' :
                  \/ i \in DOMAIN sent /\ sent'[i] = sent[i]
                  \/ /\ i \notin DOMAIN sent /\ i - Len(sent) \in DOMAIN more
                     /\ i = Len(sent) + (i - Len(sent))
                     /\ sent'[i] = more[i - Len(sent)]
<1>1. sent \in Seq(Seq(Messages))
  BY DEF TypeOK
<1>2. /\ sent' \in Seq(Seq(Messages))
      /\ ToSet(sent') = ToSet(sent) \cup ToSet(more)
  BY <1>1, ConcatIndices, ToSetConcat
<1>3. Out' = Within(sent') /\ Out = Within(sent)
  BY DEF Out, Within
<1>4. \A m : m \in Within(sent') <=> m \in Within(sent) \cup Within(more)
  BY <1>2, WithinAny
<1>5. \A i \in DOMAIN sent' :
          \/ i \in DOMAIN sent /\ sent'[i] = sent[i]
          \/ i > Len(sent) /\ i - Len(sent) \in DOMAIN more /\ sent'[i] = more[i - Len(sent)]
  BY <1>1, ConcatIndices
<1>6. /\ Len(sent) \in Nat /\ DOMAIN sent = 1 .. Len(sent)
      /\ \A i \in DOMAIN sent' : i \in Nat /\ i = Len(sent) + (i - Len(sent))
      /\ \A i \in DOMAIN sent' : i > Len(sent) => i \notin DOMAIN sent
  BY <1>1, <1>2
<1> QED BY <1>2, <1>3, <1>4, <1>5, <1>6

(* No message is given to the layer twice.                                 *)
LEMMA EachOnce ==
    ASSUME TypeOK, HeldOnce, NEW m \in Within(ForLayer)
    PROVE  InOrder(ForLayer, Having(m), Having(m))
<1>1. PICK i \in 1 .. Good : m \in ToSet(hooks[i].data)
  BY LayerFacts
<1>2. i \in DOMAIN hooks
  <2>1. Good \in 0 .. Len(hooks) /\ Len(hooks) \in Nat /\ DOMAIN hooks = 1 .. Len(hooks)
    BY GoodFacts DEF TypeOK
  <2> QED BY <2>1
<1>3. hooks[i].data \in Seq(Messages)
  <2>1. hooks[i] \in Hook
    BY <1>2 DEF TypeOK
  <2> QED BY <2>1 DEF Hook
<1>4. \A j, k \in DOMAIN hooks[i].data : hooks[i].data[j] = hooks[i].data[k] => j = k /\ j <= k
  BY <1>2, <1>3 DEF HeldOnce, Distinct
<1>5. InOrder(hooks[i].data, {m}, {m})
  BY <1>4 DEF InOrder
<1> QED BY <1>1, <1>5, LayerFacts

(* The first units for the layer, and the rest of them.                    *)
Sending(n)  == SubSeq(ForLayer, 1, n)
Unsent(n)   == UNION {ToSet(ForLayer[i]) : i \in n + 1 .. Len(ForLayer)}

LEMMA SendingFacts ==
    ASSUME TypeOK, HeldOnce, NEW n \in 0 .. Len(ForLayer)
    PROVE  /\ Sending(n) \in Seq(Seq(Messages))
           /\ DOMAIN Sending(n) \subseteq DOMAIN ForLayer
           /\ \A i \in DOMAIN Sending(n) : Sending(n)[i] = ForLayer[i]
           /\ Within(Sending(n)) \cup Unsent(n) = Within(ForLayer)
           /\ Within(Sending(n)) \cap Unsent(n) = {}
           /\ n = Len(ForLayer) => Unsent(n) = {}
           /\ Within(ForLayer) \subseteq Messages
<1> DEFINE first == Sending(n)
           N == Len(ForLayer)
<1>1. ForLayer \in Seq(Seq(Messages))
  BY LayerFacts
<1>2. N \in Nat /\ DOMAIN ForLayer = 1 .. N /\ n \in Nat /\ n <= N
  BY <1>1
<1>3. /\ first \in Seq(Seq(Messages)) /\ DOMAIN first = 1 .. n
      /\ \A i \in 1 .. n : first[i] = ForLayer[i]
  <2>1. /\ SubSeq(ForLayer, 1, n) \in Seq(Seq(Messages))
        /\ DOMAIN SubSeq(ForLayer, 1, n) = 1 .. (n + 1) - 1
        /\ \A i \in 1 .. (n + 1) - 1 : SubSeq(ForLayer, 1, n)[i] = ForLayer[1 + (i - 1)]
    BY <1>1, <1>2, SubSeqElements
  <2>2. (n + 1) - 1 = n /\ \A i \in 1 .. n : 1 + (i - 1) = i
    BY <1>2
  <2> QED BY <2>1, <2>2 DEF Sending
<1> HIDE DEF first, N
<1>4. \A m : m \in Within(first) <=> \E i \in 1 .. n : m \in ToSet(ForLayer[i])
  BY <1>3 DEF Within
<1>5. \A m : m \in Within(ForLayer) <=> \E i \in 1 .. N : m \in ToSet(ForLayer[i])
  BY <1>2 DEF Within
<1>6. \A m : m \in Unsent(n) <=> \E i \in n + 1 .. N : m \in ToSet(ForLayer[i])
  BY DEF Unsent, N
<1>7. \A i : i \in 1 .. N <=> i \in 1 .. n \/ i \in n + 1 .. N
  BY <1>2
<1>8. Within(first) \cup Unsent(n) = Within(ForLayer)
  BY <1>4, <1>5, <1>6, <1>7
<1>9. Within(ForLayer) \subseteq Messages
  <2>1. \A i \in 1 .. N : ForLayer[i] \in Seq(Messages)
    BY <1>1, <1>2
  <2> QED BY <1>5, <2>1, ElementsIn
<1>10. ASSUME NEW m \in Within(first), m \in Unsent(n)
       PROVE  FALSE
  <2>1. PICK i \in 1 .. n : m \in ToSet(ForLayer[i])
    BY <1>4, <1>10
  <2>2. PICK j \in n + 1 .. N : m \in ToSet(ForLayer[j])
    BY <1>6, <1>10
  <2>3. /\ i \in DOMAIN ForLayer /\ j \in DOMAIN ForLayer /\ ~(j <= i)
        /\ ForLayer[i] \in Having(m) /\ ForLayer[j] \in Having(m)
    BY <1>1, <1>2, <2>1, <2>2 DEF Having
  <2>4. InOrder(ForLayer, Having(m), Having(m))
    BY <1>8, <1>10, EachOnce
  <2> QED BY <2>3, <2>4 DEF InOrder
<1>11. n = N => Unsent(n) = {}
  <2>1. n = N => n + 1 .. N = {}
    BY <1>2
  <2> QED BY <1>6, <2>1
<1>12. DOMAIN first \subseteq DOMAIN ForLayer
  BY <1>2, <1>3
<1> QED BY <1>3, <1>8, <1>9, <1>10, <1>11, <1>12 DEF first, N

LEMMA FrontFacts ==
    ASSUME NEW E, NEW s \in Seq(E), s # << >>
    PROVE  /\ Front(s) \in Seq(E) /\ ToSet(Front(s)) \subseteq ToSet(s)
           /\ Last(s) \in ToSet(s)
           /\ DOMAIN Front(s) \subseteq DOMAIN s
           /\ \A i \in DOMAIN Front(s) : Front(s)[i] = s[i]
<1>1. Len(s) \in Nat /\ Len(s) >= 1 /\ DOMAIN s = 1 .. Len(s) /\ Len(s) - 1 \in 0 .. Len(s)
  OBVIOUS
<1> DEFINE t == Front(s)
<1>2. /\ t \in Seq(E) /\ DOMAIN t = 1 .. Len(s) - 1
      /\ \A i \in DOMAIN t : t[i] = s[i]
  <2>1. /\ SubSeq(s, 1, Len(s) - 1) \in Seq(E)
        /\ DOMAIN SubSeq(s, 1, Len(s) - 1) = 1 .. ((Len(s) - 1) + 1) - 1
        /\ \A i \in DOMAIN SubSeq(s, 1, Len(s) - 1) :
               SubSeq(s, 1, Len(s) - 1)[i] = s[1 + (i - 1)]
    BY <1>1, SubSeqElements
  <2>2. ((Len(s) - 1) + 1) - 1 = Len(s) - 1 /\ \A i \in 1 .. Len(s) - 1 : 1 + (i - 1) = i
    BY <1>1
  <2> QED BY <2>1, <2>2 DEF Front
<1> HIDE DEF t
<1>3. DOMAIN t \subseteq DOMAIN s
  BY <1>1, <1>2
<1>4. ToSet(t) \subseteq ToSet(s)
  BY <1>2, <1>3 DEF ToSet
<1>5. Last(s) \in ToSet(s)
  BY <1>1 DEF Last, ToSet
<1> QED BY <1>2, <1>3, <1>4, <1>5 DEF t

-----------------------------------------------------------------------------
(* The invariant is inductive *)

(* The steps that leave alone what is held and what was sent.              *)
Quiet == Begin \/ Savepoint \/ Release \/ UNCHANGED vars

LEMMA NextCases ==
    ASSUME [Next]_vars
    PROVE  \/ Quiet \/ RollbackSavepoint \/ Commit \/ Rollback
           \/ \E m \in Messages : SendAtOnce(m) \/ WebsocketSend(m) \/ InternalSend(m)
BY DEF Next, Quiet

LEMMA SavepointsStep ==
    ASSUME TypeOK, Idle, SidsCreated, Quiet \/ RollbackSavepoint
    PROVE  /\ inBlock' \in BOOLEAN
           /\ savepoints' \in Seq(1 .. MaxSavepoints)
           /\ created' \in 0 .. MaxSavepoints
           /\ inBlock => inBlock'
           /\ ~inBlock' => savepoints' = << >>
           /\ inBlock => created <= created'
           /\ \A i \in DOMAIN savepoints' : savepoints'[i] <= created'
           /\ \A sid \in ToSet(savepoints') \ ToSet(savepoints) : sid > created
<1>0. /\ MaxSavepoints \in Nat /\ created \in 0 .. MaxSavepoints /\ inBlock \in BOOLEAN
      /\ savepoints \in Seq(1 .. MaxSavepoints)
  BY SenderAssumption DEF TypeOK
<1>1. CASE Begin \/ UNCHANGED vars
  <2>1. savepoints' = savepoints
    BY <1>1 DEF Begin, vars
  <2>2. CASE UNCHANGED vars
    BY <1>0, <2>1, <2>2 DEF vars, Idle, SidsCreated
  <2>3. CASE Begin
    <3>1. ~inBlock /\ inBlock' /\ created' = 0 /\ savepoints = << >>
      BY <2>3 DEF Begin, Idle
    <3> QED BY <1>0, <2>1, <3>1
  <2> QED BY <1>1, <2>2, <2>3
<1>2. CASE Savepoint
  <2>1. /\ inBlock /\ inBlock' = inBlock /\ created < MaxSavepoints
        /\ created' = created + 1 /\ savepoints' = Append(savepoints, created + 1)
    BY <1>2 DEF Savepoint
  <2>2. created + 1 \in 1 .. MaxSavepoints
    BY <1>0, <2>1
  <2>3. /\ savepoints' \in Seq(1 .. MaxSavepoints)
        /\ ToSet(savepoints') = ToSet(savepoints) \cup {created + 1}
        /\ DOMAIN savepoints' = DOMAIN savepoints \cup {Len(savepoints) + 1}
        /\ savepoints'[Len(savepoints) + 1] = created + 1
        /\ \A i \in DOMAIN savepoints : savepoints'[i] = savepoints[i]
    BY <1>0, <2>1, <2>2, AppendedElements
  <2>4. \A i \in DOMAIN savepoints : savepoints[i] \in Nat
    BY <1>0
  <2> QED BY <1>0, <2>1, <2>2, <2>3, <2>4 DEF SidsCreated
<1>3. CASE Release \/ RollbackSavepoint
  <2>1. /\ savepoints # << >> /\ savepoints' = Front(savepoints)
        /\ inBlock' = inBlock /\ created' = created
    BY <1>3 DEF Release, RollbackSavepoint
  <2>2. inBlock
    BY <1>0, <2>1 DEF Idle
  <2>3. /\ savepoints' \in Seq(1 .. MaxSavepoints) /\ ToSet(savepoints') \subseteq ToSet(savepoints)
        /\ DOMAIN savepoints' \subseteq DOMAIN savepoints
        /\ \A i \in DOMAIN savepoints' : savepoints'[i] = savepoints[i]
    BY <1>0, <2>1, FrontFacts
  <2> QED BY <1>0, <2>1, <2>2, <2>3 DEF SidsCreated
<1> QED BY <1>1, <1>2, <1>3 DEF Quiet

LEMMA CommitSends ==
    ASSUME Commit
    PROVE  \E n \in 0 .. Len(ForLayer) :
               /\ n < Len(ForLayer) => SendMayFail
               /\ sent' = sent \o Sending(n)
               /\ lost' = lost \cup Held(SubSeq(hooks, Good + 1, Len(hooks))) \cup Unsent(n)
BY DEF Commit, Good, ForLayer, Sending, Unsent

(* What waits is given to the layer, or lost with a callable that raises.  *)
LEMMA HeldSplit ==
    ASSUME TypeOK, HeldOnce
    PROVE  /\ Waiting = Within(ForLayer) \cup Held(SubSeq(hooks, Good + 1, Len(hooks)))
           /\ Within(ForLayer) \cap Held(SubSeq(hooks, Good + 1, Len(hooks))) = {}
<1> DEFINE rest == Held(SubSeq(hooks, Good + 1, Len(hooks)))
<1>1. /\ Good \in 0 .. Len(hooks) /\ Len(hooks) \in Nat /\ DOMAIN hooks = 1 .. Len(hooks)
  BY GoodFacts DEF TypeOK
<1>2. /\ \A i : i \in DOMAIN hooks <=> i \in 1 .. Good \/ (i \in DOMAIN hooks /\ i > Good)
      /\ \A i \in 1 .. Good : i \in DOMAIN hooks /\ ~(i > Good)
  BY <1>1
<1>3. \A m : m \in rest <=> \E i \in DOMAIN hooks : i > Good /\ m \in ToSet(hooks[i].data)
  BY HeldRest
<1>4. \A m : m \in Within(ForLayer) <=> \E i \in 1 .. Good : m \in ToSet(hooks[i].data)
  BY LayerFacts
<1>5. \A m : m \in Waiting <=> \E i \in DOMAIN hooks : m \in ToSet(hooks[i].data)
  BY HeldAny DEF Waiting
<1> HIDE DEF rest
<1>6. \A m : m \in Waiting <=> m \in Within(ForLayer) \/ m \in rest
  BY <1>2, <1>3, <1>4, <1>5
<1>7. ASSUME NEW m \in Within(ForLayer), m \in rest
      PROVE  FALSE
  <2>1. PICK i \in 1 .. Good : m \in ToSet(hooks[i].data)
    BY <1>4, <1>7
  <2>2. PICK j \in DOMAIN hooks : j > Good /\ m \in ToSet(hooks[j].data)
    BY <1>3, <1>7
  <2>3. i \in DOMAIN hooks /\ i # j
    BY <1>2, <2>2
  <2> QED BY <2>1, <2>2, <2>3 DEF HeldOnce
<1> QED BY <1>6, <1>7 DEF rest

(* What waits was sent by the application, and has not left.               *)
LEMMA WaitingScoped ==
    ASSUME HeldScoped
    PROVE  Waiting \subseteq used \ Out
BY DEF HeldScoped, Waiting, Held

LEMMA TypeStep ==
    ASSUME TypeOK, Holding, [Next]_vars
    PROVE  TypeOK'
<1>0. /\ MaxSavepoints \in Nat /\ inBlock \in BOOLEAN /\ created \in 0 .. MaxSavepoints
      /\ savepoints \in Seq(1 .. MaxSavepoints)
      /\ hooks \in Seq(Hook) /\ sent \in Seq(Seq(Messages))
      /\ scope \in [Messages -> SUBSET (1 .. MaxSavepoints)]
      /\ used \subseteq Messages /\ undone \subseteq used /\ lost \subseteq used
  BY SenderAssumption DEF TypeOK
<1>1. TypeOK /\ Idle /\ SidsCreated /\ HeldOnce /\ OneSender /\ HeldScoped
  BY DEF Holding
<1>1a. Waiting \subseteq used
  BY <1>1, WaitingScoped
<1>1b. /\ 0 \in 0 .. MaxSavepoints /\ << >> \in Seq(Hook)
       /\ [m \in Messages |-> {}] \in [Messages -> SUBSET (1 .. MaxSavepoints)]
  BY <1>0
<1>2. CASE Quiet
  <2>1. UNCHANGED <<hooks, sent, scope, used, undone, lost>>
    BY <1>2 DEF Quiet, Begin, Savepoint, Release, vars
  <2>2. /\ inBlock' \in BOOLEAN /\ savepoints' \in Seq(1 .. MaxSavepoints)
        /\ created' \in 0 .. MaxSavepoints
    BY <1>1, <1>2, SavepointsStep
  <2> QED BY <1>0, <2>1, <2>2 DEF TypeOK
<1>3. CASE RollbackSavepoint
  <2>1. UNCHANGED <<sent, scope, used, lost>> /\ undone' \subseteq used
    BY <1>0, <1>3 DEF RollbackSavepoint
  <2>2. /\ inBlock' \in BOOLEAN /\ savepoints' \in Seq(1 .. MaxSavepoints)
        /\ created' \in 0 .. MaxSavepoints
    BY <1>1, <1>3, SavepointsStep
  <2>3. hooks' \in Seq(Hook)
    BY <1>0, <1>3, OnlyPicks DEF RollbackSavepoint
  <2> QED BY <1>0, <2>1, <2>2, <2>3 DEF TypeOK
<1>4. CASE Commit
  <2>1. PICK n \in 0 .. Len(ForLayer) :
            /\ sent' = sent \o Sending(n)
            /\ lost' = lost \cup Held(SubSeq(hooks, Good + 1, Len(hooks))) \cup Unsent(n)
    BY <1>4, CommitSends
  <2>2. sent' \in Seq(Seq(Messages))
    BY <1>1, <2>1, SendingFacts, SentMore
  <2>3. Unsent(n) \cup Held(SubSeq(hooks, Good + 1, Len(hooks))) \subseteq Waiting
    BY <1>1, SendingFacts, HeldSplit
  <2>4. /\ inBlock' = FALSE /\ hooks' = << >> /\ scope' = [m \in Messages |-> {}]
        /\ created' = 0 /\ UNCHANGED <<savepoints, used, undone>>
    BY <1>4 DEF Commit
  <2>5. lost' \subseteq used
    BY <1>0, <1>1a, <2>1, <2>3
  <2> QED BY <1>0, <1>1b, <2>2, <2>4, <2>5 DEF TypeOK
<1>5. CASE Rollback
  <2>1. /\ inBlock' = FALSE /\ hooks' = << >> /\ scope' = [m \in Messages |-> {}]
        /\ undone' = undone \cup Waiting
        /\ created' = 0 /\ UNCHANGED <<savepoints, sent, used, lost>>
    BY <1>5 DEF Rollback
  <2>2. undone' \subseteq used
    BY <1>0, <1>1a, <2>1
  <2> QED BY <1>0, <1>1b, <2>1, <2>2 DEF TypeOK
<1>6. ASSUME NEW m \in Messages, SendAtOnce(m)
      PROVE  TypeOK'
  <2>1. /\ used' = used \cup {m} /\ sent' = Append(sent, <<m>>)
        /\ UNCHANGED <<inBlock, savepoints, created, hooks, scope, undone, lost>>
    BY <1>6 DEF SendAtOnce
  <2>2. sent' \in Seq(Seq(Messages))
    BY <1>0, <2>1
  <2> QED BY <1>0, <2>1, <2>2 DEF TypeOK
<1>7. ASSUME NEW m \in Messages, WebsocketSend(m) \/ InternalSend(m)
      PROVE  TypeOK'
  <2>1. /\ used' = used \cup {m} /\ scope' = [scope EXCEPT ![m] = ToSet(savepoints)]
        /\ UNCHANGED <<inBlock, savepoints, created, sent, undone, lost>>
    BY <1>7 DEF WebsocketSend, InternalSend, Use
  <2>2. hooks' \in Seq(Hook)
    BY <1>1, <1>7, MessageGiven DEF Given
  <2>3. ToSet(savepoints) \subseteq 1 .. MaxSavepoints
    BY <1>0, ElementsIn
  <2>4. scope' \in [Messages -> SUBSET (1 .. MaxSavepoints)]
    BY <1>0, <2>1, <2>3
  <2> QED BY <1>0, <2>1, <2>2, <2>4 DEF TypeOK
<1> QED BY <1>2, <1>3, <1>4, <1>5, <1>6, <1>7, NextCases

LEMMA AtOnceSent ==
    ASSUME TypeOK, NEW m \in Messages, SendAtOnce(m)
    PROVE  /\ Out' = Out \cup {m}
           /\ DOMAIN sent' = DOMAIN sent \cup {Len(sent) + 1} /\ Len(sent) + 1 \notin DOMAIN sent
           /\ sent'[Len(sent) + 1] = <<m>>
           /\ \A i \in DOMAIN sent : sent'[i] = sent[i]
<1>1. sent' = Append(sent, <<m>>) /\ <<m>> \in Seq(Messages) /\ ToSet(<<m>>) = {m}
  BY DEF SendAtOnce, ToSet
<1>2. sent \in Seq(Seq(Messages))
  BY DEF TypeOK
<1>3. /\ ToSet(sent') = ToSet(sent) \cup {<<m>>}
      /\ DOMAIN sent' = DOMAIN sent \cup {Len(sent) + 1} /\ Len(sent) + 1 \notin DOMAIN sent
      /\ sent'[Len(sent) + 1] = <<m>>
      /\ \A i \in DOMAIN sent : sent'[i] = sent[i]
  <2> DEFINE unit == <<m>>
             units == Seq(Messages)
  <2>1. unit \in units /\ sent \in Seq(units) /\ sent' = Append(sent, unit)
    BY <1>1, <1>2
  <2> HIDE DEF unit, units
  <2>2. /\ ToSet(sent') = ToSet(sent) \cup {unit}
        /\ DOMAIN sent' = DOMAIN sent \cup {Len(sent) + 1} /\ Len(sent) + 1 \notin DOMAIN sent
        /\ sent'[Len(sent) + 1] = unit
        /\ \A i \in DOMAIN sent : sent'[i] = sent[i]
    BY <2>1, AppendedElements
  <2> QED BY <2>2 DEF unit
<1>4. \A n : /\ n \in Within(sent') <=> \E u \in ToSet(sent') : n \in ToSet(u)
             /\ n \in Within(sent) <=> \E u \in ToSet(sent) : n \in ToSet(u)
  BY WithinAny
<1>5. \A n : n \in Within(sent') <=> n \in Within(sent) \cup {m}
  BY <1>1, <1>3, <1>4
<1>6. Out' = Within(sent') /\ Out = Within(sent)
  BY DEF Out, Within
<1> QED BY <1>3, <1>5, <1>6

LEMMA HoldingQuiet ==
    ASSUME TypeOK, Holding, Quiet
    PROVE  Holding'
<1>1. Idle /\ SidsCreated /\ HeldOnce /\ OneSender /\ HeldScoped /\ Out \subseteq used
  BY DEF Holding
<1>2. UNCHANGED <<hooks, sent, scope, used, undone>>
  BY DEF Quiet, Begin, Savepoint, Release, vars
<1>3. Out' = Out
  BY <1>2 DEF Out
<1>4. HeldOnce' /\ OneSender' /\ (Out \subseteq used)'
  BY <1>1, <1>2, <1>3 DEF HeldOnce, OneSender
<1>5. /\ inBlock => inBlock' /\ created <= created'
      /\ ~inBlock' => savepoints' = << >>
      /\ \A i \in DOMAIN savepoints' : savepoints'[i] <= created'
      /\ \A sid \in ToSet(savepoints') \ ToSet(savepoints) : sid > created
  BY <1>1, SavepointsStep
<1>6. /\ created \in Nat /\ created' \in Nat
      /\ \A i \in DOMAIN hooks : hooks[i].sids \subseteq Nat
  <2>1. created \in Nat
    BY SenderAssumption DEF TypeOK
  <2>2. created' \in Nat
    BY <1>1, SavepointsStep, SenderAssumption
  <2>3. \A i \in DOMAIN hooks : hooks[i] \in Hook
    BY DEF TypeOK
  <2>4. 1 .. MaxSavepoints \subseteq Nat
    OBVIOUS
  <2> QED BY <2>1, <2>2, <2>3, <2>4 DEF Hook
<1>7. Idle'
  BY <1>1, <1>2, <1>5 DEF Idle
<1>8. SidsCreated'
  <2>1. \A i \in DOMAIN hooks : inBlock
    BY <1>1 DEF Idle
  <2>2. \A i \in DOMAIN hooks : \A sid \in hooks[i].sids : sid <= created'
    BY <1>1, <1>5, <1>6, <2>1 DEF SidsCreated
  <2> QED BY <1>2, <1>5, <2>2 DEF SidsCreated
<1>9. HeldScoped'
  <2> SUFFICES ASSUME NEW i \in DOMAIN hooks, NEW m \in ToSet(hooks[i].data)
               PROVE  hooks[i].sids \cap ToSet(savepoints') \subseteq scope[m]
    BY <1>1, <1>2, <1>3 DEF HeldScoped
  <2>1. \A sid \in hooks[i].sids : ~(sid > created)
    BY <1>1, <1>6 DEF SidsCreated
  <2>2. hooks[i].sids \cap ToSet(savepoints) \subseteq scope[m]
    BY <1>1 DEF HeldScoped
  <2> QED BY <1>5, <2>1, <2>2
<1> QED BY <1>4, <1>7, <1>8, <1>9 DEF Holding

LEMMA HoldingRollbackSavepoint ==
    ASSUME TypeOK, Holding, RollbackSavepoint
    PROVE  Holding'
<1>1. Idle /\ SidsCreated /\ HeldOnce /\ OneSender /\ HeldScoped /\ Out \subseteq used
  BY DEF Holding
<1> DEFINE sid == Last(savepoints)
           some == {h \in ToSet(hooks) : sid \notin h.sids}
<1>2. /\ hooks' = Only(hooks, some)
      /\ undone' = undone \cup {m \in used : sid \in scope[m]}
      /\ savepoints # << >> /\ savepoints' = Front(savepoints)
      /\ UNCHANGED <<inBlock, created, sent, scope, used>>
  BY DEF RollbackSavepoint
<1>3. PICK at \in [DOMAIN hooks' -> DOMAIN hooks] :
          /\ \A i, j \in DOMAIN hooks' : at[i] = at[j] => i = j
          /\ \A i \in DOMAIN hooks' : hooks'[i] = hooks[at[i]] /\ hooks'[i] \in some
  <2>1. hooks \in Seq(Hook)
    BY DEF TypeOK
  <2> HIDE DEF some
  <2> QED BY <1>2, <2>1, OnlyEach
<1>4. \A i \in DOMAIN hooks' : /\ hooks'[i] = hooks[at[i]] /\ at[i] \in DOMAIN hooks
                               /\ sid \notin hooks'[i].sids
  BY <1>3
<1> HIDE DEF sid, some
<1>5. Out' = Out
  BY <1>2 DEF Out
<1>6. inBlock /\ \A i \in DOMAIN savepoints' : savepoints'[i] <= created'
  BY <1>1, <1>2, SavepointsStep DEF Idle
<1>7. Idle'
  BY <1>2, <1>6 DEF Idle
<1>8. SidsCreated'
  BY <1>1, <1>2, <1>4, <1>6 DEF SidsCreated
<1>9. HeldOnce' /\ OneSender'
  <2>1. HeldOnce'
    BY <1>1, <1>3, <1>4 DEF HeldOnce
  <2>2. OneSender'
    BY <1>1, <1>3, <1>4 DEF OneSender
  <2> QED BY <2>1, <2>2
<1>10. HeldScoped'
  <2> SUFFICES ASSUME NEW i \in DOMAIN hooks', NEW m \in ToSet(hooks'[i].data)
               PROVE  /\ m \in used \ Out
                      /\ hooks'[i].sids \cap ToSet(savepoints') \subseteq scope[m]
                      /\ hooks'[i].kind = "internal" =>
                             scope[m] = hooks'[i].sids /\ m \notin undone'
    BY <1>2, <1>5 DEF HeldScoped
  <2>1. /\ m \in used \ Out
        /\ hooks'[i].sids \cap ToSet(savepoints) \subseteq scope[m]
        /\ hooks'[i].kind = "internal" => scope[m] = hooks'[i].sids /\ m \notin undone
    BY <1>1, <1>4 DEF HeldScoped
  <2>2. ToSet(savepoints') \subseteq ToSet(savepoints)
    <3>1. savepoints \in Seq(1 .. MaxSavepoints)
      BY DEF TypeOK
    <3> QED BY <1>2, <3>1, FrontFacts
  <2>3. hooks'[i].kind = "internal" => m \notin undone'
    BY <1>2, <1>4, <2>1
  <2> QED BY <2>1, <2>2, <2>3
<1> QED BY <1>1, <1>2, <1>5, <1>7, <1>8, <1>9, <1>10 DEF Holding

LEMMA HoldingEnds ==
    ASSUME TypeOK, Holding, Commit \/ Rollback
    PROVE  Holding'
<1>1. Idle /\ SidsCreated /\ HeldOnce /\ OneSender /\ HeldScoped /\ Out \subseteq used
  BY DEF Holding
<1>2. hooks' = << >> /\ savepoints' = << >> /\ used' = used
  BY DEF Commit, Rollback
<1>3. DOMAIN hooks' = {} /\ DOMAIN savepoints' = {}
  BY <1>2
<1>4. Idle' /\ SidsCreated' /\ HeldOnce' /\ OneSender' /\ HeldScoped'
  <2>1. Idle'
    BY <1>2 DEF Idle
  <2>2. SidsCreated' /\ HeldOnce' /\ OneSender' /\ HeldScoped'
    BY <1>3 DEF SidsCreated, HeldOnce, OneSender, HeldScoped
  <2> QED BY <2>1, <2>2
<1>5. Out' \subseteq used'
  <2>1. CASE Rollback
    <3>1. Out' = Out
      BY <2>1 DEF Rollback, Out
    <3> QED BY <1>1, <1>2, <3>1
  <2>2. CASE Commit
    <3>1. PICK n \in 0 .. Len(ForLayer) : sent' = sent \o Sending(n)
      BY <2>2, CommitSends
    <3>2. /\ Sending(n) \in Seq(Seq(Messages))
          /\ Within(Sending(n)) \subseteq Within(ForLayer)
      BY <1>1, SendingFacts
    <3>3. Out' = Out \cup Within(Sending(n))
      BY <3>1, <3>2, SentMore
    <3>4. Within(ForLayer) \subseteq used
      BY <1>1, HeldSplit, WaitingScoped
    <3> QED BY <1>1, <1>2, <3>2, <3>3, <3>4
  <2> QED BY <2>1, <2>2
<1> QED BY <1>4, <1>5 DEF Holding

LEMMA HoldingAtOnce ==
    ASSUME TypeOK, Holding, NEW m \in Messages, SendAtOnce(m)
    PROVE  Holding'
<1>1. Idle /\ SidsCreated /\ HeldOnce /\ OneSender /\ HeldScoped /\ Out \subseteq used
  BY DEF Holding
<1>2. /\ m \notin used /\ used' = used \cup {m}
      /\ UNCHANGED <<inBlock, savepoints, created, hooks, scope, undone>>
  BY DEF SendAtOnce
<1>3. Out' = Out \cup {m}
  BY AtOnceSent
<1>4. Idle' /\ SidsCreated' /\ HeldOnce' /\ OneSender' /\ Out' \subseteq used'
  BY <1>1, <1>2, <1>3 DEF Idle, SidsCreated, HeldOnce, OneSender
<1>5. HeldScoped'
  <2>1. \A i \in DOMAIN hooks : \A n \in ToSet(hooks[i].data) : n # m /\ n \in used' \ Out'
    BY <1>1, <1>2, <1>3 DEF HeldScoped
  <2> QED BY <1>1, <1>2, <2>1 DEF HeldScoped
<1> QED BY <1>4, <1>5 DEF Holding

LEMMA HoldingGiven ==
    ASSUME TypeOK, Holding, NEW m \in Messages, WebsocketSend(m) \/ InternalSend(m)
    PROVE  Holding'
<1>1. Idle /\ SidsCreated /\ HeldOnce /\ OneSender /\ HeldScoped /\ Out \subseteq used
  BY DEF Holding
<1>2. /\ inBlock /\ m \notin used /\ used' = used \cup {m}
      /\ scope' = [scope EXCEPT ![m] = ToSet(savepoints)]
      /\ UNCHANGED <<inBlock, savepoints, created, sent, undone>>
  BY DEF WebsocketSend, InternalSend, Use
<1>3. PICK at : Given(m, at)
  BY <1>1, MessageGiven
<1>4. \A i \in DOMAIN hooks' :
          ToSet(hooks'[i].data) = (IF i \in DOMAIN hooks THEN ToSet(hooks[i].data) ELSE {})
                                  \cup (IF i = at THEN {m} ELSE {})
  BY <1>3, GivenHeld
<1>5. \A i \in DOMAIN hooks : m \notin ToSet(hooks[i].data)
  BY <1>1, <1>2 DEF HeldScoped
<1>6. Out' = Out
  BY <1>2 DEF Out
<1>7. DOMAIN hooks' = DOMAIN hooks \cup {at}
  BY <1>3 DEF Given
<1>8. Idle'
  BY <1>2 DEF Idle
<1>9. SidsCreated'
  <2>1. \A sid \in ToSet(savepoints) : sid <= created
    BY <1>1 DEF SidsCreated, ToSet
  <2>2. ASSUME NEW i \in DOMAIN hooks'
        PROVE  (i \in DOMAIN hooks /\ hooks'[i].sids = hooks[i].sids)
               \/ hooks'[i].sids = ToSet(savepoints)
    BY <1>3, <1>7, <2>2 DEF Given
  <2> QED BY <1>1, <1>2, <2>1, <2>2 DEF SidsCreated
<1>10. HeldOnce'
  <2>1. \A i, j \in DOMAIN hooks' : i # j => ToSet(hooks'[i].data) \cap ToSet(hooks'[j].data) = {}
    BY <1>1, <1>4, <1>5 DEF HeldOnce
  <2>2. ASSUME NEW i \in DOMAIN hooks'
        PROVE  Distinct(hooks'[i].data)
    <3>1. CASE i # at
      BY <1>1, <1>3, <1>7, <3>1 DEF Given, HeldOnce
    <3>2. CASE i = at /\ at \notin DOMAIN hooks
      <4>1. hooks'[i].data = <<m>>
        BY <1>3, <3>2 DEF Given
      <4> QED BY <4>1 DEF Distinct
    <3>3. CASE i = at /\ at \in DOMAIN hooks
      <4> DEFINE data == hooks[at].data
      <4>1. data \in Seq(Messages) /\ Distinct(data) /\ m \notin ToSet(data)
        <5>1. hooks[at] \in Hook
          BY <3>3 DEF TypeOK
        <5> QED BY <1>1, <1>5, <3>3, <5>1 DEF Hook, HeldOnce
      <4>2. hooks'[i].data = Append(data, m)
        BY <1>3, <3>3 DEF Given
      <4> HIDE DEF data
      <4>3. \A k \in DOMAIN data : data[k] # m
        BY <4>1 DEF ToSet
      <4>4. /\ DOMAIN Append(data, m) = DOMAIN data \cup {Len(data) + 1}
            /\ Append(data, m)[Len(data) + 1] = m
            /\ \A k \in DOMAIN data : Append(data, m)[k] = data[k]
        BY <4>1, AppendedElements
      <4> QED BY <4>1, <4>2, <4>3, <4>4 DEF Distinct
    <3> QED BY <3>1, <3>2, <3>3
  <2> QED BY <2>1, <2>2 DEF HeldOnce
<1>11. OneSender'
  <2>1. \A i \in DOMAIN hooks : hooks'[i].kind = hooks[i].kind
    BY <1>3 DEF Given
  <2>2. at \notin DOMAIN hooks /\ hooks'[at].kind = "sender" =>
            \A i \in DOMAIN hooks : hooks[i].kind # "sender"
    BY <1>3 DEF Given
  <2> QED BY <1>1, <1>7, <2>1, <2>2 DEF OneSender
<1>12. HeldScoped'
  <2>0. scope'[m] = ToSet(savepoints) /\ \A n \in Messages : n # m => scope'[n] = scope[n]
    BY <1>2 DEF TypeOK
  <2> SUFFICES ASSUME NEW i \in DOMAIN hooks', NEW n \in ToSet(hooks'[i].data)
               PROVE  /\ n \in used' \ Out
                      /\ hooks'[i].sids \cap ToSet(savepoints) \subseteq scope'[n]
                      /\ hooks'[i].kind = "internal" =>
                             scope'[n] = hooks'[i].sids /\ n \notin undone
    BY <1>2, <1>6 DEF HeldScoped
  <2>1. CASE n = m
    <3>1. i = at
      BY <1>4, <1>5, <2>1
    <3>2. m \in used' \ Out /\ m \notin undone
      BY <1>1, <1>2 DEF TypeOK
    <3>3. hooks'[at].kind = "internal" => hooks'[at].sids = ToSet(savepoints)
      BY <1>3 DEF Given
    <3> QED BY <2>0, <2>1, <3>1, <3>2, <3>3
  <2>2. CASE n # m
    <3>1. i \in DOMAIN hooks /\ n \in ToSet(hooks[i].data)
      BY <1>4, <2>2
    <3>2. hooks'[i].sids = hooks[i].sids /\ hooks'[i].kind = hooks[i].kind
      BY <1>3, <3>1 DEF Given
    <3>3. /\ n \in used \ Out
          /\ hooks[i].sids \cap ToSet(savepoints) \subseteq scope[n]
          /\ hooks[i].kind = "internal" => scope[n] = hooks[i].sids /\ n \notin undone
      BY <1>1, <3>1 DEF HeldScoped
    <3>4. n \in Messages
      BY <3>3 DEF TypeOK
    <3> QED BY <1>2, <2>0, <2>2, <3>2, <3>3, <3>4
  <2> QED BY <2>1, <2>2
<1> QED BY <1>1, <1>2, <1>6, <1>8, <1>9, <1>10, <1>11, <1>12 DEF Holding

-----------------------------------------------------------------------------
(* What a key tells *)

(* Where the parts of a key are.                                           *)
KeyPlaces(k, name, channel, envelope, state, flag) ==
    LET N == Len(name)
        C == Len(channel)
        S == Len(state)
    IN  /\ Len(k) = N + C + S + 2
        /\ \A i \in 1 .. C : k[N + i] = channel[i]
        /\ k[N + C + 1] = envelope
        /\ \A i \in 1 .. S : k[N + C + 1 + i] = state[i]
        /\ k[N + C + S + 2] = flag

(* k is s, with t after it.                                                *)
Joined(k, s, t) ==
    /\ Len(k) = Len(s) + Len(t)
    /\ \A i \in 1 .. Len(s) : k[i] = s[i]
    /\ \A i \in 1 .. Len(t) : k[Len(s) + i] = t[i]

LEMMA ConcatJoins ==
    ASSUME NEW E, NEW s \in Seq(E), NEW t \in Seq(E)
    PROVE  s \o t \in Seq(E) /\ Joined(s \o t, s, t)
BY ConcatIndices DEF Joined

LEMMA SeqLarger ==
    ASSUME NEW D, NEW E, D \subseteq E, NEW s \in Seq(D)
    PROVE  s \in Seq(E)
<1>1. Len(s) \in Nat /\ s = [i \in 1 .. Len(s) |-> s[i]] /\ \A i \in 1 .. Len(s) : s[i] \in E
  OBVIOUS
<1> QED BY <1>1

LEMMA PlacesOfParts ==
    ASSUME NEW E, NEW name \in Seq(E), NEW channel \in Seq(E), NEW state \in Seq(E),
           NEW envelope \in E, NEW flag \in E
    PROVE  KeyPlaces(name \o channel \o <<envelope>> \o state \o <<flag>>,
                     name, channel, envelope, state, flag)
<1> DEFINE N == Len(name)
           C == Len(channel)
           S == Len(state)
           k2 == name \o channel
           e == <<envelope>>
           f == <<flag>>
           k3 == k2 \o e
           k4 == k3 \o state
           k5 == k4 \o f
<1>0. N \in Nat /\ C \in Nat /\ S \in Nat
  OBVIOUS
<1>a. /\ e \in Seq(E) /\ Len(e) = 1 /\ e[1] = envelope
      /\ f \in Seq(E) /\ Len(f) = 1 /\ f[1] = flag /\ 1 \in 1 .. 1
  OBVIOUS
<1> HIDE DEF e, f
<1>b. k2 \in Seq(E) /\ Joined(k2, name, channel)
  BY ConcatJoins
<1> HIDE DEF k2
<1>c. k3 \in Seq(E) /\ Joined(k3, k2, e)
  BY <1>a, <1>b, ConcatJoins
<1> HIDE DEF k3
<1>d. k4 \in Seq(E) /\ Joined(k4, k3, state)
  BY <1>c, ConcatJoins
<1> HIDE DEF k4
<1>e. k5 \in Seq(E) /\ Joined(k5, k4, f)
  BY <1>a, <1>d, ConcatJoins
<1> HIDE DEF k5
<1>1. Len(k2) = N + C /\ \A i \in 1 .. C : k2[N + i] = channel[i]
  BY <1>b DEF Joined
<1>2. /\ Len(k3) = Len(k2) + 1 /\ k3[Len(k2) + 1] = envelope
      /\ \A i \in 1 .. Len(k2) : k3[i] = k2[i]
  BY <1>a, <1>c DEF Joined
<1>3. /\ Len(k4) = Len(k3) + S
      /\ \A i \in 1 .. Len(k3) : k4[i] = k3[i]
      /\ \A i \in 1 .. S : k4[Len(k3) + i] = state[i]
  BY <1>d DEF Joined
<1>4. /\ Len(k5) = Len(k4) + 1 /\ k5[Len(k4) + 1] = flag
      /\ \A i \in 1 .. Len(k4) : k5[i] = k4[i]
  BY <1>a, <1>e DEF Joined
<1> HIDE DEF N, C, S
<1>5. \A i \in 1 .. C : k5[N + i] = channel[i]
  <2>1. \A i \in 1 .. C : N + i \in 1 .. Len(k2) /\ N + i \in 1 .. Len(k3) /\ N + i \in 1 .. Len(k4)
    BY <1>0, <1>1, <1>2, <1>3
  <2> QED BY <1>1, <1>2, <1>3, <1>4, <2>1
<1>6. k5[N + C + 1] = envelope
  <2>1. N + C + 1 \in 1 .. Len(k3) /\ N + C + 1 \in 1 .. Len(k4)
    BY <1>0, <1>1, <1>2, <1>3
  <2> QED BY <1>1, <1>2, <1>3, <1>4, <2>1
<1>7. \A i \in 1 .. S : k5[N + C + 1 + i] = state[i]
  <2>1. \A i \in 1 .. S : N + C + 1 + i = Len(k3) + i /\ Len(k3) + i \in 1 .. Len(k4)
    BY <1>0, <1>1, <1>2, <1>3
  <2> QED BY <1>3, <1>4, <2>1
<1>8. Len(k5) = N + C + S + 2 /\ k5[N + C + S + 2] = flag
  <2>1. Len(k4) + 1 = N + C + S + 2
    BY <1>0, <1>1, <1>2, <1>3
  <2> QED BY <1>4, <2>1
<1> QED BY <1>5, <1>6, <1>7, <1>8 DEF KeyPlaces, k5, k4, k3, k2, e, f, N, C, S

Flag(m) == IF Util[m].group THEN "1" ELSE "0"

LEMMA PlacesInKey ==
    ASSUME NEW m \in Messages
    PROVE  KeyPlaces(GroupKey[m], Util[m].name, Util[m].channel, Util[m].envelope,
                     Util[m].state, Flag(m))
<1> DEFINE E == STRING \cup {"0", "1"}
<1>1. /\ Util[m].name \in Seq(STRING) /\ Util[m].channel \in Seq(STRING)
      /\ Util[m].state \in Seq(STRING) /\ Util[m].envelope \in STRING
  BY SenderAssumption
<1>2. /\ Util[m].name \in Seq(E) /\ Util[m].channel \in Seq(E)
      /\ Util[m].state \in Seq(E) /\ Util[m].envelope \in E
  <2>1. STRING \subseteq E
    OBVIOUS
  <2> HIDE DEF E
  <2> QED BY <1>1, <2>1, SeqLarger
<1>3. Flag(m) \in E
  BY DEF Flag
<1>4. GroupKey[m] = Util[m].name \o Util[m].channel \o <<Util[m].envelope>> \o Util[m].state
                    \o <<Flag(m)>>
  BY DEF GroupKey, Flag
<1> HIDE DEF E
<1> QED BY <1>2, <1>3, <1>4, PlacesOfParts

(* Of a key and a name, one channel, envelope and state can be made.       *)
LEMMA ShorterChannel ==
    ASSUME NEW m \in Messages, NEW n \in Messages, GroupKey[m] = GroupKey[n], Name(m) = Name(n)
    PROVE  ~(Len(Util[m].channel) < Len(Util[n].channel))
<1> DEFINE k == GroupKey[m]
           N == Len(Util[m].name)
           C == Len(Util[m].channel)
           S == Len(Util[m].state)
           D == Len(Util[n].channel)
           T == Len(Util[n].state)
<1>1. /\ N \in Nat /\ C \in Nat /\ S \in Nat /\ D \in Nat /\ T \in Nat
      /\ S <= 1 /\ T <= 1
  <2>1. \A o \in Messages : {Util[o].name, Util[o].channel, Util[o].state} \subseteq Seq(STRING)
                            /\ Len(Util[o].state) <= 1
    BY SenderAssumption
  <2>2. \A o \in Messages : /\ Util[o].name \in Seq(STRING) /\ Util[o].channel \in Seq(STRING)
                            /\ Util[o].state \in Seq(STRING)
    BY <2>1
  <2> QED BY <2>1, <2>2
<1>2. /\ Len(k) = N + C + S + 2 /\ Len(k) = N + D + T + 2
      /\ \A i \in 1 .. S : k[N + C + 1 + i] = Util[m].state[i]
      /\ k[N + D + 1] = Util[n].envelope
  <2>1. Len(Util[n].name) = N
    BY DEF Name
  <2> QED BY <2>1, PlacesInKey DEF KeyPlaces
<1>3. ASSUME C < D
      PROVE  FALSE
  <2> HIDE DEF k, N, C, S, D, T
  <2>1. S = 1 /\ N + D + 1 = N + C + 1 + 1
    BY <1>1, <1>2, <1>3
  <2>2. Util[n].envelope = Util[m].state[1]
    BY <1>2, <2>1
  <2>3. 1 \in DOMAIN Util[m].state
    <3>1. Util[m].state \in Seq(STRING)
      BY SenderAssumption
    <3> QED BY <2>1, <3>1 DEF S
  <2>4. Util[n].envelope \in ToSet(Util[m].state)
    BY <2>2, <2>3 DEF ToSet
  <2> QED BY <2>4, SenderAssumption
<1> QED BY <1>3

LEMMA KeyTells ==
    ASSUME NEW m \in Messages, NEW n \in Messages, GroupKey[m] = GroupKey[n], Name(m) = Name(n)
    PROVE  Addressed(m) = Addressed(n) /\ (Batchable(m) <=> Batchable(n))
<1> DEFINE k == GroupKey[m]
           N == Len(Util[m].name)
           C == Len(Util[m].channel)
           S == Len(Util[m].state)
<1>0. \A o \in Messages : /\ Util[o].name \in Seq(STRING) /\ Util[o].channel \in Seq(STRING)
                          /\ Util[o].state \in Seq(STRING) /\ Util[o].group \in BOOLEAN
  <2>1. \A o \in Messages : {Util[o].name, Util[o].channel, Util[o].state} \subseteq Seq(STRING)
                            /\ Util[o].group \in BOOLEAN
    BY SenderAssumption
  <2> QED BY <2>1
<1>1. N \in Nat /\ C \in Nat /\ S \in Nat
  BY <1>0
<1>2. Len(Util[n].channel) = C
  <2>1. Len(Util[n].channel) \in Nat
    BY <1>0
  <2>2. ~(C < Len(Util[n].channel)) /\ ~(Len(Util[n].channel) < C)
    BY ShorterChannel
  <2> QED BY <1>1, <2>1, <2>2
<1>3. Util[n].name = Util[m].name /\ Len(Util[n].name) = N
  BY DEF Name
<1>4. /\ Len(k) = N + C + S + 2
      /\ \A i \in 1 .. C : k[N + i] = Util[m].channel[i]
      /\ k[N + C + 1] = Util[m].envelope
      /\ \A i \in 1 .. S : k[N + C + 1 + i] = Util[m].state[i]
      /\ k[N + C + S + 2] = Flag(m)
  BY PlacesInKey DEF KeyPlaces
<1> DEFINE T == Len(Util[n].state)
<1>5. /\ Len(k) = N + C + T + 2
      /\ \A i \in 1 .. C : k[N + i] = Util[n].channel[i]
      /\ k[N + C + 1] = Util[n].envelope
      /\ \A i \in 1 .. T : k[N + C + 1 + i] = Util[n].state[i]
      /\ k[N + C + T + 2] = Flag(n)
  BY <1>2, <1>3, PlacesInKey DEF KeyPlaces
<1>6. S = T
  <2>1. T \in Nat
    BY <1>0
  <2> HIDE DEF k, N, C, S, T
  <2> QED BY <1>1, <1>4, <1>5, <2>1
<1>7. Util[m].channel = Util[n].channel
  <2>1. \A i \in 1 .. C : Util[m].channel[i] = Util[n].channel[i]
    BY <1>4, <1>5
  <2> QED BY <1>0, <1>2, <2>1, SeqEqual
<1>8. Util[m].state = Util[n].state
  <2>1. \A i \in 1 .. S : Util[m].state[i] = Util[n].state[i]
    BY <1>4, <1>5, <1>6
  <2> QED BY <1>0, <1>6, <2>1, SeqEqual
<1>9. Util[m].envelope = Util[n].envelope
  BY <1>4, <1>5
<1>10. Util[m].group = Util[n].group
  <2>1. Flag(m) = Flag(n)
    BY <1>4, <1>5, <1>6
  <2>2. Util[m].group \in BOOLEAN /\ Util[n].group \in BOOLEAN
    BY <1>0
  <2> QED BY <2>1, <2>2 DEF Flag
<1>11. Util[m].allow_batch = Util[n].allow_batch
  BY <1>3, SenderAssumption
<1>12. Addressed(m) = Addressed(n)
  <2>1. \A f \in {"name", "channel", "group", "envelope", "state"} : Util[m][f] = Util[n][f]
    BY <1>3, <1>7, <1>8, <1>9, <1>10
  <2> QED BY <2>1 DEF Addressed
<1> QED BY <1>9, <1>11, <1>12 DEF Batchable

(* What a client needs of a batch: besides what BatchesSound says, that the *)
(* batch took every message.                                               *)
Taken(unit) == \A j \in DOMAIN unit : Appendable(unit[1], unit[j])
Sound(unit) ==
    Len(unit) > 1 =>
        /\ Len(unit) >= 3
        /\ \A m \in ToSet(unit) : Addressed(m) = Addressed(unit[1]) /\ Batchable(m)
        /\ Taken(unit)

(* A callable that does not raise makes batches of one name each.          *)
LEMMA LayerSound ==
    ASSUME TypeOK, HeldOnce
    PROVE  \A u \in ToSet(ForLayer) : Sound(u)
<1> SUFFICES ASSUME NEW u \in ToSet(ForLayer), Len(u) > 1
             PROVE  /\ Len(u) >= 3
                    /\ \A m \in ToSet(u) : Addressed(m) = Addressed(u[1]) /\ Batchable(m)
                    /\ Taken(u)
  BY DEF Sound
<1>1. PICK i \in 1 .. Good : hooks[i].kind = "sender" /\ Batched(hooks[i].data, u)
  BY LayerFacts
<1> DEFINE data == hooks[i].data
<1>2. data \in Seq(Messages)
  <2>1. Good \in 0 .. Len(hooks) /\ hooks \in Seq(Hook)
    BY GoodFacts DEF TypeOK
  <2>2. hooks[i] \in Hook
    BY <2>1
  <2> QED BY <2>2 DEF Hook
<1>3. PICK l \in ToSet(data) : u = SameKey(data, l) /\ Len(u) >= 3 /\ Batchable(u[1])
  BY <1>1 DEF Batched
<1>4. ~Refused(u)
  BY <1>1, <1>3, GoodFacts DEF Breaks
<1> HIDE DEF data
<1>5. u \in Seq(Messages) /\ \A m \in ToSet(u) : m \in Messages /\ GroupKey[m] = GroupKey[l]
  <2>1. u \in Seq(Messages) /\ ToSet(u) = {n \in ToSet(data) : GroupKey[n] = GroupKey[l]}
    BY <1>2, <1>3, GroupFacts
  <2> QED BY <2>1, ElementsIn
<1>6. u[1] \in ToSet(u)
  <2>1. 1 \in DOMAIN u
    BY <1>3, <1>5
  <2> QED BY <2>1 DEF ToSet
<1>7. ASSUME NEW m \in ToSet(u)
      PROVE  Name(m) = Name(u[1])
  <2>1. PICK k \in DOMAIN u : u[k] = m
    BY DEF ToSet
  <2> QED BY <1>3, <1>4, <2>1 DEF Refused, Appendable
<1>8. ASSUME NEW m \in ToSet(u)
      PROVE  Addressed(m) = Addressed(u[1]) /\ Batchable(m)
  <2>1. /\ m \in Messages /\ u[1] \in Messages /\ GroupKey[m] = GroupKey[u[1]]
        /\ Name(m) = Name(u[1])
    BY <1>5, <1>6, <1>7
  <2> QED BY <1>3, <2>1, KeyTells
<1>9. Taken(u)
  BY <1>3, <1>4 DEF Refused, Taken
<1> QED BY <1>3, <1>8, <1>9

-----------------------------------------------------------------------------
(* What has left *)

AllSound == \A i \in DOMAIN sent : Sound(sent[i])

LEMMA SoundBatches == AllSound => BatchesSound
BY DEF AllSound, Sound, BatchesSound

LeftOnce == \A i, j \in DOMAIN sent : i # j => ToSet(sent[i]) \cap ToSet(sent[j]) = {}

LEMMA OutAny ==
    ASSUME NEW i \in DOMAIN sent, NEW m \in ToSet(sent[i])
    PROVE  m \in Out
BY DEF Out

LEMMA LeftStep ==
    ASSUME TypeOK, Holding, LeftOnce, AllSound, [Next]_vars
    PROVE  LeftOnce' /\ AllSound'
<1>1. HeldOnce /\ HeldScoped /\ Out \subseteq used
  BY DEF Holding
<1>2. CASE sent' = sent
  BY <1>2 DEF LeftOnce, AllSound
<1>3. ASSUME NEW m \in Messages, SendAtOnce(m)
      PROVE  LeftOnce' /\ AllSound'
  <2>1. /\ DOMAIN sent' = DOMAIN sent \cup {Len(sent) + 1}
        /\ sent'[Len(sent) + 1] = <<m>>
        /\ \A i \in DOMAIN sent : sent'[i] = sent[i]
    BY <1>3, AtOnceSent
  <2>2. ToSet(<<m>>) = {m} /\ Len(<<m>>) = 1 /\ ~(1 > 1)
    BY DEF ToSet
  <2>3. \A i \in DOMAIN sent : m \notin ToSet(sent[i])
    BY <1>1, <1>3, OutAny DEF SendAtOnce
  <2>4. LeftOnce'
    BY <2>1, <2>2, <2>3 DEF LeftOnce
  <2>5. AllSound'
    <3>1. Sound(<<m>>)
      BY <2>2 DEF Sound
    <3> QED BY <2>1, <3>1 DEF AllSound
  <2> QED BY <2>4, <2>5
<1>4. CASE Commit
  <2>1. PICK n \in 0 .. Len(ForLayer) : sent' = sent \o Sending(n)
    BY <1>4, CommitSends
  <2> DEFINE more == Sending(n)
  <2>2. /\ more \in Seq(Seq(Messages)) /\ DOMAIN more \subseteq DOMAIN ForLayer
        /\ \A i \in DOMAIN more : more[i] = ForLayer[i]
        /\ Within(more) \subseteq Within(ForLayer)
    BY <1>1, SendingFacts
  <2>2a. ForLayer \in Seq(Seq(Messages)) /\ DOMAIN ForLayer \subseteq Nat
    BY <1>1, LayerFacts
  <2> HIDE DEF more
  <2> DEFINE L == Len(sent)
  <2>3. /\ L \in Nat /\ DOMAIN sent = 1 .. L
        /\ \A i \in DOMAIN sent' :
               \/ i \in DOMAIN sent /\ sent'[i] = sent[i]
               \/ /\ i \notin DOMAIN sent /\ i - L \in DOMAIN more
                  /\ i = L + (i - L) /\ sent'[i] = more[i - L]
    <3>1. sent' = sent \o more
      BY <2>1 DEF more
    <3> QED BY <2>2, <3>1, SentMore
  <2> HIDE DEF L
  <2>4. \A m \in Within(ForLayer) : m \notin Out
    BY <1>1, HeldSplit, WaitingScoped
  <2>5. \A k \in DOMAIN more : ToSet(more[k]) \subseteq Within(ForLayer) /\ more[k] \in ToSet(ForLayer)
    BY <2>2 DEF Within, ToSet
  <2>6. ASSUME NEW i \in DOMAIN sent', NEW j \in DOMAIN sent', i # j,
               NEW m \in ToSet(sent'[i]), m \in ToSet(sent'[j])
        PROVE  FALSE
    <3>1. CASE i \in DOMAIN sent /\ j \in DOMAIN sent
      BY <2>3, <2>6, <3>1 DEF LeftOnce
    <3>2. CASE i \in DOMAIN sent /\ j \notin DOMAIN sent
      <4>1. m \in Out /\ m \in Within(ForLayer)
        BY <2>3, <2>5, <2>6, <3>2, OutAny
      <4> QED BY <2>4, <4>1
    <3>3. CASE i \notin DOMAIN sent /\ j \in DOMAIN sent
      <4>1. m \in Out /\ m \in Within(ForLayer)
        BY <2>3, <2>5, <2>6, <3>3, OutAny
      <4> QED BY <2>4, <4>1
    <3>4. CASE i \notin DOMAIN sent /\ j \notin DOMAIN sent
      <4>1. /\ i - L \in DOMAIN more /\ i = L + (i - L) /\ m \in ToSet(more[i - L])
            /\ j - L \in DOMAIN more /\ j = L + (j - L) /\ m \in ToSet(more[j - L])
        BY <2>3, <2>6, <3>4
      <4>2. PICK a \in DOMAIN more, b \in DOMAIN more :
                /\ i = L + a /\ m \in ToSet(more[a])
                /\ j = L + b /\ m \in ToSet(more[b])
        BY <4>1
      <4>3. /\ a \in DOMAIN ForLayer /\ b \in DOMAIN ForLayer /\ a \in Nat /\ b \in Nat
            /\ ForLayer[a] \in Having(m) /\ ForLayer[b] \in Having(m)
        <5>1. \A k \in DOMAIN ForLayer : ForLayer[k] \in Seq(Messages)
          BY <2>2a
        <5> QED BY <2>2, <2>2a, <4>2, <5>1 DEF Having
      <4>4. InOrder(ForLayer, Having(m), Having(m))
        BY <1>1, <2>5, <4>2, EachOnce
      <4>5. a <= b /\ b <= a
        BY <4>3, <4>4 DEF InOrder
      <4> QED BY <2>6, <4>2, <4>3, <4>5
    <3> QED BY <3>1, <3>2, <3>3, <3>4
  <2>7. LeftOnce'
    BY <2>6 DEF LeftOnce
  <2>8. \A i \in DOMAIN sent' : Sound(sent'[i])
    <3>1. \A k \in DOMAIN more : Sound(more[k])
      BY <1>1, <2>5, LayerSound
    <3>2. \A i \in DOMAIN sent : Sound(sent[i])
      BY DEF AllSound
    <3> QED BY <2>3, <3>1, <3>2
  <2>9. AllSound'
    BY <2>8 DEF AllSound
  <2> QED BY <2>7, <2>9
<1>5. CASE Quiet \/ RollbackSavepoint \/ Rollback
  <2>1. sent' = sent
    BY <1>5 DEF Quiet, Begin, Savepoint, Release, RollbackSavepoint, Rollback, vars
  <2> QED BY <1>2, <2>1
<1>6. ASSUME NEW m \in Messages, WebsocketSend(m) \/ InternalSend(m)
      PROVE  LeftOnce' /\ AllSound'
  <2>1. sent' = sent
    BY <1>6 DEF WebsocketSend, InternalSend
  <2> QED BY <1>2, <2>1
<1> QED BY <1>3, <1>4, <1>5, <1>6, NextCases

LEMMA ForgottenStep ==
    ASSUME TypeOK, Holding, NothingForgotten, [Next]_vars, Idle'
    PROVE  NothingForgotten'
<1>1. /\ HeldOnce /\ HeldScoped /\ OneSender
      /\ used \ (undone \cup lost) \subseteq Out \cup Waiting
  BY DEF Holding, NothingForgotten
<1>2. (~inBlock => Waiting = {})'
  <2>1. hooks' = << >> => Held(hooks') = {}
    BY DEF Held
  <2> QED BY <2>1 DEF Idle, Waiting
<1> SUFFICES used' \ (undone' \cup lost') \subseteq Out' \cup Waiting'
  BY <1>2 DEF NothingForgotten
<1>3. CASE Quiet
  <2>1. UNCHANGED <<hooks, sent, used, undone, lost>>
    BY <1>3 DEF Quiet, Begin, Savepoint, Release, vars
  <2>2. Out' = Out /\ Waiting' = Waiting
    BY <2>1 DEF Out, Waiting, Held
  <2> QED BY <1>1, <2>1, <2>2
<1>4. CASE RollbackSavepoint
  <2> DEFINE sid == Last(savepoints)
             some == {h \in ToSet(hooks) : sid \notin h.sids}
  <2>1. /\ hooks' = Only(hooks, some)
        /\ undone' = undone \cup {m \in used : sid \in scope[m]}
        /\ savepoints # << >>
        /\ UNCHANGED <<sent, used, lost>>
    BY <1>4 DEF RollbackSavepoint
  <2>2. \A k \in DOMAIN hooks : sid \notin hooks[k].sids =>
            \E i \in DOMAIN hooks' : hooks'[i] = hooks[k]
    <3>1. \A k \in DOMAIN hooks : sid \notin hooks[k].sids => hooks[k] \in some
      BY DEF ToSet
    <3>2. hooks \in Seq(Hook)
      BY DEF TypeOK
    <3> HIDE DEF some
    <3>3. PICK at \in [DOMAIN hooks' -> DOMAIN hooks] :
              /\ \A i \in DOMAIN hooks' : hooks'[i] = hooks[at[i]]
              /\ \A k \in DOMAIN hooks : hooks[k] \in some => \E i \in DOMAIN hooks' : at[i] = k
      BY <2>1, <3>2, OnlyEach
    <3> QED BY <3>1, <3>3
  <2>3. sid \in ToSet(savepoints)
    <3>1. savepoints \in Seq(1 .. MaxSavepoints)
      BY DEF TypeOK
    <3> QED BY <2>1, <3>1, FrontFacts
  <2> HIDE DEF sid, some
  <2>4. Out' = Out
    BY <2>1 DEF Out
  <2>5. ASSUME NEW m \in used, m \notin undone', m \in Waiting
        PROVE  m \in Waiting'
    <3>1. PICK k \in DOMAIN hooks : m \in ToSet(hooks[k].data)
      BY <2>5 DEF Waiting, Held
    <3>2. sid \notin hooks[k].sids
      BY <1>1, <2>1, <2>3, <2>5, <3>1 DEF HeldScoped
    <3> QED BY <2>2, <3>1, <3>2 DEF Waiting, Held
  <2> QED BY <1>1, <2>1, <2>4, <2>5
<1>5. CASE Commit
  <2>1. PICK n \in 0 .. Len(ForLayer) :
            /\ sent' = sent \o Sending(n)
            /\ lost' = lost \cup Held(SubSeq(hooks, Good + 1, Len(hooks))) \cup Unsent(n)
    BY <1>5, CommitSends
  <2>2. /\ Sending(n) \in Seq(Seq(Messages))
        /\ Within(Sending(n)) \cup Unsent(n) = Within(ForLayer)
    BY <1>1, SendingFacts
  <2>3. Out' = Out \cup Within(Sending(n))
    BY <2>1, <2>2, SentMore
  <2>4. Waiting = Within(ForLayer) \cup Held(SubSeq(hooks, Good + 1, Len(hooks)))
    BY <1>1, HeldSplit
  <2>5. used' = used /\ undone' = undone
    BY <1>5 DEF Commit
  <2> QED BY <1>1, <2>1, <2>2, <2>3, <2>4, <2>5
<1>6. CASE Rollback
  <2>1. undone' = undone \cup Waiting /\ UNCHANGED <<sent, used, lost>>
    BY <1>6 DEF Rollback
  <2>2. Out' = Out
    BY <2>1 DEF Out
  <2> QED BY <1>1, <2>1, <2>2
<1>7. ASSUME NEW m \in Messages, SendAtOnce(m)
      PROVE  used' \ (undone' \cup lost') \subseteq Out' \cup Waiting'
  <2>1. used' = used \cup {m} /\ UNCHANGED <<hooks, undone, lost>>
    BY <1>7 DEF SendAtOnce
  <2>2. Out' = Out \cup {m} /\ Waiting' = Waiting
    BY <1>7, <2>1, AtOnceSent DEF Waiting, Held
  <2> QED BY <1>1, <2>1, <2>2
<1>8. ASSUME NEW m \in Messages, WebsocketSend(m) \/ InternalSend(m)
      PROVE  used' \ (undone' \cup lost') \subseteq Out' \cup Waiting'
  <2>1. used' = used \cup {m} /\ UNCHANGED <<sent, undone, lost>>
    BY <1>8 DEF WebsocketSend, InternalSend, Use
  <2>2. Out' = Out
    BY <2>1 DEF Out
  <2>3. Held(hooks') = Held(hooks) \cup {m}
    BY <1>1, <1>8, MessageGiven, GivenHeld
  <2>4. Waiting' = Waiting \cup {m}
    BY <2>3 DEF Waiting, Held
  <2> QED BY <1>1, <2>1, <2>2, <2>4
<1> QED BY <1>3, <1>4, <1>5, <1>6, <1>7, <1>8, NextCases

-----------------------------------------------------------------------------
(* The theorems *)

SenderInv == TypeOK /\ Holding /\ LeftOnce /\ AllSound /\ NothingForgotten

LEMMA SenderInit == Init => SenderInv
<1> SUFFICES ASSUME Init
             PROVE  SenderInv
  OBVIOUS
<1>1. /\ inBlock = FALSE /\ savepoints = << >> /\ created = 0 /\ hooks = << >> /\ sent = << >>
      /\ scope = [m \in Messages |-> {}] /\ used = {} /\ undone = {} /\ lost = {}
  BY DEF Init
<1>2. DOMAIN hooks = {} /\ DOMAIN savepoints = {} /\ DOMAIN sent = {}
  BY <1>1
<1>3. Out = {} /\ Waiting = {}
  BY <1>2 DEF Out, Waiting, Held
<1>4. TypeOK
  <2>1. savepoints \in Seq(1 .. MaxSavepoints) /\ hooks \in Seq(Hook) /\ sent \in Seq(Seq(Messages))
    BY <1>1
  <2>2. created \in 0 .. MaxSavepoints
    BY <1>1, SenderAssumption
  <2> QED BY <1>1, <2>1, <2>2 DEF TypeOK
<1>5. Holding
  BY <1>1, <1>2, <1>3 DEF Holding, Idle, SidsCreated, HeldOnce, OneSender, HeldScoped
<1> QED BY <1>1, <1>2, <1>3, <1>4, <1>5 DEF SenderInv, LeftOnce, AllSound, NothingForgotten

LEMMA SenderStep == SenderInv /\ [Next]_vars => SenderInv'
<1> SUFFICES ASSUME SenderInv, [Next]_vars
             PROVE  SenderInv'
  OBVIOUS
<1>1. TypeOK /\ Holding /\ LeftOnce /\ AllSound /\ NothingForgotten
  BY DEF SenderInv
<1>2. TypeOK'
  BY <1>1, TypeStep
<1>3. Holding'
  BY <1>1, NextCases, HoldingQuiet, HoldingRollbackSavepoint, HoldingEnds, HoldingAtOnce,
     HoldingGiven
<1>4. LeftOnce' /\ AllSound'
  BY <1>1, LeftStep
<1>5. NothingForgotten'
  BY <1>1, <1>3, ForgottenStep DEF Holding
<1> QED BY <1>2, <1>3, <1>4, <1>5 DEF SenderInv

LEMMA SenderInvariant == Spec => []SenderInv
BY SenderInit, SenderStep, PTL DEF Spec

(* The state of the sender and of Django's connection is what TypeOK says, *)
(* however savepoints nest and whatever the hooks hold.                    *)
THEOREM SenderTypeCorrect == Spec => []TypeOK
<1>1. SenderInv => TypeOK
  BY DEF SenderInv
<1> QED BY <1>1, SenderInvariant, PTL

(* No message leaves twice, or leaves while it still waits.                *)
THEOREM EachSentOnce == Spec => []SentOnce
<1>1. SenderInv => SentOnce
  <2> SUFFICES ASSUME SenderInv
               PROVE  SentOnce
    OBVIOUS
  <2>1. Waiting \subseteq used \ Out
    BY WaitingScoped DEF SenderInv, Holding
  <2> QED BY <2>1 DEF SenderInv, LeftOnce, SentOnce
<1> QED BY <1>1, SenderInvariant, PTL

(* What the application sent and did not undo waits, has left or was lost  *)
(* when the layer or a batch raised.                                       *)
THEOREM NoneForgotten == Spec => []NothingForgotten
<1>1. SenderInv => NothingForgotten
  BY DEF SenderInv
<1> QED BY <1>1, SenderInvariant, PTL

(* A batch has one name, receiver, envelope and state, of keys that collide *)
(* as well, and its messages allow it.                                     *)
THEOREM BatchesAreSound == Spec => []BatchesSound
<1>1. SenderInv => BatchesSound
  BY SoundBatches DEF SenderInv
<1> QED BY <1>1, SenderInvariant, PTL

(* An internal message waits only while nothing it was sent under was      *)
(* rolled back.                                                            *)
THEOREM InternalIsKept == Spec => []InternalKept
<1>1. SenderInv => InternalKept
  BY DEF SenderInv, Holding, HeldScoped, InternalKept
<1> QED BY <1>1, SenderInvariant, PTL

-----------------------------------------------------------------------------
(* The order of messages of one key *)

(* m comes before n in what one TransactionSender holds.                   *)
AddedBefore(m, n) ==
    \E h \in ToSet(hooks) : /\ h.kind = "sender"
                            /\ \E i, j \in DOMAIN h.data :
                                  i < j /\ h.data[i] = m /\ h.data[j] = n

HeldBefore(k, m, n) ==
    InOrder(hooks[k].data, {m}, {n}) /\ {m, n} \subseteq ToSet(hooks[k].data)

LEMMA InTwoPlaces ==
    ASSUME TypeOK, HeldOnce, NEW m, NEW n, AddedBefore(m, n)
    PROVE  m # n /\ \E k \in DOMAIN hooks : HeldBefore(k, m, n)
<1>1. PICK k \in DOMAIN hooks : \E i, j \in DOMAIN hooks[k].data :
                                    i < j /\ hooks[k].data[i] = m /\ hooks[k].data[j] = n
  BY DEF AddedBefore, ToSet
<1> DEFINE data == hooks[k].data
<1>2. data \in Seq(Messages) /\ Distinct(data)
  <2>1. hooks[k] \in Hook
    BY DEF TypeOK
  <2> QED BY <2>1 DEF HeldOnce, Hook
<1>3. PICK i, j \in DOMAIN data : i < j /\ data[i] = m /\ data[j] = n
  BY <1>1
<1> HIDE DEF data
<1>4. i \in Nat /\ j \in Nat /\ i # j /\ i <= j
  BY <1>2, <1>3
<1>5. m # n
  BY <1>2, <1>3, <1>4 DEF Distinct
<1>6. InOrder(data, {m}, {n})
  BY <1>2, <1>3, <1>4 DEF Distinct, InOrder
<1>7. {m, n} \subseteq ToSet(data)
  BY <1>3 DEF ToSet
<1> QED BY <1>2, <1>5, <1>6, <1>7 DEF data, HeldBefore

(* Within what is given to the layer at once.                              *)
LEMMA UnitInOrder ==
    ASSUME TypeOK, HeldOnce, NEW m, NEW n, AddedBefore(m, n), NEW u \in ToSet(ForLayer)
    PROVE  InOrder(u, {m}, {n})
<1>0. PICK k \in DOMAIN hooks : HeldBefore(k, m, n)
  BY InTwoPlaces
<1>1. InOrder(hooks[k].data, {m}, {n}) /\ {m, n} \subseteq ToSet(hooks[k].data)
  BY <1>0 DEF HeldBefore
<1>2. u \in Seq(Messages)
  <2>1. ForLayer \in Seq(Seq(Messages))
    BY LayerFacts
  <2> QED BY <2>1, ElementsIn
<1>3. CASE ~(Len(u) > 1)
  <2>1. \A i, j \in DOMAIN u : i <= j
    BY <1>2, <1>3
  <2> QED BY <2>1 DEF InOrder
<1>4. CASE Len(u) > 1
  <2>1. PICK i \in 1 .. Good : Batched(hooks[i].data, u)
    BY <1>4, LayerFacts
  <2> DEFINE data == hooks[i].data
  <2>2. i \in DOMAIN hooks /\ data \in Seq(Messages)
    <3>1. Good \in 0 .. Len(hooks) /\ hooks \in Seq(Hook)
      BY GoodFacts DEF TypeOK
    <3>2. i \in DOMAIN hooks /\ hooks[i] \in Hook
      BY <3>1
    <3> QED BY <3>2 DEF Hook
  <2>3. PICK l \in ToSet(data) : u = SameKey(data, l)
    BY <2>1 DEF Batched
  <2>4. CASE i = k
    BY <1>1, <2>2, <2>3, <2>4, OnlyInOrder DEF SameKey
  <2>5. CASE i # k
    <3>1. m \notin ToSet(data)
      BY <1>1, <2>2, <2>5 DEF HeldOnce
    <3>2. m \notin ToSet(u)
      <4> HIDE DEF data
      <4> QED BY <2>2, <2>3, <3>1, GroupFacts
    <3> QED BY <3>2 DEF InOrder, ToSet
  <2> QED BY <2>4, <2>5
<1> QED BY <1>3, <1>4

(* Of the units of a commit.                                               *)
LEMMA LayerInOrder ==
    ASSUME TypeOK, HeldOnce, NEW m, NEW n, AddedBefore(m, n), GroupKey[m] = GroupKey[n],
           m \in Within(ForLayer) \/ n \in Within(ForLayer)
    PROVE  InOrder(ForLayer, Having(m), Having(n))
<1>0. PICK k \in DOMAIN hooks : HeldBefore(k, m, n)
  BY InTwoPlaces
<1>1. InOrder(hooks[k].data, {m}, {n}) /\ {m, n} \subseteq ToSet(hooks[k].data)
  BY <1>0 DEF HeldBefore
<1>2. PICK i \in 1 .. Good : m \in ToSet(hooks[i].data) \/ n \in ToSet(hooks[i].data)
  BY LayerFacts
<1>3. i \in DOMAIN hooks
  <2>1. Good \in 0 .. Len(hooks) /\ hooks \in Seq(Hook)
    BY GoodFacts DEF TypeOK
  <2> QED BY <2>1
<1>4. i = k
  BY <1>1, <1>2, <1>3 DEF HeldOnce
<1> QED BY <1>1, <1>2, <1>4, LayerFacts

LEMMA KeyOrderStep ==
    ASSUME SenderInv, [Next]_vars, NEW m, NEW n,
           GroupKey[m] = GroupKey[n], AddedBefore(m, n)
    PROVE  \A i, j \in DOMAIN FlatSent' : FlatSent'[i] = m /\ FlatSent'[j] = n => i < j
<1>1. TypeOK /\ HeldOnce /\ HeldScoped /\ Out \subseteq used
  BY DEF SenderInv, Holding
<1>2. sent' \in Seq(Seq(Messages))
  BY SenderStep DEF SenderInv, TypeOK
<1>3. m \in Waiting /\ n \in Waiting /\ m # n
  BY <1>1, InTwoPlaces DEF HeldBefore, Waiting, Held
<1>4. m \in used /\ m \notin Out /\ n \in used /\ n \notin Out
  BY <1>1, <1>3, WaitingScoped
<1>5. FlatSent' \in Seq(Messages) /\ ToSet(FlatSent') = Out'
  <2>1. /\ FlattenSeq(sent') \in Seq(Messages)
        /\ ToSet(FlattenSeq(sent')) = UNION {ToSet(sent'[i]) : i \in DOMAIN sent'}
    BY <1>2, FlattenElements
  <2> QED BY <2>1 DEF FlatSent, Out
<1>6. CASE m \notin Out'
  BY <1>5, <1>6 DEF ToSet
<1>7. CASE Commit
  <2>1. PICK c \in 0 .. Len(ForLayer) : sent' = sent \o Sending(c)
    BY <1>7, CommitSends
  <2> DEFINE more == Sending(c)
             L == Len(sent)
  <2>2. /\ more \in Seq(Seq(Messages)) /\ DOMAIN more \subseteq DOMAIN ForLayer
        /\ \A i \in DOMAIN more : more[i] = ForLayer[i]
        /\ Within(more) \subseteq Within(ForLayer)
    BY <1>1, SendingFacts
  <2>2a. ForLayer \in Seq(Seq(Messages)) /\ DOMAIN ForLayer \subseteq Nat
    BY <1>1, LayerFacts
  <2> HIDE DEF more
  <2>3. /\ L \in Nat
        /\ \A i \in DOMAIN sent' :
               \/ i \in DOMAIN sent /\ sent'[i] = sent[i]
               \/ /\ i - L \in DOMAIN more /\ i = L + (i - L) /\ sent'[i] = more[i - L]
    <3>1. sent' = sent \o more
      BY <2>1 DEF more
    <3> QED BY <1>1, <2>2, <3>1, SentMore
  <2> HIDE DEF L
  <2>4. \A i \in DOMAIN sent : m \notin ToSet(sent[i]) /\ n \notin ToSet(sent[i])
    BY <1>4, OutAny
  <2>5. \A i \in DOMAIN more : InOrder(more[i], {m}, {n})
    <3>1. \A i \in DOMAIN more : more[i] \in ToSet(ForLayer)
      BY <2>2 DEF ToSet
    <3> QED BY <1>1, <3>1, UnitInOrder
  <2>6. ASSUME NEW i \in DOMAIN sent'
        PROVE  InOrder(sent'[i], {m}, {n})
    <3>1. CASE i \in DOMAIN sent /\ sent'[i] = sent[i]
      BY <2>4, <3>1 DEF InOrder, ToSet
    <3>2. CASE i - L \in DOMAIN more /\ sent'[i] = more[i - L]
      BY <2>5, <3>2
    <3> QED BY <2>3, <3>1, <3>2
  <2>7. ASSUME NEW i \in DOMAIN sent', NEW j \in DOMAIN sent',
               m \in ToSet(sent'[i]), n \in ToSet(sent'[j])
        PROVE  i <= j
    <3>1. PICK a \in DOMAIN more, b \in DOMAIN more :
              i = L + a /\ m \in ToSet(more[a]) /\ j = L + b /\ n \in ToSet(more[b])
      BY <2>3, <2>4, <2>7
    <3>2. /\ a \in DOMAIN ForLayer /\ b \in DOMAIN ForLayer /\ a \in Nat /\ b \in Nat
          /\ ForLayer[a] \in Having(m) /\ ForLayer[b] \in Having(n)
      <4>1. \A k \in DOMAIN ForLayer : ForLayer[k] \in Seq(Messages)
        BY <2>2a
      <4> QED BY <2>2, <2>2a, <3>1, <4>1 DEF Having
    <3>3. m \in Within(ForLayer)
      BY <3>2 DEF Within, Having
    <3>4. a <= b
      BY <1>1, <3>2, <3>3, LayerInOrder DEF InOrder
    <3> QED BY <2>3, <3>1, <3>2, <3>4
  <2>8. InOrder(FlattenSeq(sent'), {m}, {n})
    <3>1. \A i, j \in DOMAIN sent' :
              ToSet(sent'[i]) \cap {m} # {} /\ ToSet(sent'[j]) \cap {n} # {} => i <= j
      BY <2>7
    <3> QED BY <1>2, <2>6, <3>1, FlattenInOrder
  <2>9. \A i, j \in DOMAIN FlatSent' : FlatSent'[i] = m /\ FlatSent'[j] = n => i <= j /\ i # j
    BY <1>3, <2>8 DEF InOrder, FlatSent
  <2>10. DOMAIN FlatSent' \subseteq Nat
    BY <1>5
  <2> QED BY <2>9, <2>10
<1>8. CASE Quiet \/ RollbackSavepoint \/ Rollback
  <2>1. sent' = sent
    BY <1>8 DEF Quiet, Begin, Savepoint, Release, RollbackSavepoint, Rollback, vars
  <2> QED BY <1>4, <1>6, <2>1 DEF Out
<1>9. ASSUME NEW k \in Messages, WebsocketSend(k) \/ InternalSend(k)
      PROVE  m \notin Out'
  <2>1. sent' = sent
    BY <1>9 DEF WebsocketSend, InternalSend
  <2> QED BY <1>4, <2>1 DEF Out
<1>10. ASSUME NEW k \in Messages, SendAtOnce(k)
       PROVE  m \notin Out'
  <2>1. k \notin used /\ Out' = Out \cup {k}
    BY <1>1, <1>10, AtOnceSent DEF SendAtOnce
  <2> QED BY <1>4, <2>1
<1> QED BY <1>6, <1>7, <1>8, <1>9, <1>10, NextCases

(* Messages of one key leave in the order one sender was given them,       *)
(* whatever is batched and wherever the layer gives up.                    *)
THEOREM KeyOrderIsKept == Spec => KeyOrderKept
<1> DEFINE Kept == \A m, n \in Messages :
                      /\ GroupKey[m] = GroupKey[n]
                      /\ \E h \in ToSet(hooks) : /\ h.kind = "sender"
                                                 /\ \E i, j \in DOMAIN h.data :
                                                       i < j /\ h.data[i] = m /\ h.data[j] = n
                      => \A i, j \in DOMAIN FlatSent' :
                             FlatSent'[i] = m /\ FlatSent'[j] = n => i < j
<1>1. SenderInv /\ [Next]_vars => [Kept]_vars
  BY KeyOrderStep DEF AddedBefore
<1> QED BY <1>1, SenderInvariant, PTL DEF Spec, KeyOrderKept

-----------------------------------------------------------------------------
(* The sender implements Outbox *)

LEMMA OutboxStep ==
    ASSUME SenderInv, [Next]_vars
    PROVE  [AsOutbox!Next]_(AsOutbox!vars)
<1>1. /\ TypeOK /\ HeldOnce /\ HeldScoped /\ OneSender /\ Idle /\ Out \subseteq used
      /\ (~inBlock => Waiting = {})
  BY DEF SenderInv, Holding, NothingForgotten
<1>2. CASE Quiet
  <2>1. UNCHANGED <<hooks, sent, lost>>
    BY <1>2 DEF Quiet, Begin, Savepoint, Release, vars
  <2>2. Out' = Out /\ Waiting' = Waiting
    BY <2>1 DEF Out, Waiting, Held
  <2>3. CASE Begin
    BY <2>1, <2>2, <2>3 DEF Begin, AsOutbox!Next, AsOutbox!Begin
  <2>4. CASE ~Begin
    <3>1. inBlock' = inBlock
      BY <1>2, <2>4 DEF Quiet, Savepoint, Release, vars
    <3> QED BY <2>1, <2>2, <3>1 DEF AsOutbox!vars
  <2> QED BY <2>3, <2>4
<1>3. CASE RollbackSavepoint
  <2>1. /\ inBlock /\ UNCHANGED <<inBlock, sent, lost>>
        /\ \E some : hooks' = Only(hooks, some)
    BY <1>1, <1>3 DEF RollbackSavepoint, Idle
  <2>2. Out' = Out
    BY <2>1 DEF Out
  <2>3. Held(hooks') \subseteq Held(hooks)
    <3>1. PICK some : hooks' = Only(hooks, some)
      BY <2>1
    <3>2. hooks \in Seq(Hook)
      BY <1>1 DEF TypeOK
    <3>3. \A i \in DOMAIN hooks' : \E k \in DOMAIN hooks : hooks'[i] = hooks[k]
      BY <3>1, <3>2, OnlyEach
    <3> QED BY <3>3 DEF Held
  <2>4. Waiting' = Waiting \ (Waiting \ Waiting')
    BY <2>3 DEF Waiting, Held
  <2> QED BY <2>1, <2>2, <2>4 DEF AsOutbox!Next, AsOutbox!RollbackPart
<1>4. CASE Commit
  <2> DEFINE rest == Held(SubSeq(hooks, Good + 1, Len(hooks)))
  <2>1. PICK n \in 0 .. Len(ForLayer) :
            /\ n < Len(ForLayer) => SendMayFail
            /\ sent' = sent \o Sending(n)
            /\ lost' = lost \cup rest \cup Unsent(n)
    BY <1>4, CommitSends
  <2>2. /\ Sending(n) \in Seq(Seq(Messages))
        /\ Within(Sending(n)) \cup Unsent(n) = Within(ForLayer)
        /\ Within(Sending(n)) \cap Unsent(n) = {}
        /\ n = Len(ForLayer) => Unsent(n) = {}
    BY <1>1, SendingFacts
  <2>3. Out' = Out \cup Within(Sending(n))
    BY <1>1, <2>1, <2>2, SentMore
  <2>4. Waiting = Within(ForLayer) \cup rest /\ Within(ForLayer) \cap rest = {}
    BY <1>1, HeldSplit
  <2>5. inBlock /\ inBlock' = FALSE /\ hooks' = << >>
    BY <1>4 DEF Commit
  <2>6. Waiting' = {}
    <3>1. DOMAIN hooks' = {}
      BY <2>5
    <3> QED BY <3>1 DEF Waiting, Held
  <2>7. Unsent(n) # {} => SendMayFail
    <3>1. Len(ForLayer) \in Nat
      BY <1>1, LayerFacts
    <3> QED BY <2>1, <2>2, <3>1
  <2>8. rest # {} => Unlike
    <3> SUFFICES ASSUME rest # {}
                 PROVE  Unlike
      OBVIOUS
    <3>1. hooks \in Seq(Hook) /\ Good \in 0 .. Len(hooks)
      BY <1>1, GoodFacts DEF TypeOK
    <3>2. \E i \in DOMAIN hooks : i > Good
      BY <1>1, HeldRest
    <3>3. Good < Len(hooks) /\ hooks[Good + 1] \in Hook
      BY <3>1, <3>2
    <3> DEFINE hook == hooks[Good + 1]
    <3>4. Breaks(hook)
      BY <1>1, <3>3, GoodFacts
    <3>5. hook.data \in Seq(Messages)
      BY <3>3 DEF Hook
    <3> HIDE DEF hook
    <3>6. PICK l \in ToSet(hook.data) : Refused(SameKey(hook.data, l))
      BY <3>4 DEF Breaks
    <3> DEFINE items == SameKey(hook.data, l)
    <3>7. items \in Seq(Messages) /\ \A m \in ToSet(items) : GroupKey[m] = GroupKey[l]
      BY <3>5, GroupFacts
    <3> HIDE DEF items
    <3>8. PICK i \in DOMAIN items : ~Appendable(items[1], items[i])
      BY <3>6 DEF Refused, items
    <3>9. 1 \in DOMAIN items
      BY <3>7, <3>8
    <3>10. /\ items[i] \in Messages /\ items[1] \in Messages
           /\ items[i] \in ToSet(items) /\ items[1] \in ToSet(items)
      BY <3>7, <3>8, <3>9 DEF ToSet
    <3> QED BY <3>7, <3>8, <3>10 DEF Unlike
  <2> DEFINE refused == rest \cup Unsent(n)
  <2>9. /\ refused \in SUBSET Waiting /\ (refused # {} => SendMayFail \/ Unlike)
        /\ Out' = Out \cup (Waiting \ refused) /\ lost' = lost \cup refused
    BY <2>1, <2>2, <2>3, <2>4, <2>7, <2>8
  <2> HIDE DEF refused
  <2>10. AsOutbox!Commit
    BY <2>5, <2>6, <2>9 DEF AsOutbox!Commit
  <2> QED BY <2>10 DEF AsOutbox!Next
<1>5. CASE Rollback
  <2>1. inBlock /\ inBlock' = FALSE /\ hooks' = << >> /\ UNCHANGED <<sent, lost>>
    BY <1>5 DEF Rollback
  <2>2. Out' = Out
    BY <2>1 DEF Out
  <2>3. Waiting' = {}
    <3>1. DOMAIN hooks' = {}
      BY <2>1
    <3> QED BY <3>1 DEF Waiting, Held
  <2> QED BY <2>1, <2>2, <2>3 DEF AsOutbox!Next, AsOutbox!Rollback
<1>6. ASSUME NEW m \in Messages, SendAtOnce(m)
      PROVE  AsOutbox!Next
  <2>1. m \notin used /\ UNCHANGED <<inBlock, hooks, lost>>
    BY <1>6 DEF SendAtOnce
  <2>2. Out' = Out \cup {m} /\ Waiting' = Waiting
    BY <1>1, <1>6, <2>1, AtOnceSent DEF Waiting, Held
  <2>3. m \notin Waiting \cup Out
    BY <1>1, <2>1, WaitingScoped
  <2> QED BY <2>1, <2>2, <2>3 DEF AsOutbox!Next, AsOutbox!SendNow
<1>7. ASSUME NEW m \in Messages, WebsocketSend(m) \/ InternalSend(m)
      PROVE  AsOutbox!Next
  <2>1. inBlock /\ m \notin used /\ UNCHANGED <<inBlock, sent, lost>>
    BY <1>7 DEF WebsocketSend, InternalSend, Use
  <2>2. Held(hooks') = Held(hooks) \cup {m}
    BY <1>1, <1>7, MessageGiven, GivenHeld
  <2>3. Waiting' = Waiting \cup {m} /\ Out' = Out
    BY <2>1, <2>2 DEF Waiting, Held, Out
  <2>4. m \notin Waiting \cup Out
    BY <1>1, <2>1, WaitingScoped
  <2> QED BY <2>1, <2>3, <2>4 DEF AsOutbox!Next, AsOutbox!Add
<1> QED BY <1>2, <1>3, <1>4, <1>5, <1>6, <1>7, NextCases

(* Whatever nests, is rolled back and batched: each message waits and then *)
(* leaves, is dropped by a rollback or is lost, as Outbox says.            *)
THEOREM OutboxImplemented == Spec => OutboxSpec
<1>1. Init => AsOutbox!Init
  <2> SUFFICES ASSUME Init
               PROVE  AsOutbox!Init
    OBVIOUS
  <2>1. inBlock = FALSE /\ lost = {} /\ DOMAIN hooks = {} /\ DOMAIN sent = {}
    BY DEF Init
  <2>2. Waiting = {} /\ Out = {}
    BY <2>1 DEF Waiting, Held, Out
  <2> QED BY <2>1, <2>2 DEF AsOutbox!Init
<1>2. SenderInv /\ [Next]_vars => [AsOutbox!Next]_(AsOutbox!vars)
  BY OutboxStep
<1> QED BY <1>1, <1>2, SenderInvariant, PTL DEF Spec, OutboxSpec, AsOutbox!Spec

-----------------------------------------------------------------------------
(* The contents of a batch *)

(* A list grown from its first element, one element at a time.             *)
LEMMA GrownList ==
    ASSUME NEW E, NEW rows \in Seq(E), rows # << >>,
           NEW f \in [0 .. Len(rows) - 1 -> Seq(E)],
           f[0] = <<rows[1]>>,
           \A n \in 1 .. Len(rows) - 1 : f[n] = Append(f[n - 1], rows[n + 1])
    PROVE  f[Len(rows) - 1] = rows
<1> DEFINE N == Len(rows) - 1
           right == {n \in 0 .. N : Len(f[n]) = n + 1 /\ \A i \in 1 .. n + 1 : f[n][i] = rows[i]}
<1>1. N \in Nat /\ Len(rows) = N + 1
  OBVIOUS
<1>2. 0 \in right
  <2>1. Len(f[0]) = 0 + 1 /\ \A i \in 1 .. 0 + 1 : f[0][i] = rows[i]
    <3>1. \A i \in 1 .. 0 + 1 : i = 1
      OBVIOUS
    <3> QED BY <3>1
  <2>2. 0 \in 0 .. N
    BY <1>1
  <2> QED BY <2>1, <2>2
<1>3. ASSUME NEW n \in 1 .. N, n - 1 \in right
      PROVE  n \in right
  <2>1. n \in 0 .. N /\ n - 1 \in 0 .. N /\ n - 1 + 1 = n /\ n + 1 \in 1 .. Len(rows)
    BY <1>1
  <2>2. Len(f[n - 1]) = n /\ \A i \in 1 .. n : f[n - 1][i] = rows[i]
    BY <1>3, <2>1
  <2>3. f[n] = Append(f[n - 1], rows[n + 1]) /\ f[n - 1] \in Seq(E)
    BY <2>1
  <2>4. Len(f[n]) = n + 1 /\ \A i \in 1 .. n + 1 : f[n][i] = rows[i]
    <3> DEFINE s == f[n - 1]
               e == rows[n + 1]
    <3>1. e \in E
      BY <2>1
    <3>2. s \in Seq(E) /\ Len(s) = n /\ f[n] = Append(s, e) /\ \A i \in 1 .. n : s[i] = rows[i]
      BY <2>2, <2>3
    <3>3. \A i \in 1 .. n + 1 : i \in 1 .. n \/ i = n + 1
      BY <2>1
    <3> HIDE DEF s, e
    <3>4. Len(f[n]) = n + 1 /\ f[n][n + 1] = e /\ \A i \in 1 .. n : f[n][i] = s[i]
      BY <2>1, <3>1, <3>2
    <3> QED BY <3>2, <3>3, <3>4 DEF e
  <2> QED BY <2>1, <2>4
<1>4. 0 .. N \subseteq right
  <2> HIDE DEF right, N
  <2> QED BY <1>1, <1>2, <1>3, FromOneBefore
<1>5. Len(f[N]) = Len(rows) /\ \A i \in 1 .. Len(rows) : f[N][i] = rows[i]
  <2>1. N \in right
    <3> HIDE DEF right, N
    <3>1. N \in 0 .. N
      BY <1>1
    <3> QED BY <1>4, <3>1
  <2> QED BY <1>1, <2>1
<1>6. f[N] \in Seq(E)
  <2>1. N \in 0 .. N /\ f \in [0 .. N -> Seq(E)]
    BY <1>1
  <2> HIDE DEF N
  <2> QED BY <2>1
<1>7. f[N] = rows
  <2> DEFINE s == f[N]
  <2>1. s \in Seq(E) /\ Len(s) = Len(rows) /\ \A i \in 1 .. Len(rows) : s[i] = rows[i]
    BY <1>5, <1>6
  <2> HIDE DEF s
  <2>2. s = rows
    BY <2>1
  <2> QED BY <2>2 DEF s
<1> QED BY <1>7

(* The loops over the messages after the first, as FoldLeft.               *)
AppendedOver(f, start, items) ==
    [s \in SUBSET DOMAIN items |->
        IF s = {} THEN start ELSE LET x == Max(s) IN BatchAppend(f[s \ {x}], items[x])]
Appended2Over(f, start, items) ==
    [s \in SUBSET DOMAIN items |->
        IF s = {} THEN start ELSE LET x == Max(s) IN Batch2Append(f[s \ {x}], items[x])]

Payloads == {Payload(m) : m \in Messages}
Rows(keys) == {Row(keys, m) : m \in Messages}
Batches2(keys) == [keys : {keys}, values : Seq(Rows(keys))]

(* Batch: start and then append, message by message.                       *)
LEMMA BatchFold ==
    ASSUME NEW items \in Seq(Messages), NEW start \in Seq(Payloads)
    PROVE  \E f \in [0 .. Len(items) -> Seq(Payloads)] :
               /\ f[0] = start
               /\ \A n \in 1 .. Len(items) : f[n] = BatchAppend(f[n - 1], items[n])
               /\ FoldLeft(BatchAppend, start, items) = f[Len(items)]
<1> DEFINE N == Len(items)
           V == Seq(Payloads)
           step == [p \in V \X (1 .. N) |-> BatchAppend(p[1], items[p[2]])]
<1>1. N \in Nat /\ DOMAIN items = 1 .. N /\ \A n \in 1 .. N : items[n] \in Messages
  OBVIOUS
<1>2. \A v \in V : \A m \in Messages : BatchAppend(v, m) \in V
  BY DEF BatchAppend, Payloads
<1>3. step \in Steps(N, V)
  <2>1. \A p \in V \X (1 .. N) : BatchAppend(p[1], items[p[2]]) \in V
    <3> HIDE DEF V, N
    <3> QED BY <1>1, <1>2
  <2> HIDE DEF V, N
  <2> QED BY <2>1 DEF Steps
<1>4. PICK g : Folds(g, N, V, start, step)
  <2> HIDE DEF N, step
  <2> QED BY <1>1, <1>3, FoldDefined
<1>5. g = AppendedOver(g, start, items)
  <2>0. \A s \in SUBSET (1 .. N) : s # {} => Max(s) \in 1 .. N /\ s \ {Max(s)} \in SUBSET (1 .. N)
    <3>1. \A s \in SUBSET (1 .. N) : s \in SUBSET (0 .. N)
      BY <1>1
    <3>2. \A s \in SUBSET (1 .. N) : s # {} => Max(s) \in s
      <4> HIDE DEF N
      <4> QED BY <1>1, <3>1, MaxOfNumbers
    <3> HIDE DEF N
    <3> QED BY <3>2
  <2>1. /\ g \in [SUBSET (1 .. N) -> V]
        /\ \A s \in SUBSET (1 .. N) :
               g[s] = IF s = {} THEN start ELSE step[<<g[s \ {Max(s)}], Max(s)>>]
    <3> HIDE DEF step, V, N
    <3> QED BY <1>4 DEF Folds
  <2>2. \A s \in SUBSET (1 .. N) : s # {} =>
            step[<<g[s \ {Max(s)}], Max(s)>>] = BatchAppend(g[s \ {Max(s)}], items[Max(s)])
    <3>1. \A v \in V : \A n \in 1 .. N : step[<<v, n>>] = BatchAppend(v, items[n])
      <4> HIDE DEF V, N
      <4> QED OBVIOUS
    <3> HIDE DEF V, N, step
    <3> QED BY <2>0, <2>1, <3>1
  <2> HIDE DEF V, N, step
  <2> QED BY <1>1, <2>1, <2>2 DEF AppendedOver
<1> DEFINE h == CHOOSE f : f = AppendedOver(f, start, items)
<1>6. h = AppendedOver(h, start, items)
  BY <1>5
<1>7. FoldLeft(BatchAppend, start, items) = h[1 .. N]
  BY <1>1 DEF FoldLeft, MapThenFoldSet, AppendedOver
<1> HIDE DEF h
<1>8. h[1 .. 0] = start /\ \A n \in 1 .. N : h[1 .. n] = BatchAppend(h[1 .. n - 1], items[n])
  <2>1. \A s \in SUBSET (1 .. N) :
            h[s] = IF s = {} THEN start ELSE BatchAppend(h[s \ {Max(s)}], items[Max(s)])
    BY <1>1, <1>6 DEF AppendedOver
  <2>2. 1 .. 0 = {}
    OBVIOUS
  <2>3. ASSUME NEW n \in 1 .. N
        PROVE  h[1 .. n] = BatchAppend(h[1 .. n - 1], items[n])
    <3>1. n \in Nat /\ n # 0 /\ 1 .. n \in SUBSET (1 .. N)
      BY <1>1
    <3>2. Max(1 .. n) = n /\ (1 .. n) \ {n} = 1 .. (n - 1) /\ 1 .. n # {}
      BY <3>1, Segment
    <3> QED BY <2>1, <3>1, <3>2
  <2> QED BY <2>1, <2>2, <2>3
<1> DEFINE typed == {n \in 0 .. N : h[1 .. n] \in V}
<1>9. 0 .. N \subseteq typed
  <2>1. 0 \in typed
    BY <1>1, <1>8
  <2>2. ASSUME NEW n \in 1 .. N, n - 1 \in typed
        PROVE  n \in typed
    <3>1. n \in 0 .. N /\ items[n] \in Messages
      BY <1>1
    <3> HIDE DEF V, N
    <3> QED BY <1>2, <1>8, <2>2, <3>1
  <2> HIDE DEF typed, N
  <2> QED BY <1>1, <2>1, <2>2, FromOneBefore
<1> DEFINE f == [n \in 0 .. N |-> h[1 .. n]]
<1>10. f \in [0 .. N -> V]
  <2> HIDE DEF V, N
  <2> QED BY <1>9
<1>11. 0 \in 0 .. N /\ N \in 0 .. N /\ \A n \in 1 .. N : n \in 0 .. N /\ n - 1 \in 0 .. N
  BY <1>1
<1>12. f[0] = start /\ f[N] = FoldLeft(BatchAppend, start, items)
  <2> HIDE DEF N, V
  <2> QED BY <1>7, <1>8, <1>11
<1>13. \A n \in 1 .. N : f[n] = BatchAppend(f[n - 1], items[n])
  <2>1. \A n \in 0 .. N : f[n] = h[1 .. n]
    OBVIOUS
  <2> HIDE DEF f, N, V
  <2> QED BY <1>8, <1>11, <2>1
<1> HIDE DEF f
<1> QED BY <1>10, <1>12, <1>13

(* Batch2, whose keys stay those it started with.                          *)
LEMMA Batch2Fold ==
    ASSUME NEW first \in Messages, NEW items \in Seq(Messages), NEW start \in Batches2(Keys(first))
    PROVE  \E f \in [0 .. Len(items) -> Batches2(Keys(first))] :
               /\ f[0] = start
               /\ \A n \in 1 .. Len(items) : f[n] = Batch2Append(f[n - 1], items[n])
               /\ FoldLeft(Batch2Append, start, items) = f[Len(items)]
<1> DEFINE keys == Keys(first)
           N == Len(items)
           V == Batches2(Keys(first))
           step == [p \in V \X (1 .. N) |-> Batch2Append(p[1], items[p[2]])]
<1>1. N \in Nat /\ DOMAIN items = 1 .. N /\ \A n \in 1 .. N : items[n] \in Messages
  OBVIOUS
<1>2. \A v \in V : \A m \in Messages : Batch2Append(v, m) \in V
  <2> SUFFICES ASSUME NEW v \in V, NEW m \in Messages
               PROVE  Batch2Append(v, m) \in V
    OBVIOUS
  <2>1. v.keys = keys /\ v.values \in Seq(Rows(keys)) /\ v = [keys |-> v.keys, values |-> v.values]
    BY DEF Batches2
  <2>2. Append(v.values, Row(keys, m)) \in Seq(Rows(keys))
    BY <2>1 DEF Rows
  <2>3. Batch2Append(v, m) = [keys |-> keys, values |-> Append(v.values, Row(keys, m))]
    <3> DEFINE w == Append(v.values, Row(keys, m))
    <3>1. Batch2Append(v, m) = [v EXCEPT !.values = w]
      BY <2>1 DEF Batch2Append
    <3>2. \E k, l : v = [keys |-> k, values |-> l]
      BY <2>1
    <3> HIDE DEF w
    <3>3. [v EXCEPT !.values = w] = [keys |-> v.keys, values |-> w]
      BY <3>2
    <3> QED BY <2>1, <3>1, <3>3 DEF w
  <2> QED BY <2>2, <2>3 DEF Batches2
<1>3. step \in Steps(N, V)
  <2>1. \A p \in V \X (1 .. N) : Batch2Append(p[1], items[p[2]]) \in V
    <3> HIDE DEF V, N
    <3> QED BY <1>1, <1>2
  <2> HIDE DEF V, N
  <2> QED BY <2>1 DEF Steps
<1>4. PICK g : Folds(g, N, V, start, step)
  <2> HIDE DEF N, step
  <2> QED BY <1>1, <1>3, FoldDefined
<1>5. g = Appended2Over(g, start, items)
  <2>0. \A s \in SUBSET (1 .. N) : s # {} => Max(s) \in 1 .. N /\ s \ {Max(s)} \in SUBSET (1 .. N)
    <3>1. \A s \in SUBSET (1 .. N) : s \in SUBSET (0 .. N)
      BY <1>1
    <3>2. \A s \in SUBSET (1 .. N) : s # {} => Max(s) \in s
      <4> HIDE DEF N
      <4> QED BY <1>1, <3>1, MaxOfNumbers
    <3> HIDE DEF N
    <3> QED BY <3>2
  <2>1. /\ g \in [SUBSET (1 .. N) -> V]
        /\ \A s \in SUBSET (1 .. N) :
               g[s] = IF s = {} THEN start ELSE step[<<g[s \ {Max(s)}], Max(s)>>]
    <3> HIDE DEF step, V, N
    <3> QED BY <1>4 DEF Folds
  <2>2. \A s \in SUBSET (1 .. N) : s # {} =>
            step[<<g[s \ {Max(s)}], Max(s)>>] = Batch2Append(g[s \ {Max(s)}], items[Max(s)])
    <3>1. \A v \in V : \A n \in 1 .. N : step[<<v, n>>] = Batch2Append(v, items[n])
      <4> HIDE DEF V, N
      <4> QED OBVIOUS
    <3> HIDE DEF V, N, step
    <3> QED BY <2>0, <2>1, <3>1
  <2> HIDE DEF V, N, step
  <2> QED BY <1>1, <2>1, <2>2 DEF Appended2Over
<1> DEFINE h == CHOOSE f : f = Appended2Over(f, start, items)
<1>6. h = Appended2Over(h, start, items)
  BY <1>5
<1>7. FoldLeft(Batch2Append, start, items) = h[1 .. N]
  BY <1>1 DEF FoldLeft, MapThenFoldSet, Appended2Over
<1> HIDE DEF h
<1>8. h[1 .. 0] = start /\ \A n \in 1 .. N : h[1 .. n] = Batch2Append(h[1 .. n - 1], items[n])
  <2>1. \A s \in SUBSET (1 .. N) :
            h[s] = IF s = {} THEN start ELSE Batch2Append(h[s \ {Max(s)}], items[Max(s)])
    BY <1>1, <1>6 DEF Appended2Over
  <2>2. 1 .. 0 = {}
    OBVIOUS
  <2>3. ASSUME NEW n \in 1 .. N
        PROVE  h[1 .. n] = Batch2Append(h[1 .. n - 1], items[n])
    <3>1. n \in Nat /\ n # 0 /\ 1 .. n \in SUBSET (1 .. N)
      BY <1>1
    <3>2. Max(1 .. n) = n /\ (1 .. n) \ {n} = 1 .. (n - 1) /\ 1 .. n # {}
      BY <3>1, Segment
    <3> QED BY <2>1, <3>1, <3>2
  <2> QED BY <2>1, <2>2, <2>3
<1> DEFINE typed == {n \in 0 .. N : h[1 .. n] \in V}
<1>9. 0 .. N \subseteq typed
  <2>1. 0 \in typed
    BY <1>1, <1>8
  <2>2. ASSUME NEW n \in 1 .. N, n - 1 \in typed
        PROVE  n \in typed
    <3>1. n \in 0 .. N /\ items[n] \in Messages
      BY <1>1
    <3> HIDE DEF V, N
    <3> QED BY <1>2, <1>8, <2>2, <3>1
  <2> HIDE DEF typed, N
  <2> QED BY <1>1, <2>1, <2>2, FromOneBefore
<1> DEFINE f == [n \in 0 .. N |-> h[1 .. n]]
<1>10. f \in [0 .. N -> V]
  <2> HIDE DEF V, N
  <2> QED BY <1>9
<1>11. 0 \in 0 .. N /\ N \in 0 .. N /\ \A n \in 1 .. N : n \in 0 .. N /\ n - 1 \in 0 .. N
  BY <1>1
<1>12. f[0] = start /\ f[N] = FoldLeft(Batch2Append, start, items)
  <2> HIDE DEF N, V
  <2> QED BY <1>7, <1>8, <1>11
<1>13. \A n \in 1 .. N : f[n] = Batch2Append(f[n - 1], items[n])
  <2>1. \A n \in 0 .. N : f[n] = h[1 .. n]
    OBVIOUS
  <2> HIDE DEF f, N, V
  <2> QED BY <1>8, <1>11, <2>1
<1> HIDE DEF f
<1> QED BY <1>10, <1>12, <1>13

(* keys lists the fields of a payload, each of them.                       *)
LEMMA FieldsListed ==
    ASSUME NEW m \in Messages, Payload(m) # NoPayload
    PROVE  Keys(m) \in Seq(DOMAIN Payload(m)) /\ ToSet(Keys(m)) = DOMAIN Payload(m)
<1> DEFINE fields == DOMAIN Payload(m)
           n == Cardinality(fields)
           keys == Keys(m)
<1>1. IsFiniteSet(fields)
  BY PayloadAssumption
<1>2. n \in Nat /\ ExistsBijection(1 .. n, fields)
  <2> HIDE DEF fields
  <2> QED BY <1>1, FS_CardinalityType
<1>3. keys = CHOOSE f \in [1 .. n -> fields] : IsInjective(f)
  BY DEF Keys, SetToSeq
<1> HIDE DEF fields, keys
<1>4. \E f \in [1 .. n -> fields] : IsInjective(f)
  BY <1>2 DEF ExistsBijection, Bijection, Injection
<1>5. keys \in [1 .. n -> fields] /\ IsInjective(keys)
  <2> HIDE DEF n
  <2> QED BY <1>3, <1>4
<1>6. keys \in Injection(1 .. n, fields)
  BY <1>5 DEF Injection
<1>7. Cardinality(1 .. n) = Cardinality(fields)
  <2> HIDE DEF n
  <2>1. 0 \in Int /\ 1 \in Int /\ n \in Int
    BY <1>2
  <2> QED BY <1>2, <2>1, FS_Interval DEF n
<1>8. keys \in Surjection(1 .. n, fields)
  <2> HIDE DEF n
  <2> QED BY <1>1, <1>6, <1>7, FS_Injection
<1>9. keys \in Seq(fields) /\ DOMAIN keys = 1 .. n
  <2> HIDE DEF n
  <2> QED BY <1>2, <1>5
<1>10. ToSet(keys) = fields
  <2> HIDE DEF n
  <2> QED BY <1>8, <1>9 DEF ToSet, Surjection
<1> QED BY <1>9, <1>10 DEF fields, keys

(* What either kind of batch holds.                                        *)
LEMMA BatchHolds ==
    ASSUME NEW items \in Seq(Messages), items # << >>
    PROVE  BatchOf(items) = [j \in DOMAIN items |-> Payload(items[j])]
<1> DEFINE rest == Tail(items)
           rows == [j \in DOMAIN items |-> Payload(items[j])]
           start == BatchStart(items[1])
<1>1. /\ rest \in Seq(Messages) /\ Len(rest) = Len(items) - 1 /\ Head(items) = items[1]
      /\ \A n \in 1 .. Len(rest) : rest[n] = items[n + 1]
      /\ Len(items) \in Nat /\ DOMAIN items = 1 .. Len(items) /\ 1 \in DOMAIN items
      /\ \A j \in DOMAIN items : items[j] \in Messages
  OBVIOUS
<1>2. rows \in Seq(Payloads) /\ rows # << >> /\ Len(rows) = Len(items)
  <2>1. \A j \in DOMAIN items : Payload(items[j]) \in Payloads
    BY <1>1 DEF Payloads
  <2>2. rows \in [1 .. Len(items) -> Payloads]
    BY <1>1, <2>1
  <2> HIDE DEF rows
  <2> QED BY <1>1, <2>2
<1>3. start = <<rows[1]>> /\ start \in Seq(Payloads)
  <2>1. Payload(items[1]) \in Payloads
    BY <1>1 DEF Payloads
  <2> QED BY <1>1, <2>1 DEF BatchStart
<1> HIDE DEF start, rest
<1>4. PICK f \in [0 .. Len(rest) -> Seq(Payloads)] :
          /\ f[0] = start
          /\ \A n \in 1 .. Len(rest) : f[n] = BatchAppend(f[n - 1], rest[n])
          /\ FoldLeft(BatchAppend, start, rest) = f[Len(rest)]
  BY <1>1, <1>3, BatchFold
<1>5. ASSUME NEW n \in 1 .. Len(rest)
      PROVE  f[n] = Append(f[n - 1], rows[n + 1])
  <2>1. n + 1 \in DOMAIN items
    BY <1>1
  <2>2. f[n] = BatchAppend(f[n - 1], items[n + 1])
    BY <1>1, <1>4
  <2> QED BY <2>1, <2>2 DEF BatchAppend
<1>6. f[Len(rest)] = rows
  <2> HIDE DEF rows
  <2>1. f \in [0 .. Len(rows) - 1 -> Seq(Payloads)] /\ Len(rest) = Len(rows) - 1
    BY <1>1, <1>2
  <2>2. \A n \in 1 .. Len(rows) - 1 : f[n] = Append(f[n - 1], rows[n + 1])
    BY <1>5, <2>1
  <2>3. f[0] = <<rows[1]>>
    BY <1>3, <1>4
  <2>4. f[Len(rows) - 1] = rows
    BY <1>2, <2>1, <2>2, <2>3, GrownList
  <2> QED BY <2>1, <2>4
<1> QED BY <1>1, <1>4, <1>6 DEF BatchOf, start, rest

LEMMA Batch2Holds ==
    ASSUME NEW items \in Seq(Messages), items # << >>
    PROVE  /\ Batch2Of(items).keys = Keys(items[1])
           /\ Batch2Of(items).values = [j \in DOMAIN items |-> Row(Keys(items[1]), items[j])]
<1> DEFINE rest == Tail(items)
           keys == Keys(items[1])
           rows == [j \in DOMAIN items |-> Row(keys, items[j])]
           start == Batch2Start(items[1])
<1>1. /\ rest \in Seq(Messages) /\ Len(rest) = Len(items) - 1 /\ Head(items) = items[1]
      /\ \A n \in 1 .. Len(rest) : rest[n] = items[n + 1]
      /\ Len(items) \in Nat /\ DOMAIN items = 1 .. Len(items) /\ 1 \in DOMAIN items
      /\ \A j \in DOMAIN items : items[j] \in Messages
  OBVIOUS
<1>0. \A j \in DOMAIN items : Row(keys, items[j]) \in Rows(keys)
  BY <1>1 DEF Rows
<1>2. rows \in Seq(Rows(keys)) /\ rows # << >> /\ Len(rows) = Len(items)
  <2>1. rows \in [1 .. Len(items) -> Rows(keys)]
    BY <1>0, <1>1
  <2> HIDE DEF rows, keys
  <2> QED BY <1>1, <2>1
<1>3. start = [keys |-> keys, values |-> <<rows[1]>>] /\ start \in Batches2(keys)
  <2>1. start = [keys |-> keys, values |-> <<Row(keys, items[1])>>] /\ rows[1] = Row(keys, items[1])
    BY <1>1 DEF Batch2Start
  <2>2. Row(keys, items[1]) \in Rows(keys)
    BY <1>0, <1>1
  <2> HIDE DEF start, rows, keys
  <2> QED BY <2>1, <2>2 DEF Batches2
<1> HIDE DEF start, rest, keys, rows
<1>4. PICK f \in [0 .. Len(rest) -> Batches2(keys)] :
          /\ f[0] = start
          /\ \A n \in 1 .. Len(rest) : f[n] = Batch2Append(f[n - 1], rest[n])
          /\ FoldLeft(Batch2Append, start, rest) = f[Len(rest)]
  <2>1. rest \in Seq(Messages) /\ start \in Batches2(keys)
    BY <1>1, <1>3
  <2> QED BY <1>1, <2>1, Batch2Fold DEF keys
<1>5. \A n \in 0 .. Len(rest) : f[n].keys = keys /\ f[n].values \in Seq(Rows(keys))
  BY <1>4 DEF Batches2
<1> DEFINE g == [n \in 0 .. Len(rest) |-> f[n].values]
<1>6. ASSUME NEW n \in 1 .. Len(rest)
      PROVE  g[n] = Append(g[n - 1], rows[n + 1])
  <2>1. n + 1 \in DOMAIN items /\ n \in 0 .. Len(rest) /\ n - 1 \in 0 .. Len(rest)
    BY <1>1
  <2>2. f[n] = Batch2Append(f[n - 1], items[n + 1])
    BY <1>1, <1>4
  <2>3. \E k, l : f[n - 1] = [keys |-> k, values |-> l]
    BY <2>1, <1>4 DEF Batches2
  <2>4. f[n].values = Append(f[n - 1].values, Row(f[n - 1].keys, items[n + 1]))
    BY <2>2, <2>3 DEF Batch2Append
  <2>5. f[n - 1].keys = keys /\ rows[n + 1] = Row(keys, items[n + 1])
    BY <1>5, <2>1 DEF rows
  <2> QED BY <2>1, <2>4, <2>5
<1>7. g[Len(rest)] = rows
  <2>0. g \in [0 .. Len(rest) -> Seq(Rows(keys))] /\ g[0] = <<rows[1]>>
    <3>1. 0 \in 0 .. Len(rest)
      BY <1>1
    <3>2. f[0].values = <<rows[1]>>
      BY <1>3, <1>4
    <3> QED BY <1>5, <3>1, <3>2
  <2> HIDE DEF rows, g
  <2>1. g \in [0 .. Len(rows) - 1 -> Seq(Rows(keys))] /\ Len(rest) = Len(rows) - 1
    BY <1>1, <1>2, <2>0
  <2>2. \A n \in 1 .. Len(rows) - 1 : g[n] = Append(g[n - 1], rows[n + 1])
    BY <1>6, <2>1
  <2>4. g[Len(rows) - 1] = rows
    BY <1>2, <2>0, <2>1, <2>2, GrownList
  <2> QED BY <2>1, <2>4
<1>8. Len(rest) \in 0 .. Len(rest)
  BY <1>1
<1>9. f[Len(rest)].keys = keys /\ f[Len(rest)].values = rows
  BY <1>5, <1>7, <1>8
<1>10. Batch2Of(items) = f[Len(rest)]
  BY <1>1, <1>4 DEF Batch2Of, start, rest
<1> QED BY <1>9, <1>10 DEF keys, rows

(* A message that the batch takes has the fields of the first one.         *)
LEMMA FieldsTaken ==
    ASSUME NEW m \in Messages, NEW n \in Messages, Batch2Takes(Batch2Start(m), n),
           Payload(n) # NoPayload
    PROVE  Keys(n) = Keys(m)
<1>1. DOMAIN Payload(n) = ToSet(Keys(m))
  BY DEF Batch2Takes, Batch2Start
<1>2. CASE Payload(m) # NoPayload
  <2>1. DOMAIN Payload(n) = DOMAIN Payload(m)
    BY <1>1, <1>2, FieldsListed
  <2> QED BY <1>2, <2>1 DEF Keys
<1>3. CASE Payload(m) = NoPayload
  <2>1. Keys(m) = << >> /\ DOMAIN Payload(n) = {}
    BY <1>1, <1>3 DEF Keys, ToSet
  <2>2. Keys(n) \in Seq({})
    BY <2>1, FieldsListed
  <2>3. Keys(n) = << >>
    BY <2>2
  <2> QED BY <2>1, <2>3
<1> QED BY <1>2, <1>3

(* A row, read by the keys of the batch, is the payload again.             *)
RowRead(keys, row) ==
    [f \in ToSet(keys) |-> row[CHOOSE k \in DOMAIN keys : keys[k] = f]]

LEMMA RowReadable ==
    ASSUME NEW m \in Messages, Payload(m) # NoPayload
    PROVE  Payload(m) = RowRead(Keys(m), Row(Keys(m), m))
<1> DEFINE keys == Keys(m)
           at(f) == CHOOSE k \in DOMAIN keys : keys[k] = f
<1>1. ToSet(keys) = DOMAIN Payload(m)
  BY FieldsListed
<1>2. Row(keys, m) = [i \in DOMAIN keys |-> Payload(m)[keys[i]]]
  BY DEF Row
<1>3. Payload(m) = [f \in DOMAIN Payload(m) |-> Payload(m)[f]]
  BY PayloadAssumption
<1> HIDE DEF keys
<1>4. ASSUME NEW f \in ToSet(keys)
      PROVE  Row(keys, m)[at(f)] = Payload(m)[f]
  <2>1. \E k \in DOMAIN keys : keys[k] = f
    BY <1>4 DEF ToSet
  <2>2. at(f) \in DOMAIN keys /\ keys[at(f)] = f
    BY <2>1
  <2> HIDE DEF at
  <2> QED BY <1>2, <2>2
<1>5. [f \in ToSet(keys) |-> Row(keys, m)[at(f)]] = [f \in DOMAIN Payload(m) |-> Payload(m)[f]]
  <2> HIDE DEF at
  <2> QED BY <1>1, <1>4
<1> QED BY <1>3, <1>5 DEF RowRead, keys

LEMMA BatchReadable ==
    ASSUME NEW items \in Seq(Messages), items # << >>,
           \A j \in DOMAIN items : Batch2Takes(Batch2Start(items[1]), items[j])
    PROVE  Read2(Batch2Of(items)) = [j \in DOMAIN items |-> Payload(items[j])]
<1> DEFINE keys == Keys(items[1])
           batch == Batch2Of(items)
<1>1. /\ DOMAIN items = 1 .. Len(items) /\ items[1] \in Messages
      /\ \A j \in DOMAIN items : items[j] \in Messages
  OBVIOUS
<1>2. ASSUME NEW j \in DOMAIN items, Payload(items[j]) # NoPayload
      PROVE  Keys(items[j]) = keys
  <2>1. items[j] \in Messages
    BY <1>1
  <2> QED BY <1>1, <1>2, <2>1, FieldsTaken
<1>4. batch.keys = keys /\ batch.values = [j \in DOMAIN items |-> Row(keys, items[j])]
  BY Batch2Holds
<1>5. DOMAIN batch.values = DOMAIN items
  BY <1>4
<1> HIDE DEF keys, batch
<1>6. ASSUME NEW j \in DOMAIN items
      PROVE  Payload(items[j]) =
                 IF batch.values[j] = NoPayload THEN NoPayload
                 ELSE RowRead(batch.keys, batch.values[j])
  <2> DEFINE m == items[j]
  <2>1. m \in Messages /\ batch.values[j] = Row(keys, m)
    BY <1>1, <1>4
  <2>2. CASE Payload(m) = NoPayload
    BY <2>1, <2>2 DEF Row
  <2>3. CASE Payload(m) # NoPayload
    <3>0. Keys(m) = keys
      BY <1>2, <2>3
    <3> HIDE DEF m
    <3>1. Row(keys, m) # NoPayload
      BY <2>1, <2>3, <3>0, PayloadAssumption
    <3>2. Payload(m) = RowRead(keys, Row(keys, m))
      BY <2>1, <2>3, <3>0, RowReadable
    <3> QED BY <1>4, <2>1, <3>1, <3>2 DEF m
  <2> QED BY <2>2, <2>3
<1>7. Read2(batch) = [j \in DOMAIN items |-> Payload(items[j])]
  BY <1>5, <1>6 DEF Read2, RowRead
<1> QED BY <1>7 DEF batch

(* A client can read every batch, of either kind, although the messages of *)
(* one class may differ in their fields: a Batch lists whole payloads, and *)
(* a Batch2 that was sent refused none of its messages, so each row, read  *)
(* by the keys of the first, is a payload.                                 *)
THEOREM BatchesAreReadable == Spec => []BatchesReadable
<1>1. SenderInv => BatchesReadable
  <2> SUFFICES ASSUME SenderInv, NEW i \in DOMAIN sent, Len(sent[i]) > 1
               PROVE  LET payloads == [j \in DOMAIN sent[i] |-> Payload(sent[i][j])] IN
                      /\ Factory = "batch"  => BatchOf(sent[i]) = payloads
                      /\ Factory = "batch2" => Read2(Batch2Of(sent[i])) = payloads
    BY DEF BatchesReadable
  <2> DEFINE items == sent[i]
  <2>1. items \in Seq(Messages) /\ Len(items) > 1
    BY DEF SenderInv, TypeOK
  <2>2. Taken(items)
    BY DEF SenderInv, AllSound, Sound
  <2> HIDE DEF items
  <2>3. items # << >>
    BY <2>1
  <2>4. BatchOf(items) = [j \in DOMAIN items |-> Payload(items[j])]
    BY <2>1, <2>3, BatchHolds
  <2>5. ASSUME Factory = "batch2"
        PROVE  Read2(Batch2Of(items)) = [j \in DOMAIN items |-> Payload(items[j])]
    <3>1. \A j \in DOMAIN items : Batch2Takes(Batch2Start(items[1]), items[j])
      BY <2>2, <2>5 DEF Taken, Appendable
    <3> QED BY <2>1, <2>3, <3>1, BatchReadable
  <2> QED BY <2>4, <2>5 DEF items
<1> QED BY <1>1, SenderInvariant, PTL

=============================================================================
