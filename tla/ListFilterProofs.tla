--------------------------- MODULE ListFilterProofs ---------------------------
(***************************************************************************)
(* Facts about lists that the pages filter, join and page: which entries   *)
(* they have, whether one twice, and in which order.                       *)
(*                                                                         *)
(* The position of an entry that is kept is given by how many kept entries *)
(* there are before it.                                                    *)
(***************************************************************************)
EXTENDS ListFilter, SequencesExt, FiniteSetTheorems, SequenceTheorems, TLAPS

\* The further on in a set of positions, the more there are before.
LEMMA BeforeCounts ==
  ASSUME NEW n \in Nat, NEW P \in SUBSET (1 .. n)
  PROVE  /\ IsFiniteSet(P) /\ Cardinality(P) \in Nat
         /\ \A i \in P : Cardinality(Before(P, i)) \in 0 .. (Cardinality(P) - 1)
         /\ \A i, j \in P : i < j => Cardinality(Before(P, i)) < Cardinality(Before(P, j))
<1>1. IsFiniteSet(P) /\ Cardinality(P) \in Nat
  <2>1. IsFiniteSet(1 .. n)
    BY FS_Interval
  <2> QED
    BY <2>1, FS_Subset, FS_CardinalityType
<1>2. \A i \in P : IsFiniteSet(Before(P, i)) /\ Cardinality(Before(P, i)) \in Nat
  <2>1. \A i \in P : Before(P, i) \in SUBSET P
    BY DEF Before
  <2> QED
    BY <1>1, <2>1, FS_Subset, FS_CardinalityType
<1>3. ASSUME NEW i \in P PROVE Cardinality(Before(P, i)) < Cardinality(P)
  <2>1. Before(P, i) \in SUBSET P /\ i \notin Before(P, i)
    BY DEF Before
  <2>2. Cardinality(Before(P, i)) <= Cardinality(P) /\ Cardinality(P) # Cardinality(Before(P, i))
    BY <1>1, <2>1, FS_Subset
  <2> QED
    BY <1>1, <1>2, <2>2
<1>4. ASSUME NEW i \in P, NEW j \in P, i < j
      PROVE  Cardinality(Before(P, i)) < Cardinality(Before(P, j))
  <2>1. Before(P, i) \in SUBSET Before(P, j) /\ i \in Before(P, j) /\ i \notin Before(P, i)
    <3>1. i \in Int /\ j \in Int
      OBVIOUS
    <3>2. ASSUME NEW l \in P, l < i PROVE l < j
      <4>1. l \in Int
        OBVIOUS
      <4> QED
        BY <1>4, <3>1, <3>2, <4>1
    <3>3. Before(P, i) \subseteq Before(P, j)
      BY <3>2 DEF Before
    <3> QED
      BY <1>4, <3>1, <3>3 DEF Before
  <2>2. /\ Cardinality(Before(P, i)) <= Cardinality(Before(P, j))
        /\ Cardinality(Before(P, i)) # Cardinality(Before(P, j))
    BY <1>2, <2>1, FS_Subset
  <2> QED
    BY <1>2, <2>2
<1> QED
  BY <1>1, <1>2, <1>3, <1>4

\* Every position of P is the one with some number of others before it.
LEMMA EveryPlace ==
  ASSUME NEW n \in Nat, NEW P \in SUBSET (1 .. n)
  PROVE  /\ \A m \in 1 .. Cardinality(P) : \E i \in P : Cardinality(Before(P, i)) = m - 1
         /\ \A i \in P : \E m \in 1 .. Cardinality(P) : Cardinality(Before(P, i)) = m - 1
         /\ \A i, j \in P : Cardinality(Before(P, i)) = Cardinality(Before(P, j)) => i = j
<1> DEFINE c == Cardinality(P)
           Q == 0 .. (c - 1)
           f == [i \in P |-> Cardinality(Before(P, i))]
<1>1. c \in Nat /\ IsFiniteSet(P)
  BY BeforeCounts
<1>2. IsFiniteSet(Q) /\ Cardinality(Q) = c
  <2>1. 0 \in Int /\ c - 1 \in Int
    BY <1>1
  <2>2. IsFiniteSet(Q) /\ Cardinality(Q) = IF 0 > c - 1 THEN 0 ELSE c - 1 - 0 + 1
    BY <2>1, FS_Interval
  <2> QED
    BY <1>1, <2>2
<1>3. f \in [P -> Q]
  BY BeforeCounts
<1>4. \A i, j \in P : f[i] = f[j] => i = j
  <2>1. \A i, j \in P : i # j => i < j \/ j < i
    OBVIOUS
  <2>2. \A i, j \in P : i < j => f[i] < f[j]
    BY BeforeCounts
  <2>3. \A i \in P : f[i] \in Int
    BY <1>1, <1>3
  <2> HIDE DEF f
  <2> QED
    BY <2>1, <2>2, <2>3
<1>5. f \in Injection(P, Q)
  BY <1>3, <1>4, Zenon DEF Injection, IsInjective
<1>6. f \in Surjection(P, Q)
  BY <1>1, <1>2, <1>5, FS_Injection
<1>7. \A q \in Q : \E i \in P : f[i] = q
  BY <1>6 DEF Surjection
<1>8. \A m \in 1 .. c : m - 1 \in Q
  BY <1>1
<1>9. \A i \in P : f[i] + 1 \in 1 .. c /\ f[i] = (f[i] + 1) - 1
  BY <1>1, <1>3
<1> QED
  BY <1>4, <1>7, <1>8, <1>9

\* The entries at some positions of a list: which there are, and whether one twice.
LEMMA KeptAt ==
  ASSUME NEW S, NEW s \in Seq(S), NEW P \in SUBSET (DOMAIN s)
  PROVE  /\ KeepAt(s, P) \in Seq(S)
         /\ ToSet(KeepAt(s, P)) = {s[i] : i \in P}
         /\ IsInjective(s) => IsInjective(KeepAt(s, P))
<1> DEFINE n == Len(s)
           c == Cardinality(P)
           r == KeepAt(s, P)
           at(m) == CHOOSE i \in P : Cardinality(Before(P, i)) = m - 1
<1>1. n \in Nat /\ DOMAIN s = 1 .. n /\ P \in SUBSET (1 .. n) /\ \A i \in 1 .. n : s[i] \in S
  OBVIOUS
<1>2. c \in Nat
  BY <1>1, BeforeCounts
<1>3. \A m \in 1 .. c : at(m) \in P /\ Cardinality(Before(P, at(m))) = m - 1
  <2>1. \A m \in 1 .. c : \E i \in P : Cardinality(Before(P, i)) = m - 1
    BY <1>1, EveryPlace
  <2> QED
    BY <2>1
<1>4. r = [m \in 1 .. c |-> s[at(m)]]
  BY DEF KeepAt
<1>5. \A i \in P : \E m \in 1 .. c : at(m) = i
  <2>1. \A i \in P : \E m \in 1 .. c : Cardinality(Before(P, i)) = m - 1
    BY <1>1, EveryPlace
  <2>2. \A i, j \in P : Cardinality(Before(P, i)) = Cardinality(Before(P, j)) => i = j
    BY <1>1, EveryPlace
  <2> HIDE DEF at
  <2> QED
    BY <1>3, <2>1, <2>2
<1>6. \A l, m \in 1 .. c : at(l) = at(m) => l = m
  <2>1. \A l, m \in 1 .. c : at(l) = at(m) => l - 1 = m - 1
    BY <1>3
  <2> HIDE DEF at, c
  <2> QED
    BY <1>2, <2>1
<1>7. \A i \in P : i \in 1 .. n
  BY <1>1
<1> HIDE DEF n, c, r, at
<1>8. r \in [1 .. c -> S] /\ DOMAIN r = 1 .. c
  BY <1>1, <1>3, <1>4, <1>7
<1>9. r \in Seq(S)
  BY <1>2, <1>8
<1>10. ToSet(r) = {s[i] : i \in P}
  <2>1. ASSUME NEW m \in 1 .. c PROVE r[m] \in {s[i] : i \in P}
    BY <1>3, <1>4, <2>1
  <2>2. ASSUME NEW i \in P PROVE s[i] \in ToSet(r)
    <3>1. PICK m \in 1 .. c : at(m) = i
      BY <1>5, <2>2
    <3> QED
      BY <1>4, <1>8, <3>1 DEF ToSet
  <2> QED
    BY <1>8, <2>1, <2>2 DEF ToSet
<1>11. ASSUME IsInjective(s) PROVE IsInjective(r)
  <2>1. \A l, m \in 1 .. c : r[l] = r[m] => at(l) = at(m)
    BY <1>1, <1>3, <1>4, <1>7, <1>11 DEF IsInjective
  <2> QED
    BY <1>6, <1>8, <2>1 DEF IsInjective
<1> QED
  BY <1>9, <1>10, <1>11 DEF r

\* What filtering a list keeps, of which entries are there and which twice.
LEMMA Kept ==
  ASSUME NEW S, NEW s \in Seq(S), NEW T
  PROVE  /\ Keep(s, T) \in Seq(S)
         /\ ToSet(Keep(s, T)) = ToSet(s) \cap T
         /\ IsInjective(s) => IsInjective(Keep(s, T))
<1> DEFINE P == Positions(s, T)
<1>1. P \in SUBSET (DOMAIN s) /\ Keep(s, T) = KeepAt(s, P)
  BY DEF Positions, Keep
<1>2. {s[i] : i \in P} = ToSet(s) \cap T
  BY DEF Positions, ToSet
<1> HIDE DEF P
<1> QED
  BY <1>1, <1>2, KeptAt

\* One entry put after a list.
LEMMA Appended ==
  ASSUME NEW S, NEW s \in Seq(S), NEW x \in S
  PROVE  /\ Append(s, x) \in Seq(S) /\ ToSet(Append(s, x)) = ToSet(s) \cup {x}
         /\ IsInjective(s) /\ x \notin ToSet(s) => IsInjective(Append(s, x))
<1> DEFINE n == Len(s)
           t == Append(s, x)
<1>1. n \in Nat /\ DOMAIN s = 1 .. n
  OBVIOUS
<1>2. /\ t \in Seq(S) /\ DOMAIN t = 1 .. n + 1 /\ t[n + 1] = x
      /\ \A i \in 1 .. n : t[i] = s[i]
  OBVIOUS
<1> HIDE DEF n, t
<1>3. \A i \in 1 .. n + 1 : i \in 1 .. n \/ i = n + 1
  BY <1>1
<1>4. n + 1 \in 1 .. n + 1 /\ \A i \in 1 .. n : i \in 1 .. n + 1
  BY <1>1
<1>5. ToSet(t) = ToSet(s) \cup {x}
  BY <1>1, <1>2, <1>3, <1>4 DEF ToSet
<1>6. ASSUME IsInjective(s), x \notin ToSet(s) PROVE IsInjective(t)
  <2>1. \A i \in 1 .. n : s[i] # x
    BY <1>1, <1>6 DEF ToSet
  <2>2. \A i, j \in 1 .. n : s[i] = s[j] => i = j
    BY <1>1, <1>6 DEF IsInjective
  <2> QED
    BY <1>2, <1>3, <2>1, <2>2 DEF IsInjective
<1> QED
  BY <1>2, <1>5, <1>6 DEF t

\* The first entry taken from a list.
LEMMA Tailed ==
  ASSUME NEW S, NEW s \in Seq(S), s # <<>>
  PROVE  /\ Head(s) \in S /\ Head(s) \in ToSet(s) /\ Tail(s) \in Seq(S)
         /\ IsInjective(s) => IsInjective(Tail(s)) /\ ToSet(Tail(s)) = ToSet(s) \ {Head(s)}
<1> DEFINE n == Len(s)
           t == Tail(s)
<1>1. n \in Nat /\ n # 0 /\ DOMAIN s = 1 .. n /\ Head(s) = s[1] /\ \A i \in 1 .. n : s[i] \in S
  OBVIOUS
<1>2. /\ t \in Seq(S) /\ DOMAIN t = 1 .. n - 1
      /\ \A i \in 1 .. n - 1 : t[i] = s[i + 1]
  OBVIOUS
<1> HIDE DEF n, t
<1>3. 1 \in 1 .. n
  BY <1>1
<1>4. \A i \in 1 .. n - 1 : i + 1 \in 1 .. n /\ i + 1 # 1
  BY <1>1
<1>5. \A i \in 1 .. n : i # 1 => i - 1 \in 1 .. n - 1 /\ (i - 1) + 1 = i
  BY <1>1
<1>6. Head(s) \in S /\ Head(s) \in ToSet(s)
  BY <1>1, <1>3 DEF ToSet
<1>7. ASSUME IsInjective(s)
      PROVE  IsInjective(t) /\ ToSet(t) = ToSet(s) \ {Head(s)}
  <2>1. \A i, j \in 1 .. n : s[i] = s[j] => i = j
    BY <1>1, <1>7 DEF IsInjective
  <2>2. \A i, j \in 1 .. n - 1 : i + 1 = j + 1 => i = j
    BY <1>1
  <2>3. IsInjective(t)
    <3>1. ASSUME NEW i \in 1 .. n - 1, NEW j \in 1 .. n - 1, t[i] = t[j] PROVE i = j
      <4>1. s[i + 1] = s[j + 1]
        BY <1>2, <3>1
      <4>2. i + 1 = j + 1
        BY <1>4, <2>1, <4>1
      <4> QED
        BY <2>2, <4>2
    <3> QED
      BY <1>2, <3>1 DEF IsInjective
  <2>4. \A i \in 1 .. n - 1 : t[i] \in ToSet(s) \ {Head(s)}
    BY <1>1, <1>2, <1>3, <1>4, <2>1 DEF ToSet
  <2>5. \A i \in 1 .. n : i # 1 => s[i] \in ToSet(t)
    <3>1. ASSUME NEW i \in 1 .. n, i # 1 PROVE s[i] \in ToSet(t)
      <4>1. i - 1 \in 1 .. n - 1 /\ t[i - 1] = s[i]
        BY <1>2, <1>5, <3>1
      <4> QED
        BY <1>2, <4>1 DEF ToSet
    <3> QED
      BY <3>1
  <2>6. \A y \in ToSet(t) : y \in ToSet(s) \ {Head(s)}
    BY <1>2, <2>4 DEF ToSet
  <2>7. ASSUME NEW y \in ToSet(s), y # Head(s) PROVE y \in ToSet(t)
    <3>1. PICK i \in 1 .. n : s[i] = y
      BY <1>1 DEF ToSet
    <3> QED
      BY <1>1, <2>5, <2>7, <3>1
  <2> QED
    BY <2>3, <2>6, <2>7
<1> QED
  BY <1>2, <1>6, <1>7 DEF t

\* One list put after another.
LEMMA Joined ==
  ASSUME NEW S, NEW s \in Seq(S), NEW t \in Seq(S)
  PROVE  /\ s \o t \in Seq(S) /\ ToSet(s \o t) = ToSet(s) \cup ToSet(t)
         /\ IsInjective(s) /\ IsInjective(t) /\ ToSet(s) \cap ToSet(t) = {} => IsInjective(s \o t)
<1> DEFINE n == Len(s)
           m == Len(t)
           q == s \o t
<1>1. n \in Nat /\ m \in Nat /\ DOMAIN s = 1 .. n /\ DOMAIN t = 1 .. m
  OBVIOUS
<1>2. /\ q \in Seq(S) /\ Len(q) = n + m
      /\ \A i \in 1 .. n + m : q[i] = IF i <= n THEN s[i] ELSE t[i - n]
  BY ConcatProperties, Zenon
<1>3. DOMAIN q = 1 .. n + m
  BY <1>2
<1> HIDE DEF n, m, q
<1>4. \A i \in 1 .. n : i \in 1 .. n + m /\ q[i] = s[i]
  <2>1. \A i \in 1 .. n : i \in 1 .. n + m /\ i <= n
    BY <1>1
  <2> QED
    BY <1>2, <2>1
<1>5. \A i \in 1 .. m : n + i \in 1 .. n + m /\ q[n + i] = t[i]
  <2>1. \A i \in 1 .. m : n + i \in 1 .. n + m /\ ~(n + i <= n) /\ (n + i) - n = i
    BY <1>1
  <2> QED
    BY <1>2, <2>1
<1>6. \A i \in 1 .. n + m : i \in 1 .. n \/ (i - n \in 1 .. m /\ n + (i - n) = i)
  BY <1>1
<1>7. ToSet(q) = ToSet(s) \cup ToSet(t)
  <2>1. \A i \in 1 .. n + m : q[i] \in ToSet(s) \cup ToSet(t)
    <3>1. ASSUME NEW i \in 1 .. n + m, i \in 1 .. n PROVE q[i] \in ToSet(s)
      BY <1>1, <1>4, <3>1 DEF ToSet
    <3>2. ASSUME NEW i \in 1 .. n + m, i - n \in 1 .. m, n + (i - n) = i PROVE q[i] \in ToSet(t)
      <4>1. q[n + (i - n)] = t[i - n]
        BY <1>5, <3>2
      <4> QED
        BY <1>1, <3>2, <4>1 DEF ToSet
    <3> QED
      BY <1>6, <3>1, <3>2
  <2>2. \A i \in 1 .. n : s[i] \in ToSet(q)
    <3>1. \A i \in 1 .. n : i \in DOMAIN q /\ s[i] = q[i]
      BY <1>3, <1>4
    <3> QED
      BY <3>1 DEF ToSet
  <2>3. \A i \in 1 .. m : t[i] \in ToSet(q)
    <3>1. \A i \in 1 .. m : n + i \in DOMAIN q /\ t[i] = q[n + i]
      BY <1>3, <1>5
    <3> QED
      BY <3>1 DEF ToSet
  <2> QED
    BY <1>1, <1>3, <2>1, <2>2, <2>3 DEF ToSet
<1>8. ASSUME IsInjective(s), IsInjective(t), ToSet(s) \cap ToSet(t) = {} PROVE IsInjective(q)
  <2>1. /\ \A i, j \in 1 .. n : s[i] = s[j] => i = j
        /\ \A i, j \in 1 .. m : t[i] = t[j] => i = j
        /\ \A i \in 1 .. n, j \in 1 .. m : s[i] # t[j]
    <3>1. \A i \in 1 .. n, j \in 1 .. m : s[i] \in ToSet(s) /\ t[j] \in ToSet(t)
      BY <1>1 DEF ToSet
    <3> QED
      BY <1>1, <1>8, <3>1 DEF IsInjective
  <2>2. ASSUME NEW i \in 1 .. n + m, NEW j \in 1 .. n + m, q[i] = q[j] PROVE i = j
    <3>1. CASE i \in 1 .. n /\ j \in 1 .. n
      BY <1>4, <2>1, <2>2, <3>1
    <3>2. CASE i \in 1 .. n /\ j - n \in 1 .. m /\ n + (j - n) = j
      <4>1. q[i] = s[i] /\ q[n + (j - n)] = t[j - n]
        BY <1>4, <1>5, <3>2
      <4> QED
        BY <2>1, <2>2, <3>2, <4>1
    <3>3. CASE j \in 1 .. n /\ i - n \in 1 .. m /\ n + (i - n) = i
      <4>1. q[j] = s[j] /\ q[n + (i - n)] = t[i - n]
        BY <1>4, <1>5, <3>3
      <4> QED
        BY <2>1, <2>2, <3>3, <4>1
    <3>4. CASE i - n \in 1 .. m /\ n + (i - n) = i /\ j - n \in 1 .. m /\ n + (j - n) = j
      <4>1. q[n + (i - n)] = t[i - n] /\ q[n + (j - n)] = t[j - n]
        BY <1>5, <3>4
      <4>2. i - n = j - n
        BY <2>1, <2>2, <3>4, <4>1
      <4> QED
        BY <3>4, <4>2
    <3> QED
      BY <1>6, <3>1, <3>2, <3>3, <3>4
  <2> QED
    BY <1>3, <2>2 DEF IsInjective
<1> QED
  BY <1>2, <1>7, <1>8 DEF q

LEMMA NoEntries == ToSet(<<>>) = {} /\ IsInjective(<<>>)
BY DEF ToSet, IsInjective

LEMMA Entries == \A S : \A q \in Seq(S) : ToSet(q) \subseteq S
BY DEF ToSet

LEMMA OneEntry ==
  ASSUME NEW S, NEW q \in Seq(S), Len(q) = 1
  PROVE  ToSet(q) = {q[1]} /\ q[1] \in S
BY DEF ToSet

\* What list_shares answers.
LEMMA Listing ==
  ASSUME NEW S, NEW T \in SUBSET S, IsFiniteSet(T)
  PROVE  SetToSeq(T) \in Seq(S) /\ ToSet(SetToSeq(T)) = T /\ IsInjective(SetToSeq(T))
<1> DEFINE n == Cardinality(T)
           q == SetToSeq(T)
<1>1. n \in Nat /\ \E f : f \in Bijection(1 .. n, T)
  BY FS_CardinalityType DEF ExistsBijection
<1>2. \E f \in [1 .. n -> T] : IsInjective(f)
  BY <1>1, Zenon DEF Bijection, Injection
<1>3. q \in [1 .. n -> T] /\ IsInjective(q)
  BY <1>2 DEF SetToSeq
<1>4. q \in Seq(S)
  BY <1>1, <1>3
<1>5. q \in Injection(1 .. n, T)
  BY <1>3 DEF Injection, IsInjective
<1>6. IsFiniteSet(1 .. n) /\ Cardinality(1 .. n) = n
  BY <1>1, FS_Interval
<1>7. q \in Surjection(1 .. n, T)
  BY <1>5, <1>6, FS_Injection
<1>8. ToSet(q) = T
  BY <1>3, <1>7 DEF Surjection, ToSet
<1> QED
  BY <1>3, <1>4, <1>8

\* One entry put before a list.
LEMMA Prepended ==
  ASSUME NEW S, NEW s \in Seq(S), NEW q \in Seq(S), Len(q) = 1, NEW t, t = q \o s
  PROVE  /\ t \in Seq(S) /\ ToSet(t) = {q[1]} \cup ToSet(s)
         /\ IsInjective(s) /\ q[1] \notin ToSet(s) => IsInjective(t)
<1> DEFINE n == Len(s)
<1>0. n \in Nat /\ DOMAIN s = 1 .. n
  OBVIOUS
<1>1. /\ t \in Seq(S) /\ Len(t) = 1 + n
      /\ \A i \in 1 .. (1 + n) : t[i] = IF i <= 1 THEN q[i] ELSE s[i - 1]
  <2>1. /\ q \o s \in Seq(S) /\ Len(q \o s) = Len(q) + Len(s)
        /\ \A i \in 1 .. Len(q) + Len(s) :
             (q \o s)[i] = IF i <= Len(q) THEN q[i] ELSE s[i - Len(q)]
    BY ConcatProperties, Zenon
  <2> QED
    BY <2>1, Zenon
<1>2. DOMAIN t = 1 .. (1 + n)
  BY <1>1
<1> HIDE DEF n
<1>3. t[1] = q[1] /\ \A j \in 1 .. (1 + n) : j # 1 => t[j] = s[j - 1] /\ j - 1 \in 1 .. n
  <2>1. 1 \in 1 .. (1 + n) /\ 1 <= 1
    BY <1>0
  <2>2. \A j \in 1 .. (1 + n) : j # 1 => ~(j <= 1) /\ j - 1 \in 1 .. n
    BY <1>0
  <2> QED
    BY <1>1, <2>1, <2>2
<1>4. 1 \in 1 .. (1 + n) /\ \A i \in 1 .. n : i + 1 \in 1 .. (1 + n) /\ t[i + 1] = s[i]
  <2>1. 1 \in 1 .. (1 + n)
    BY <1>0
  <2>2. \A i \in 1 .. n : i + 1 \in 1 .. (1 + n) /\ i + 1 # 1 /\ (i + 1) - 1 = i
    BY <1>0
  <2> QED
    BY <1>3, <2>1, <2>2
<1>5. ToSet(t) = {q[1]} \cup ToSet(s)
  <2>1. \A x \in ToSet(t) : x = q[1] \/ x \in ToSet(s)
    BY <1>0, <1>2, <1>3 DEF ToSet
  <2>2. q[1] \in ToSet(t)
    BY <1>2, <1>3, <1>4 DEF ToSet
  <2>3. \A x \in ToSet(s) : x \in ToSet(t)
    <3>1. \A i \in 1 .. n : s[i] \in ToSet(t)
      BY <1>2, <1>4 DEF ToSet
    <3> QED
      BY <1>0, <3>1 DEF ToSet
  <2> QED
    BY <2>1, <2>2, <2>3
<1>6. ASSUME IsInjective(s), q[1] \notin ToSet(s) PROVE IsInjective(t)
  <2>1. /\ \A i, j \in 1 .. n : s[i] = s[j] => i = j
        /\ \A i \in 1 .. n : s[i] # q[1]
    BY <1>0, <1>6 DEF IsInjective, ToSet
  <2>2. \A i, j \in 1 .. (1 + n) : i - 1 = j - 1 => i = j
    BY <1>0
  <2>3. \A i, j \in 1 .. (1 + n) : t[i] = t[j] => i = j
    <3>1. ASSUME NEW i \in 1 .. (1 + n), NEW j \in 1 .. (1 + n), t[i] = t[j], i # 1, j # 1
          PROVE  i = j
      <4>1. i - 1 \in 1 .. n /\ j - 1 \in 1 .. n /\ s[i - 1] = s[j - 1]
        BY <1>3, <3>1
      <4>2. i - 1 = j - 1
        BY <2>1, <4>1
      <4> QED
        BY <2>2, <4>2
    <3>2. ASSUME NEW j \in 1 .. (1 + n), j # 1 PROVE t[j] # t[1]
      <4>1. j - 1 \in 1 .. n /\ t[j] = s[j - 1] /\ t[1] = q[1]
        BY <1>3, <3>2
      <4> QED
        BY <2>1, <4>1
    <3> QED
      BY <3>1, <3>2
  <2> QED
    BY <1>2, <2>3 DEF IsInjective
<1> QED
  BY <1>1, <1>5, <1>6

-----------------------------------------------------------------------------
(* The order of what is kept.                                                *)

\* n positions in ascending order.
Ascends(f, n) == \A l, m \in 1 .. n : l < m => f[l] < f[m]

\* t has the entries of s at the positions P, in their order: f says where.
Selects(f, n, s, P, t) ==
  /\ f \in [1 .. n -> P] /\ Ascends(f, n) /\ \A i \in P : \E m \in 1 .. n : f[m] = i
  /\ \A m \in 1 .. n : t[m] = s[f[m]]

\* What is kept comes from ascending positions, none of them before its own.
LEMMA KeepPlaces ==
  ASSUME NEW S, NEW s \in Seq(S), NEW P \in SUBSET (DOMAIN s)
  PROVE  /\ Len(KeepAt(s, P)) = Cardinality(P) /\ Cardinality(P) \in Nat
         /\ \E f : /\ Selects(f, Cardinality(P), s, P, KeepAt(s, P))
                   /\ \A m \in 1 .. Cardinality(P) : m <= f[m]
<1> DEFINE n == Len(s)
           c == Cardinality(P)
           r == KeepAt(s, P)
           at(m) == CHOOSE i \in P : Cardinality(Before(P, i)) = m - 1
           f == [m \in 1 .. c |-> at(m)]
<1>1. n \in Nat /\ DOMAIN s = 1 .. n /\ P \in SUBSET (1 .. n)
  OBVIOUS
<1>2. c \in Nat
  BY <1>1, BeforeCounts
<1>3. \A m \in 1 .. c : at(m) \in P /\ Cardinality(Before(P, at(m))) = m - 1
  <2>1. \A m \in 1 .. c : \E i \in P : Cardinality(Before(P, i)) = m - 1
    BY <1>1, EveryPlace
  <2> QED
    BY <2>1
<1>4. r = [m \in 1 .. c |-> s[at(m)]]
  BY DEF KeepAt
<1>5. Len(r) = c
  BY <1>2, <1>4
<1>6. \A i \in P : \E m \in 1 .. c : at(m) = i
  <2>1. \A i \in P : \E m \in 1 .. c : Cardinality(Before(P, i)) = m - 1
    BY <1>1, EveryPlace
  <2>2. \A i, j \in P : Cardinality(Before(P, i)) = Cardinality(Before(P, j)) => i = j
    BY <1>1, EveryPlace
  <2> HIDE DEF at
  <2> QED
    BY <1>3, <2>1, <2>2
<1>7. f \in [1 .. c -> P] /\ \A m \in 1 .. c : f[m] = at(m)
  BY <1>3
<1> HIDE DEF f, at, c, r, n
<1>8. \A i \in P : i \in Int
  BY <1>1
<1>9. ASSUME NEW l \in 1 .. c, NEW m \in 1 .. c, l < m PROVE f[l] < f[m]
  <2>1. f[l] \in P /\ f[m] \in P /\ f[l] \in Int /\ f[m] \in Int
    BY <1>7, <1>8
  <2>2. /\ Cardinality(Before(P, f[l])) = l - 1
        /\ Cardinality(Before(P, f[m])) = m - 1
    BY <1>3, <1>7
  <2>3. f[l] # f[m]
    BY <1>2, <1>9, <2>2
  <2>4. f[m] < f[l] => m - 1 < l - 1
    BY <1>1, <2>1, <2>2, BeforeCounts
  <2> QED
    BY <1>2, <1>9, <2>1, <2>3, <2>4
<1>10. ASSUME NEW m \in 1 .. c PROVE m <= f[m]
  <2>1. f[m] \in P /\ f[m] \in 1 .. n
    BY <1>1, <1>7
  <2>2. Before(P, f[m]) \in SUBSET (1 .. (f[m] - 1))
    BY <1>1, <2>1 DEF Before
  <2>3. IsFiniteSet(1 .. (f[m] - 1)) /\ Cardinality(1 .. (f[m] - 1)) = f[m] - 1
    BY <1>1, <2>1, FS_Interval
  <2>4. Cardinality(Before(P, f[m])) <= f[m] - 1
    <3>1. Cardinality(Before(P, f[m])) <= Cardinality(1 .. (f[m] - 1))
      BY <2>2, <2>3, FS_Subset, Zenon
    <3> QED
      BY <2>3, <3>1, Zenon
  <2>5. Cardinality(Before(P, f[m])) = m - 1
    BY <1>3, <1>7, Zenon
  <2>6. f[m] \in Nat /\ m \in Nat
    BY <1>1, <1>2, <2>1
  <2> QED
    BY <2>4, <2>5, <2>6
<1>11. \A m \in 1 .. c : r[m] = s[f[m]]
  BY <1>4, <1>7
<1>12. \A i \in P : \E m \in 1 .. c : f[m] = i
  BY <1>6, <1>7
<1>13. Selects(f, c, s, P, r)
  BY <1>7, <1>9, <1>11, <1>12 DEF Ascends, Selects
<1> QED
  BY <1>2, <1>5, <1>10, <1>13 DEF c, r

\* n entries that differ are as many as they are.
LEMMA Counted ==
  ASSUME NEW n \in Nat, NEW T, NEW f \in [1 .. n -> T],
         \A l, m \in 1 .. n : f[l] = f[m] => l = m,
         \A i \in T : \E m \in 1 .. n : f[m] = i
  PROVE  IsFiniteSet(T) /\ Cardinality(T) = n
<1>1. f \in Injection(1 .. n, T)
  BY Zenon DEF Injection, IsInjective
<1>2. f \in Surjection(1 .. n, T)
  BY Zenon DEF Surjection
<1>3. ExistsBijection(1 .. n, T)
  BY <1>1, <1>2 DEF ExistsBijection, Bijection
<1>4. IsFiniteSet(1 .. n) /\ Cardinality(1 .. n) = n
  BY FS_Interval
<1> QED
  BY <1>3, <1>4, FS_Bijection

\* Ascending positions determine what is kept.
LEMMA KeepIs ==
  ASSUME NEW S, NEW s \in Seq(S), NEW P \in SUBSET (DOMAIN s), NEW n \in Nat,
         NEW t \in Seq(S), Len(t) = n, NEW f, Selects(f, n, s, P, t)
  PROVE  KeepAt(s, P) = t
<1>0. /\ f \in [1 .. n -> P] /\ Ascends(f, n) /\ \A i \in P : \E m \in 1 .. n : f[m] = i
      /\ \A m \in 1 .. n : t[m] = s[f[m]]
  BY DEF Selects
<1>1. \A i \in P : i \in Int
  OBVIOUS
<1>2. \A l, m \in 1 .. n : (l < m \/ m < l \/ l = m) /\ f[l] \in Int /\ f[m] \in Int
  BY <1>0, <1>1
<1>3. ASSUME NEW l \in 1 .. n, NEW m \in 1 .. n, f[l] < f[m] PROVE l < m
  <2>1. m < l => f[m] < f[l]
    BY <1>0 DEF Ascends
  <2> QED
    BY <1>2, <1>3, <2>1
<1>4. ASSUME NEW l \in 1 .. n, NEW m \in 1 .. n, f[l] = f[m] PROVE l = m
  <2>1. l < m => f[l] < f[m]
    BY <1>0, Zenon DEF Ascends
  <2>2. m < l => f[m] < f[l]
    BY <1>0, Zenon DEF Ascends
  <2> QED
    BY <1>2, <1>4, <2>1, <2>2
<1>5. Cardinality(P) = n
  <2>1. \A l, m \in 1 .. n : f[l] = f[m] => l = m
    BY <1>4
  <2>2. f \in [1 .. n -> P] /\ \A i \in P : \E m \in 1 .. n : f[m] = i
    BY <1>0
  <2>3. n \in Nat
    OBVIOUS
  <2> QED
    BY ONLY <2>1, <2>2, <2>3, Counted
<1>6. ASSUME NEW m \in 1 .. n PROVE Cardinality(Before(P, f[m])) = m - 1
  <2> DEFINE g == [l \in 1 .. (m - 1) |-> f[l]]
  <2>0. \A l \in 1 .. (m - 1) : l \in 1 .. n /\ l < m
    OBVIOUS
  <2>1. g \in [1 .. (m - 1) -> Before(P, f[m])]
    BY <1>0, <2>0 DEF Before, Ascends
  <2>2. \A l, k \in 1 .. (m - 1) : g[l] = g[k] => l = k
    BY <1>4, <2>0
  <2>3. ASSUME NEW i \in Before(P, f[m]) PROVE \E l \in 1 .. (m - 1) : g[l] = i
    <3>1. i \in P /\ i < f[m]
      BY DEF Before
    <3>2. PICK l \in 1 .. n : f[l] = i
      BY <1>0, <3>1
    <3>3. l < m
      BY <1>3, <3>1, <3>2
    <3>4. l \in 1 .. (m - 1)
      BY <3>3
    <3> QED
      BY <3>2, <3>4
  <2>4. m - 1 \in Nat
    OBVIOUS
  <2> HIDE DEF g
  <2> QED
    BY <2>1, <2>2, <2>3, <2>4, Counted
<1>7. \A m \in 1 .. n : (CHOOSE i \in P : Cardinality(Before(P, i)) = m - 1) = f[m]
  <2>1. \A i, j \in P : Cardinality(Before(P, i)) = Cardinality(Before(P, j)) => i = j
    <3>1. Len(s) \in Nat /\ P \in SUBSET (1 .. Len(s))
      OBVIOUS
    <3> QED
      BY <3>1, EveryPlace
  <2> QED
    BY <1>0, <1>6, <2>1
<1>8. KeepAt(s, P) = [m \in 1 .. n |-> s[f[m]]]
  <2>1. KeepAt(s, P) =
          [m \in 1 .. n |-> s[CHOOSE i \in P : Cardinality(Before(P, i)) = m - 1]]
    BY <1>5 DEF KeepAt
  <2> QED
    BY <1>7, <2>1
<1>9. t = [m \in 1 .. n |-> s[f[m]]]
  BY <1>0
<1> QED
  BY <1>8, <1>9

\* A filter that every entry passes keeps the list.
LEMMA KeepSame ==
  ASSUME NEW S, NEW s \in Seq(S), NEW T, ToSet(s) \subseteq T
  PROVE  Keep(s, T) = s
<1> DEFINE n == Len(s)
           P == Positions(s, T)
           f == [m \in 1 .. n |-> m]
<1>1. n \in Nat /\ DOMAIN s = 1 .. n
  OBVIOUS
<1>2. P = 1 .. n
  BY <1>1 DEF Positions, ToSet
<1>3. f \in [1 .. n -> P] /\ \A m \in 1 .. n : f[m] = m
  BY <1>2
<1> HIDE DEF f, P, n
<1>4. Ascends(f, n) /\ \A i \in P : \E m \in 1 .. n : f[m] = i
  BY <1>2, <1>3 DEF Ascends
<1>5. P \in SUBSET (DOMAIN s) /\ Len(s) = n /\ \A m \in 1 .. n : s[m] = s[f[m]]
  BY <1>1, <1>2, <1>3 DEF n
<1>6. KeepAt(s, P) = s
  <2>1. Selects(f, n, s, P, s)
    BY <1>3, <1>4, <1>5 DEF Selects
  <2> QED
    BY <1>1, <1>5, <2>1, KeepIs
<1> QED
  BY <1>6 DEF Keep, P

\* Two filters are one.
LEMMA KeepTwice ==
  ASSUME NEW S, NEW s \in Seq(S), NEW A, NEW B
  PROVE  Keep(Keep(s, A), B) = Keep(s, A \cap B)
<1> DEFINE P == Positions(s, A)
           r == Keep(s, A)
           Q == Positions(r, B)
           t == Keep(r, B)
           R == Positions(s, A \cap B)
           c == Cardinality(P)
           d == Cardinality(Q)
<1>1. P \in SUBSET (DOMAIN s) /\ r = KeepAt(s, P) /\ r \in Seq(S)
  BY Kept DEF Positions, Keep
<1>2. Q \in SUBSET (DOMAIN r) /\ t = KeepAt(r, Q) /\ t \in Seq(S)
  BY <1>1, Kept DEF Positions, Keep
<1>3. R \in SUBSET (DOMAIN s) /\ Keep(s, A \cap B) = KeepAt(s, R)
  BY DEF Positions, Keep
<1>4. /\ \A i : i \in R <=> i \in P /\ s[i] \in B
      /\ \A m : m \in Q <=> m \in DOMAIN r /\ r[m] \in B
  BY DEF Positions
<1> HIDE DEF P, r, Q, t, R
<1>5. PICK f \in [1 .. c -> P] :
             /\ Ascends(f, c) /\ \A i \in P : \E m \in 1 .. c : f[m] = i
             /\ \A m \in 1 .. c : r[m] = s[f[m]]
  <2>1. \E f : Selects(f, c, s, P, r)
    BY <1>1, KeepPlaces
  <2> QED
    BY <2>1 DEF Selects
<1>6. PICK g \in [1 .. d -> Q] :
             /\ Ascends(g, d) /\ \A i \in Q : \E m \in 1 .. d : g[m] = i
             /\ \A m \in 1 .. d : t[m] = r[g[m]]
  <2>1. r \in Seq(S) /\ Q \in SUBSET (DOMAIN r)
    BY <1>1, <1>2
  <2>2. \E g : Selects(g, d, r, Q, t)
    BY <1>2, <2>1, KeepPlaces
  <2> QED
    BY <2>2 DEF Selects
<1>7. c \in Nat /\ d \in Nat /\ Len(r) = c /\ Len(t) = d
  BY <1>1, <1>2, KeepPlaces
<1>8. DOMAIN r = 1 .. c
  BY <1>1, <1>7
<1> HIDE DEF c, d
<1> DEFINE h == [m \in 1 .. d |-> f[g[m]]]
<1>9. \A m \in 1 .. d : g[m] \in 1 .. c /\ h[m] = f[g[m]] /\ t[m] = s[h[m]]
  BY <1>2, <1>5, <1>6, <1>8
<1>10. ASSUME NEW m \in 1 .. d PROVE h[m] \in R
  <2>1. g[m] \in Q /\ g[m] \in 1 .. c
    BY <1>6, <1>9
  <2>2. h[m] \in P /\ s[h[m]] = r[g[m]]
    BY <1>5, <1>9, <2>1
  <2> QED
    BY <1>4, <2>1, <2>2
<1>11. Ascends(h, d)
  BY <1>5, <1>6, <1>9 DEF Ascends
<1>12. ASSUME NEW i \in R PROVE \E m \in 1 .. d : h[m] = i
  <2>1. i \in P /\ s[i] \in B
    BY <1>4
  <2>2. PICK l \in 1 .. c : f[l] = i
    BY <1>5, <2>1
  <2>3. l \in Q
    BY <1>4, <1>5, <1>8, <2>1, <2>2
  <2>4. PICK m \in 1 .. d : g[m] = l
    BY <1>6, <2>3
  <2> QED
    BY <1>9, <2>2, <2>4
<1>13. h \in [1 .. d -> R]
  BY <1>10
<1>14. \A m \in 1 .. d : t[m] = s[h[m]]
  BY <1>9
<1> HIDE DEF h
<1>15. KeepAt(s, R) = t
  <2>1. /\ R \in SUBSET (DOMAIN s) /\ d \in Nat /\ t \in Seq(S) /\ Len(t) = d
        /\ \A i \in R : \E m \in 1 .. d : h[m] = i
    BY <1>2, <1>3, <1>7, <1>12
  <2>2. Selects(h, d, s, R, t)
    BY <1>11, <1>13, <1>14, <2>1 DEF Selects
  <2> QED
    BY <2>1, <2>2, KeepIs
<1> QED
  BY <1>3, <1>15 DEF t, r

\* A list without one of its entries: those behind it move up.
LEMMA KeepWithout ==
  ASSUME NEW S, NEW s \in Seq(S), IsInjective(s), NEW p \in DOMAIN s, NEW T,
         \A x \in ToSet(s) : x \in T <=> x # s[p]
  PROVE  /\ Keep(s, T) \in Seq(S) /\ Len(Keep(s, T)) = Len(s) - 1
         /\ \A j \in 1 .. (Len(s) - 1) : Keep(s, T)[j] = IF j < p THEN s[j] ELSE s[j + 1]
<1> DEFINE n == Len(s)
           P == Positions(s, T)
           t == [j \in 1 .. (n - 1) |-> IF j < p THEN s[j] ELSE s[j + 1]]
           f == [j \in 1 .. (n - 1) |-> IF j < p THEN j ELSE j + 1]
<1>1. n \in Nat /\ DOMAIN s = 1 .. n /\ p \in 1 .. n /\ n - 1 \in Nat
  OBVIOUS
<1>2. \A i \in 1 .. n : i \in P <=> i # p
  BY <1>1 DEF Positions, ToSet, IsInjective
<1>3. P \in SUBSET (1 .. n)
  BY <1>1 DEF Positions
<1>4. \A j \in 1 .. (n - 1) : f[j] = IF j < p THEN j ELSE j + 1
  OBVIOUS
<1>5. \A j \in 1 .. (n - 1) : f[j] \in 1 .. n /\ f[j] # p
  BY <1>1, <1>4
<1>6. f \in [1 .. (n - 1) -> P]
  BY <1>2, <1>5
<1>7. \A j \in 1 .. (n - 1) : t[j] = s[f[j]]
  BY <1>4
<1>8. t \in Seq(S) /\ Len(t) = n - 1
  BY <1>1
<1> HIDE DEF n, P, f, t
<1>9. Ascends(f, n - 1)
  BY <1>1, <1>4 DEF Ascends
<1>10. ASSUME NEW i \in P PROVE \E j \in 1 .. (n - 1) : f[j] = i
  <2>1. i \in 1 .. n /\ i # p
    BY <1>2, <1>3
  <2>2. CASE i < p
    <3>1. i \in 1 .. (n - 1)
      BY <1>1, <2>1, <2>2
    <3> QED
      BY <1>4, <2>2, <3>1
  <2>3. CASE p < i
    <3>1. i - 1 \in 1 .. (n - 1) /\ ~(i - 1 < p) /\ (i - 1) + 1 = i
      BY <1>1, <2>1, <2>3
    <3>2. f[i - 1] = (i - 1) + 1
      BY <1>4, <3>1
    <3> QED
      BY <3>1, <3>2
  <2> QED
    BY <1>1, <2>1, <2>2, <2>3
<1>11. KeepAt(s, P) = t
  <2>1. P \in SUBSET (DOMAIN s) /\ \A i \in P : \E j \in 1 .. (n - 1) : f[j] = i
    BY <1>1, <1>3, <1>10
  <2>2. Selects(f, n - 1, s, P, t)
    BY <1>6, <1>7, <1>9, <2>1 DEF Selects
  <2> QED
    BY <1>1, <1>8, <2>1, <2>2, KeepIs
<1>12. Keep(s, T) = t
  BY <1>11 DEF Keep, P
<1> QED
  BY <1>8, <1>12 DEF t, n

\* Nothing kept is further on than it was.
LEMMA KeepMoves ==
  ASSUME NEW S, NEW s \in Seq(S), NEW T
  PROVE  /\ Len(Keep(s, T)) <= Len(s)
         /\ \A m \in 1 .. Len(Keep(s, T)) : \E i \in m .. Len(s) : Keep(s, T)[m] = s[i]
         /\ \A i \in 1 .. Len(s) : s[i] \in T =>
              \E m \in 1 .. Len(Keep(s, T)) : m <= i /\ Keep(s, T)[m] = s[i]
<1> DEFINE n == Len(s)
           P == Positions(s, T)
           r == Keep(s, T)
           c == Cardinality(P)
<1>1. n \in Nat /\ DOMAIN s = 1 .. n
  OBVIOUS
<1>2. P \in SUBSET (DOMAIN s) /\ r = KeepAt(s, P) /\ \A i \in DOMAIN s : s[i] \in T => i \in P
  BY DEF Positions, Keep
<1> HIDE DEF P, r, n
<1>3. PICK f \in [1 .. c -> P] :
             /\ \A i \in P : \E m \in 1 .. c : f[m] = i
             /\ \A m \in 1 .. c : m <= f[m] /\ r[m] = s[f[m]]
  <2>1. \E f : Selects(f, c, s, P, r) /\ \A m \in 1 .. c : m <= f[m]
    BY <1>2, KeepPlaces
  <2> QED
    BY <2>1 DEF Selects
<1>4. c \in Nat /\ Len(r) = c
  BY <1>2, KeepPlaces
<1> HIDE DEF c
<1>5. \A m \in 1 .. c : f[m] \in m .. n
  BY <1>1, <1>2, <1>3
<1>6. c <= n
  <2>1. c > 0 => c \in 1 .. c
    BY <1>4
  <2> QED
    BY <1>1, <1>4, <1>5, <2>1
<1>7. ASSUME NEW i \in 1 .. n, s[i] \in T PROVE \E m \in 1 .. c : m <= i /\ r[m] = s[i]
  <2>1. PICK m \in 1 .. c : f[m] = i
    BY <1>1, <1>2, <1>3, <1>7
  <2> QED
    BY <1>3, <2>1
<1>8. \A m \in 1 .. c : \E i \in m .. n : r[m] = s[i]
  BY <1>3, <1>5
<1> QED
  BY <1>4, <1>6, <1>7, <1>8 DEF n, r

\* One entry put before a list moves the others down.
LEMMA Fronted ==
  ASSUME NEW S, NEW s \in Seq(S), NEW x \in S
  PROVE  /\ <<x>> \o s \in Seq(S) /\ Len(<<x>> \o s) = Len(s) + 1
         /\ (<<x>> \o s)[1] = x /\ \A j \in 1 .. Len(s) : (<<x>> \o s)[j + 1] = s[j]
         /\ ToSet(<<x>> \o s) = {x} \cup ToSet(s)
         /\ IsInjective(s) /\ x \notin ToSet(s) => IsInjective(<<x>> \o s)
<1> DEFINE q == <<x>>
           t == q \o s
           n == Len(s)
<1>1. q \in Seq(S) /\ Len(q) = 1 /\ q[1] = x /\ n \in Nat
  OBVIOUS
<1> HIDE DEF q, n
<1>2. /\ t \in Seq(S) /\ Len(t) = 1 + n
      /\ \A i \in 1 .. (1 + n) : t[i] = IF i <= 1 THEN q[i] ELSE s[i - 1]
  <2>1. /\ q \o s \in Seq(S) /\ Len(q \o s) = Len(q) + Len(s)
        /\ \A i \in 1 .. Len(q) + Len(s) :
             (q \o s)[i] = IF i <= Len(q) THEN q[i] ELSE s[i - Len(q)]
    BY <1>1, ConcatProperties, Zenon
  <2> QED
    BY <1>1, <2>1, Zenon DEF n
<1>3. t[1] = x /\ \A j \in 1 .. n : t[j + 1] = s[j]
  <2>1. 1 \in 1 .. (1 + n) /\ 1 <= 1
    BY <1>1
  <2>2. \A j \in 1 .. n : j + 1 \in 1 .. (1 + n) /\ ~(j + 1 <= 1) /\ (j + 1) - 1 = j
    BY <1>1
  <2> HIDE DEF t
  <2>3. t[1] = x
    BY <1>1, <1>2, <2>1, Zenon
  <2>4. ASSUME NEW j \in 1 .. n PROVE t[j + 1] = s[j]
    <3>1. t[j + 1] = IF j + 1 <= 1 THEN q[j + 1] ELSE s[(j + 1) - 1]
      BY <1>2, <2>2, Zenon
    <3> QED
      BY <2>2, <3>1, Zenon
  <2> QED
    BY <2>3, <2>4, Zenon
<1>4. ToSet(t) = {x} \cup ToSet(s) /\ (IsInjective(s) /\ x \notin ToSet(s) => IsInjective(t))
  BY <1>1, Prepended
<1> QED
  BY <1>1, <1>2, <1>3, <1>4 DEF q, n

\* The least of some positions.
LEMMA LeastPlace ==
  ASSUME NEW n \in Nat, NEW P \in SUBSET (1 .. n), P # {}
  PROVE  \E i \in P : \A j \in P : i <= j
<1>1. /\ IsFiniteSet(P) /\ Cardinality(P) \in Nat
  BY BeforeCounts
<1>2. Cardinality(P) # 0
  BY <1>1, FS_EmptySet
<1>3. 1 \in 1 .. Cardinality(P)
  BY <1>1, <1>2
<1>4. PICK i \in P : Cardinality(Before(P, i)) = 1 - 1
  BY <1>3, EveryPlace
<1>5. IsFiniteSet(Before(P, i))
  BY <1>1, FS_Subset DEF Before
<1>6. Before(P, i) = {}
  BY <1>4, <1>5, FS_EmptySet
<1>7. \A j \in P : i <= j
  BY <1>6 DEF Before
<1> QED
  BY <1>7

\* Entries of a list replaced by another.
LEMMA Replaced ==
  ASSUME NEW S, NEW q \in Seq(S), NEW g \in S, NEW P \in SUBSET (DOMAIN q),
         NEW t \in [DOMAIN q -> S], \A i \in DOMAIN q : t[i] = IF i \in P THEN g ELSE q[i]
  PROVE  /\ t \in Seq(S) /\ ToSet(t) \subseteq ToSet(q) \cup {g}
         /\ P # {} => \A s : s \in ToSet(t) <=> s = g \/ \E i \in (DOMAIN q) \ P : s = q[i]
         /\ IsInjective(q) /\ (\A i, j \in P : i = j) /\ (\A i \in (DOMAIN q) \ P : q[i] # g) =>
              IsInjective(t)
<1>1. t \in Seq(S)
  OBVIOUS
<1>2. DOMAIN t = DOMAIN q /\ \A i \in DOMAIN q : t[i] = IF i \in P THEN g ELSE q[i]
  OBVIOUS
<1>3. ToSet(t) \subseteq ToSet(q) \cup {g}
  BY <1>2 DEF ToSet
<1>4. P # {} => \A s : s \in ToSet(t) <=> s = g \/ \E i \in (DOMAIN q) \ P : s = q[i]
  BY <1>2 DEF ToSet
<1>5. ASSUME IsInjective(q), \A i, j \in P : i = j, \A i \in (DOMAIN q) \ P : q[i] # g
      PROVE  IsInjective(t)
  BY <1>2, <1>5 DEF IsInjective
<1> QED
  BY <1>1, <1>3, <1>4, <1>5

\* The entries of b that are in A, and no others, in a, each no further back.
Fronts(a, b, A) ==
  /\ Len(a) <= Len(b)
  /\ \A m \in DOMAIN a : \E i \in DOMAIN b : m <= i /\ a[m] = b[i]
  /\ \A i \in DOMAIN b : b[i] \in A => \E m \in DOMAIN a : m <= i /\ a[m] = b[i]

\* What is kept of a list is what is kept of all that is kept for more: entries move to
\* the front, in their order.
LEMMA KeepLess ==
  ASSUME NEW S, NEW s \in Seq(S), NEW A, NEW B, A \cap ToSet(s) \subseteq B
  PROVE  /\ Keep(s, A) = Keep(Keep(s, B), A) /\ Keep(s, A) \in Seq(S) /\ Keep(s, B) \in Seq(S)
         /\ Fronts(Keep(s, A), Keep(s, B), A)
<1> DEFINE b == Keep(s, B)
           a == Keep(b, A)
<1>1. b \in Seq(S) /\ a \in Seq(S)
  BY Kept
<1>2. a = Keep(s, B \cap A)
  BY KeepTwice
<1>3. Positions(s, B \cap A) = Positions(s, A)
  BY DEF Positions, ToSet
<1>4. a = Keep(s, A)
  BY <1>2, <1>3 DEF Keep
<1> HIDE DEF a, b
<1>5. /\ Len(a) <= Len(b)
      /\ \A m \in 1 .. Len(a) : \E i \in m .. Len(b) : a[m] = b[i]
      /\ \A i \in 1 .. Len(b) : b[i] \in A => \E m \in 1 .. Len(a) : m <= i /\ a[m] = b[i]
  BY <1>1, KeepMoves DEF a
<1>6. DOMAIN a = 1 .. Len(a) /\ DOMAIN b = 1 .. Len(b) /\ Len(a) \in Nat /\ Len(b) \in Nat
  BY <1>1
<1>7. \A m \in DOMAIN a : \E i \in DOMAIN b : m <= i /\ a[m] = b[i]
  BY <1>5, <1>6
<1>8. \A i \in DOMAIN b : b[i] \in A => \E m \in DOMAIN a : m <= i /\ a[m] = b[i]
  BY <1>5, <1>6
<1>9. Fronts(a, b, A)
  BY <1>5, <1>7, <1>8 DEF Fronts
<1> QED
  BY <1>1, <1>4, <1>9, Zenon DEF a, b

\* A list with a new entry in front of it, without that.
LEMMA FrontOff ==
  ASSUME NEW S, NEW s \in Seq(S), NEW x \in S, x \notin ToSet(s)
  PROVE  Keep(<<x>> \o s, S \ {x}) = s
<1> DEFINE t == <<x>> \o s
           k == Keep(t, S \ {x})
           f == [m \in 1 .. Len(s) |-> m + 1]
<1>1. /\ t \in Seq(S) /\ Len(t) = Len(s) + 1 /\ t[1] = x
      /\ \A j \in 1 .. Len(s) : t[j + 1] = s[j]
  BY Fronted
<1> HIDE DEF t
<1>2. Positions(t, S \ {x}) = 2 .. Len(t)
  <2>1. \A j \in 1 .. Len(t) : j # 1 => t[j] = s[j - 1] /\ t[j] \in ToSet(s) /\ t[j] \in S
    BY <1>1 DEF ToSet
  <2> QED
    BY <1>1, <2>1 DEF Positions
<1>3. Selects(f, Len(s), t, 2 .. Len(t), s)
  <2>1. f \in [1 .. Len(s) -> 2 .. Len(t)]
    BY <1>1
  <2>2. \A l, m \in 1 .. Len(s) : l < m => f[l] < f[m]
    OBVIOUS
  <2>3. \A i \in 2 .. Len(t) : i - 1 \in 1 .. Len(s) /\ f[i - 1] = i
    BY <1>1
  <2>4. \A m \in 1 .. Len(s) : s[m] = t[f[m]]
    BY <1>1
  <2> HIDE DEF f
  <2> QED
    BY <2>1, <2>2, <2>3, <2>4 DEF Selects, Ascends
<1>4. KeepAt(t, 2 .. Len(t)) = s
  <2>1. (2 .. Len(t)) \in SUBSET (DOMAIN t) /\ Len(s) \in Nat
    BY <1>1
  <2> QED
    BY <1>1, <1>3, <2>1, KeepIs
<1> QED
  BY <1>2, <1>4 DEF Keep, t

\* Entries of a stretch of a list.
LEMMA Stretch ==
  ASSUME NEW S, NEW s \in Seq(S), NEW a \in Nat \ {0}, NEW b \in Nat, b <= Len(s)
  PROVE  /\ SubSeq(s, a, b) \in Seq(S) /\ ToSet(SubSeq(s, a, b)) = {s[i] : i \in a .. b}
         /\ Len(SubSeq(s, a, b)) = IF a <= b THEN b - a + 1 ELSE 0
         /\ IsInjective(s) => IsInjective(SubSeq(s, a, b))
<1> DEFINE t == SubSeq(s, a, b)
<1>1. \A i \in a .. b : s[i] \in S /\ i \in DOMAIN s
  OBVIOUS
<1>2. /\ t \in Seq(S) /\ Len(t) = IF a <= b THEN b - a + 1 ELSE 0
      /\ \A i \in 1 .. b - a + 1 : t[i] = s[a + i - 1]
  BY <1>1, SubSeqProperties
<1> HIDE DEF t
<1>3. DOMAIN t = 1 .. b - a + 1
  BY <1>2
<1>4. ToSet(t) = {s[i] : i \in a .. b}
  <2>1. \A i \in DOMAIN t : a + i - 1 \in a .. b /\ t[i] = s[a + i - 1]
    BY <1>2, <1>3
  <2>2. \A i \in a .. b : i - a + 1 \in DOMAIN t /\ t[i - a + 1] = s[i]
    BY <1>2, <1>3
  <2>3. ASSUME NEW v \in ToSet(t) PROVE \E i \in a .. b : v = s[i]
    BY <2>1 DEF ToSet
  <2>4. ASSUME NEW i \in a .. b PROVE s[i] \in ToSet(t)
    BY <2>2 DEF ToSet
  <2> QED
    BY <2>3, <2>4
<1>5. ASSUME IsInjective(s) PROVE IsInjective(t)
  <2> SUFFICES ASSUME NEW i \in DOMAIN t, NEW j \in DOMAIN t, t[i] = t[j] PROVE i = j
    BY DEF IsInjective
  <2>1. /\ i \in 1 .. b - a + 1 /\ j \in 1 .. b - a + 1 /\ s[a + i - 1] = s[a + j - 1]
        /\ a + i - 1 \in DOMAIN s /\ a + j - 1 \in DOMAIN s
    BY <1>2, <1>3
  <2>2. a + i - 1 = a + j - 1
    BY <1>5, <2>1 DEF IsInjective
  <2> QED
    BY <2>1, <2>2
<1> QED
  BY <1>2, <1>4, <1>5 DEF t

\* A list with an entry put into it.
LEMMA PutInto ==
  ASSUME NEW S, NEW s \in Seq(S), NEW x \in S, NEW p \in 1 .. Len(s) + 1, x \notin ToSet(s)
  PROVE  /\ InsertAt(s, p, x) \in Seq(S) /\ ToSet(InsertAt(s, p, x)) = ToSet(s) \cup {x}
         /\ IsInjective(s) => IsInjective(InsertAt(s, p, x))
<1> DEFINE a == SubSeq(s, 1, p - 1)
           b == SubSeq(s, p, Len(s))
           c == <<x>>
<1>1. /\ a \in Seq(S) /\ ToSet(a) = {s[i] : i \in 1 .. p - 1} /\ (IsInjective(s) => IsInjective(a))
  BY Stretch
<1>2. /\ b \in Seq(S) /\ ToSet(b) = {s[i] : i \in p .. Len(s)} /\ (IsInjective(s) => IsInjective(b))
  BY Stretch
<1>3. c \in Seq(S) /\ ToSet(c) = {x} /\ IsInjective(c)
  <2>1. c \in Seq(S) /\ Len(c) = 1 /\ c[1] = x
    OBVIOUS
  <2> HIDE DEF c
  <2>2. ToSet(c) = {x}
    BY <2>1, OneEntry
  <2>3. DOMAIN c = {1}
    BY <2>1
  <2> QED
    BY <2>1, <2>2, <2>3 DEF IsInjective
<1>4. ToSet(a) \cup ToSet(b) = ToSet(s)
  <2>1. ToSet(s) = {s[i] : i \in 1 .. Len(s)}
    BY DEF ToSet
  <2>2. \A i \in 1 .. Len(s) : i \in 1 .. p - 1 \/ i \in p .. Len(s)
    OBVIOUS
  <2>3. \A i \in (1 .. p - 1) \cup (p .. Len(s)) : i \in 1 .. Len(s)
    OBVIOUS
  <2> HIDE DEF a, b
  <2> QED
    BY <1>1, <1>2, <2>1, <2>2, <2>3
<1>5. IsInjective(s) => ToSet(a) \cap ToSet(b) = {}
  <2> SUFFICES ASSUME IsInjective(s), NEW i \in 1 .. p - 1, NEW j \in p .. Len(s), s[i] = s[j]
               PROVE  FALSE
    BY <1>1, <1>2
  <2> QED
    BY DEF IsInjective
<1>6. InsertAt(s, p, x) = (a \o c) \o b
  BY DEF InsertAt
<1> HIDE DEF a, b, c
<1> DEFINE d == a \o c
<1>7. /\ d \in Seq(S) /\ ToSet(d) = ToSet(a) \cup {x} /\ (IsInjective(s) => IsInjective(d))
  <2>1. IsInjective(s) => ToSet(a) \cap ToSet(c) = {}
    BY <1>3, <1>4
  <2> QED
    BY <1>1, <1>3, <2>1, Joined
<1> HIDE DEF d
<1>8. IsInjective(s) => ToSet(d) \cap ToSet(b) = {}
  <2>1. x \notin ToSet(b)
    BY <1>4
  <2> QED
    BY <1>5, <1>7, <2>1
<1>9. /\ d \o b \in Seq(S) /\ ToSet(d \o b) = ToSet(d) \cup ToSet(b)
      /\ IsInjective(s) => IsInjective(d \o b)
  BY <1>2, <1>7, <1>8, Joined
<1> QED
  BY <1>4, <1>6, <1>7, <1>9 DEF d
=============================================================================
