------------------------- MODULE MountOptions_Proofs -------------------------
(***************************************************************************)
(* Proofs about MountOptions, for any options in any number and order:     *)
(* blobfuse gets of every flag what the volume's options promise.          *)
(***************************************************************************)
EXTENDS MountOptions, SequenceTheorems, FiniteSetTheorems, TLAPS

Texts == STRING \cup {"driver", "true"}
Options == [flag : Flags, value : Seq(Texts), padded : BOOLEAN]

-----------------------------------------------------------------------------
(* Some elements of a sequence, in order. *)

Rank(p, i) == Cardinality({j \in p : j <= i})

\* Positions are finitely many numbers.
LEMMA PositionsFinite ==
    ASSUME NEW m \in Nat, NEW p \in SUBSET (1..m)
    PROVE  IsFiniteSet(p) /\ Cardinality(p) \in Nat /\ p \in SUBSET Nat
<1>1. IsFiniteSet(1..m)
  BY FS_Interval
<1>2. IsFiniteSet(p)
  BY <1>1, FS_Subset
<1> QED
  BY <1>2, FS_CardinalityType

\* The positions up to one of them are finitely many.
LEMMA RankType ==
    ASSUME NEW m \in Nat, NEW p \in SUBSET (1..m), NEW i \in p
    PROVE  /\ IsFiniteSet(p) /\ Cardinality(p) \in Nat
           /\ IsFiniteSet({j \in p : j <= i})
           /\ Rank(p, i) \in 1..Cardinality(p)
<1>1. IsFiniteSet(p) /\ Cardinality(p) \in Nat
  BY PositionsFinite
<1>2. /\ {j \in p : j <= i} \in SUBSET p
      /\ {j \in p : j <= i} # {}
  OBVIOUS
<1>3. /\ IsFiniteSet({j \in p : j <= i})
      /\ Cardinality({j \in p : j <= i}) <= Cardinality(p)
  BY <1>1, <1>2, FS_Subset
<1>4. /\ Cardinality({j \in p : j <= i}) \in Nat
      /\ Cardinality({j \in p : j <= i}) # 0
  BY <1>2, <1>3, FS_CardinalityType, FS_EmptySet
<1> QED
  BY <1>1, <1>3, <1>4 DEF Rank

\* A later position has a higher rank.
LEMMA RankGrows ==
    ASSUME NEW m \in Nat, NEW p \in SUBSET (1..m), NEW i \in p, NEW k \in p, i < k
    PROVE  Rank(p, i) < Rank(p, k)
<1> DEFINE low == {j \in p : j <= i}
           high == {j \in p : j <= k}
<1>1. low \in SUBSET high /\ low # high
  <2>1. i \in Nat /\ k \in Nat /\ p \in SUBSET Nat
    BY PositionsFinite
  <2>2. k \in high /\ k \notin low
    BY <2>1
  <2>3. \A j \in p : j <= i => j <= k
    BY <2>1
  <2> QED
    BY <2>2, <2>3
<1>2. IsFiniteSet(high) /\ Cardinality(high) \in Nat /\ Cardinality(low) \in Nat
  BY RankType, FS_CardinalityType DEF Rank
<1>3. Cardinality(low) <= Cardinality(high) /\ Cardinality(low) # Cardinality(high)
  BY <1>1, <1>2, FS_Subset
<1> QED
  BY <1>2, <1>3 DEF Rank

\* Every rank belongs to a position: an injection into a set of the same size.
LEMMA NthHasRank ==
    ASSUME NEW m \in Nat, NEW p \in SUBSET (1..m), NEW n \in 1..Cardinality(p)
    PROVE  Nth(p, n) \in p /\ Rank(p, Nth(p, n)) = n
<1> DEFINE f == [i \in p |-> Rank(p, i)]
           ranks == 1..Cardinality(p)
<1>1. IsFiniteSet(p) /\ Cardinality(p) \in Nat
  BY PositionsFinite
<1>2. f \in [p -> ranks]
  BY RankType
<1>3. \A i, k \in p : f[i] = f[k] => i = k
  <2> SUFFICES ASSUME NEW i \in p, NEW k \in p, i # k PROVE f[i] # f[k]
    OBVIOUS
  <2>1. i < k \/ k < i
    BY PositionsFinite
  <2>2. Rank(p, i) \in Nat /\ Rank(p, k) \in Nat
    BY <1>2
  <2>3. CASE i < k
    <3>1. Rank(p, i) < Rank(p, k)
      BY <2>3, RankGrows
    <3> QED
      BY <2>2, <3>1
  <2>4. CASE k < i
    <3>1. Rank(p, k) < Rank(p, i)
      BY <2>4, RankGrows
    <3> QED
      BY <2>2, <3>1
  <2> QED
    BY <2>1, <2>3, <2>4
<1>4. f \in Injection(p, ranks)
  BY <1>2, <1>3 DEF Injection, IsInjective
<1>5. IsFiniteSet(ranks) /\ Cardinality(ranks) = Cardinality(p)
  BY <1>1, FS_Interval
<1>6. f \in Surjection(p, ranks)
  BY <1>4, <1>5, FS_Injection
<1>7. \E i \in p : Rank(p, i) = n
  BY <1>6 DEF Surjection
<1> QED
  BY <1>7 DEF Nth, Rank

\* Ranks tell positions apart.
LEMMA NthOfRank ==
    ASSUME NEW m \in Nat, NEW p \in SUBSET (1..m), NEW i \in p
    PROVE  Nth(p, Rank(p, i)) = i
<1> DEFINE k == Nth(p, Rank(p, i))
<1>1. Rank(p, i) \in 1..Cardinality(p)
  BY RankType
<1>2. k \in p /\ Rank(p, k) = Rank(p, i)
  BY <1>1, NthHasRank
<1>3. Rank(p, i) \in Nat
  BY <1>1, PositionsFinite
<1> HIDE DEF k
<1>4. i \in Nat /\ k \in Nat
  BY <1>2, PositionsFinite
<1>5. ASSUME i < k PROVE FALSE
  <2>1. Rank(p, i) < Rank(p, k)
    BY <1>2, <1>5, RankGrows
  <2> QED
    BY <1>2, <1>3, <2>1
<1>6. ASSUME k < i PROVE FALSE
  <2>1. Rank(p, k) < Rank(p, i)
    BY <1>2, <1>6, RankGrows
  <2> QED
    BY <1>2, <1>3, <2>1
<1> QED
  BY <1>4, <1>5, <1>6 DEF k

\* The elements at no position are none.
LEMMA AtNone == \A s : At(s, {}) = <<>>
  BY FS_EmptySet DEF At

\* What is between the positions does not matter.
LEMMA AtSame ==
    ASSUME NEW m \in Nat, NEW p \in SUBSET (1..m), NEW s, NEW t, \A i \in p : s[i] = t[i]
    PROVE  At(s, p) = At(t, p)
  BY NthHasRank DEF At

\* A position after the others adds one element.
LEMMA AtOneMore ==
    ASSUME NEW m \in Nat, NEW p \in SUBSET (1..m), NEW k \in Nat, k > m, NEW s
    PROVE  At(s, p \cup {k}) = Append(At(s, p), s[k])
<1> DEFINE q == p \cup {k}
           c == Cardinality(p)
<1>0. \A j \in p : j \in Nat /\ j <= m /\ j < k
  OBVIOUS
<1>1. IsFiniteSet(p) /\ c \in Nat /\ k \notin p
  BY <1>0, PositionsFinite
<1>2. Cardinality(q) = c + 1
  BY <1>1, FS_AddElement
<1>3. q \in SUBSET (1..k)
  OBVIOUS
<1>4. \A i \in p : Rank(q, i) = Rank(p, i)
  <2> SUFFICES ASSUME NEW i \in p PROVE Rank(q, i) = Rank(p, i)
    OBVIOUS
  <2>1. {j \in q : j <= i} = {j \in p : j <= i}
    OBVIOUS
  <2> QED
    BY <2>1 DEF Rank
<1>5. Rank(q, k) = c + 1
  <2>1. \A j \in q : j <= k
    BY <1>0
  <2>2. {j \in q : j <= k} = q
    BY <2>1
  <2> QED
    BY <1>2, <2>2 DEF Rank
<1>6. Nth(q, c + 1) = k
  BY <1>3, <1>5, NthOfRank
<1>7. ASSUME NEW n \in 1..c PROVE Nth(q, n) = Nth(p, n)
  <2>1. Nth(p, n) \in p /\ Rank(p, Nth(p, n)) = n
    BY NthHasRank
  <2>2. Nth(p, n) \in q /\ Rank(q, Nth(p, n)) = n
    BY <1>4, <2>1
  <2> QED
    BY <1>3, <2>2, NthOfRank
<1>8. At(s, q) = [n \in 1..(c + 1) |-> IF n = c + 1 THEN s[k] ELSE s[Nth(p, n)]]
  <2>1. At(s, q) = [n \in 1..(c + 1) |-> s[Nth(q, n)]]
    BY <1>2 DEF At
  <2>2. \A n \in 1..(c + 1) : n = c + 1 \/ n \in 1..c
    BY <1>1
  <2>3. \A n \in 1..(c + 1) :
            s[Nth(q, n)] = IF n = c + 1 THEN s[k] ELSE s[Nth(p, n)]
    BY <1>6, <1>7, <2>2
  <2> HIDE DEF q, c
  <2> QED
    BY <2>1, <2>3
<1>9. At(s, p) = [n \in 1..c |-> s[Nth(p, n)]]
  BY DEF At
<1> DEFINE a == At(s, p)
           T == {a[n] : n \in 1..c} \cup {s[k]}
<1>10. a \in Seq(T) /\ Len(a) = c
  <2>1. a \in [1..c -> T]
    BY <1>9
  <2> QED
    BY <1>1, <2>1, SeqDef
<1>11. /\ Append(a, s[k]) \in Seq(T) /\ Len(Append(a, s[k])) = c + 1
       /\ \A n \in 1..c : Append(a, s[k])[n] = a[n]
       /\ Append(a, s[k])[c + 1] = s[k]
  BY <1>10, AppendProperties
<1>12. Append(a, s[k]) \in [1..(c + 1) -> T]
  BY <1>11, LenProperties
<1> HIDE DEF a, T, c
<1> QED
  <2>1. At(s, q) \in [1..(c + 1) -> {At(s, q)[n] : n \in 1..(c + 1)}]
    BY <1>8
  <2>2. \A n \in 1..(c + 1) : At(s, q)[n] = Append(a, s[k])[n]
    BY <1>1, <1>8, <1>9, <1>11 DEF a
  <2> QED
    BY <1>8, <1>12, <2>2 DEF a
-----------------------------------------------------------------------------
(* The options of one flag. *)

\* The options that the code writes are options.
LEMMA OptType ==
    /\ \A f \in Flags, v \in Seq(Texts) : Opt(f, v) \in Options /\ Opt(f, v).flag = f
    /\ <<"true">> \in Seq(Texts) /\ <<"driver">> \in Seq(Texts)
    /\ \A f \in Flags : Driver(f) \in Options /\ Driver(f).flag = f
<1>1. \A f \in Flags, v \in Seq(Texts) : Opt(f, v) \in Options /\ Opt(f, v).flag = f
  BY DEF Opt, Options
<1>2. <<"true">> \in Seq(Texts) /\ <<"driver">> \in Seq(Texts)
  <2>1. "true" \in Texts /\ "driver" \in Texts
    BY DEF Texts
  <2>2. ASSUME NEW S, NEW x \in S PROVE <<x>> \in Seq(S)
    OBVIOUS
  <2> QED
    BY <2>1, <2>2
<1> QED
  BY <1>1, <1>2 DEF Driver

\* Positions of a flag are positions of the list.
LEMMA OfInDomain ==
    ASSUME NEW s \in Seq(Options), NEW flag
    PROVE  /\ Len(s) \in Nat /\ DOMAIN s = 1..Len(s)
           /\ Of(s, flag) \in SUBSET (1..Len(s))
           /\ \A i \in DOMAIN s : s[i] \in Options
  BY LenProperties DEF Of

\* A list has none of a flag exactly if the flag is not in it.
LEMMA OfFlagNone ==
    ASSUME NEW s \in Seq(Options), NEW flag
    PROVE  OfFlag(s, flag) = <<>> <=> flag \notin FlagsIn(s)
<1> DEFINE p == Of(s, flag)
<1>1. p = {} <=> flag \notin FlagsIn(s)
  BY DEF Of, FlagsIn
<1>2. p \in SUBSET (1..Len(s)) /\ Len(s) \in Nat
  BY OfInDomain
<1>3. ASSUME p # {} PROVE At(s, p) # <<>>
  <2>1. Cardinality(p) \in Nat /\ Cardinality(p) # 0
    BY <1>2, <1>3, PositionsFinite, FS_EmptySet
  <2>2. DOMAIN At(s, p) = 1..Cardinality(p)
    BY DEF At
  <2>3. 1 \in DOMAIN At(s, p)
    BY <2>1, <2>2
  <2> QED
    BY <2>3
<1> HIDE DEF p
<1>4. ASSUME p = {} PROVE At(s, p) = <<>>
  BY <1>4, AtNone
<1> QED
  BY <1>1, <1>3, <1>4 DEF OfFlag, p

\* A flag that is there once.
LEMMA OfFlagOnce ==
    ASSUME NEW s \in Seq(Options), NEW flag, NEW i \in DOMAIN s, Of(s, flag) = {i}
    PROVE  OfFlag(s, flag) = <<s[i]>>
<1>1. i \in Nat /\ i > 0
  BY LenProperties
<1>2. At(s, {} \cup {i}) = Append(At(s, {}), s[i])
  <2>1. {} \in SUBSET (1..0) /\ 0 \in Nat
    OBVIOUS
  <2> QED
    BY <1>1, <2>1, AtOneMore
<1>3. {} \cup {i} = {i}
  OBVIOUS
<1>4. Append(<<>>, s[i]) = <<s[i]>>
  OBVIOUS
<1>5. At(s, {}) = <<>>
  BY AtNone
<1>6. At(s, {i}) = <<s[i]>>
  BY <1>2, <1>3, <1>4, <1>5
<1> QED
  BY <1>6 DEF OfFlag

\* append: one more of its own flag, and no other flag is touched.
LEMMA OfFlagAppend ==
    ASSUME NEW s \in Seq(Options), NEW o \in Options, NEW flag
    PROVE  /\ Append(s, o) \in Seq(Options)
           /\ OfFlag(Append(s, o), flag) =
                IF o.flag = flag THEN Append(OfFlag(s, flag), o) ELSE OfFlag(s, flag)
<1> DEFINE t == Append(s, o)
           m == Len(s)
           p == Of(s, flag)
<1>1. /\ t \in Seq(Options) /\ Len(t) = m + 1
      /\ \A i \in 1..m : t[i] = s[i]
      /\ t[m + 1] = o
  BY AppendProperties
<1>2. /\ m \in Nat /\ DOMAIN s = 1..m /\ p \in SUBSET (1..m)
      /\ DOMAIN t = 1..(m + 1)
  BY <1>1, OfInDomain
<1>3. At(t, p) = At(s, p)
  <2>1. \A i \in p : t[i] = s[i]
    BY <1>1, <1>2
  <2> HIDE DEF p, t, m
  <2> QED
    BY <1>2, <2>1, AtSame
<1> HIDE DEF t, m
<1>4. CASE o.flag = flag
  <2>1. Of(t, flag) = p \cup {m + 1}
    BY <1>1, <1>2, <1>4 DEF Of
  <2>2. At(t, p \cup {m + 1}) = Append(At(t, p), t[m + 1])
    <3> HIDE DEF p
    <3>1. m + 1 \in Nat /\ m + 1 > m /\ p \in SUBSET (1..m)
      BY <1>2
    <3> DEFINE k == m + 1
    <3> HIDE DEF k
    <3>2. At(t, p \cup {k}) = Append(At(t, p), t[k])
      BY <1>2, <3>1, AtOneMore DEF k
    <3> QED
      BY <3>2 DEF k
  <2> QED
    BY <1>1, <1>3, <1>4, <2>1, <2>2 DEF OfFlag, t
<1>5. CASE o.flag # flag
  <2>1. Of(t, flag) = p
    BY <1>1, <1>2, <1>5 DEF Of
  <2> QED
    BY <1>1, <1>3, <1>5, <2>1 DEF OfFlag, t
<1> QED
  BY <1>4, <1>5

\* A set as a list: each element once.
LEMMA SetToSeqOnce ==
    ASSUME NEW S, IsFiniteSet(S)
    PROVE  /\ SetToSeq(S) \in Seq(S)
           /\ \A x \in S : \E i \in DOMAIN SetToSeq(S) : SetToSeq(S)[i] = x
           /\ \A i, j \in DOMAIN SetToSeq(S) : SetToSeq(S)[i] = SetToSeq(S)[j] => i = j
<1> DEFINE c == Cardinality(S)
           f == SetToSeq(S)
<1>1. c \in Nat /\ ExistsBijection(1..c, S)
  BY FS_CardinalityType
<1>2. \E g \in [1..c -> S] : IsInjective(g)
  BY <1>1 DEF ExistsBijection, Bijection, Injection
<1>3. f \in [1..c -> S] /\ IsInjective(f)
  BY <1>2 DEF SetToSeq
<1> HIDE DEF f
<1>4. f \in Injection(1..c, S)
  BY <1>3 DEF Injection
<1>5. IsFiniteSet(1..c) /\ Cardinality(1..c) = c
  BY <1>1, FS_Interval
<1>6. f \in Surjection(1..c, S)
  BY <1>4, <1>5, FS_Injection
<1>7. f \in Seq(S)
  BY <1>1, <1>3, SeqDef
<1> QED
  BY <1>3, <1>6, <1>7 DEF IsInjective, Surjection, f

\* Defaults put behind the list: one more of each flag of theirs, and no other is touched.
LEMMA OfFlagDefaults ==
    ASSUME NEW s \in Seq(Options), NEW F \in SUBSET Flags, IsFiniteSet(F), NEW flag
    PROVE  LET t == s \o SetToSeq({Driver(f) : f \in F})
           IN /\ t \in Seq(Options)
              /\ OfFlag(t, flag) = IF flag \in F THEN Append(OfFlag(s, flag), Driver(flag))
                                   ELSE OfFlag(s, flag)
              /\ \A i \in DOMAIN t : \/ i \in DOMAIN s /\ t[i] = s[i]
                                     \/ \E f \in F : t[i] = Driver(f)
              /\ \A i \in DOMAIN s : i \in DOMAIN t /\ t[i] = s[i]
<1> DEFINE D == {Driver(f) : f \in F}
           u == SetToSeq(D)
           t == s \o u
           m == Len(s)
           p == Of(s, flag)
<1>1. IsFiniteSet(D)
  <2> DEFINE g == [f \in F |-> Driver(f)]
  <2>1. g \in Surjection(F, D)
    BY DEF Surjection
  <2> HIDE DEF g, D
  <2> QED
    BY <2>1, FS_Surjection
<1>2. D \in SUBSET Options
  <2>1. \A f \in F : Driver(f) \in Options
    BY OptType DEF Driver
  <2> QED
    BY <2>1
<1> HIDE DEF D
<1>3. /\ u \in Seq(D)
      /\ \A x \in D : \E i \in DOMAIN u : u[i] = x
      /\ \A i, j \in DOMAIN u : u[i] = u[j] => i = j
  BY <1>1, SetToSeqOnce
<1>4. u \in Seq(Options)
  BY <1>2, <1>3, SeqMonotonic
<1> HIDE DEF u
<1>5. /\ m \in Nat /\ DOMAIN s = 1..m /\ p \in SUBSET (1..m)
      /\ Len(u) \in Nat /\ DOMAIN u = 1..Len(u)
      /\ \A i \in 1..Len(u) : u[i] \in D
  BY <1>3, <1>4, OfInDomain, ElementOfSeq
<1>6. /\ t \in Seq(Options) /\ DOMAIN t = 1..(m + Len(u))
      /\ \A i \in 1..m : t[i] = s[i]
      /\ \A i \in 1..Len(u) : t[m + i] = u[i]
  <2>1. /\ t \in Seq(Options) /\ Len(t) = m + Len(u)
        /\ \A i \in 1..(m + Len(u)) : t[i] = IF i <= m THEN s[i] ELSE u[i - m]
    BY <1>4, ConcatProperties
  <2> HIDE DEF t, m
  <2>2. DOMAIN t = 1..(m + Len(u))
    BY <2>1, LenProperties
  <2>3. \A i \in 1..m : t[i] = s[i]
    BY <1>5, <2>1
  <2>4. ASSUME NEW i \in 1..Len(u) PROVE t[m + i] = u[i]
    <3>1. m + i \in 1..(m + Len(u)) /\ ~(m + i <= m) /\ (m + i) - m = i
      BY <1>5
    <3> QED
      BY <2>1, <3>1
  <2> QED
    BY <2>1, <2>2, <2>3, <2>4
<1> HIDE DEF t, m
<1>7. \A i \in 1..m : i \in DOMAIN t
  BY <1>5, <1>6
<1>8. ASSUME NEW k \in DOMAIN t, k \notin 1..m
      PROVE  k - m \in 1..Len(u) /\ k = m + (k - m) /\ t[k] = u[k - m]
             /\ \E f \in F : t[k] = Driver(f)
  <2>1. k - m \in 1..Len(u) /\ k = m + (k - m)
    BY <1>5, <1>6, <1>8
  <2>2. t[k] = u[k - m]
    BY <1>6, <2>1
  <2> QED
    BY <1>5, <2>1, <2>2 DEF D
<1>9. \A f : Driver(f).flag = f
  BY DEF Driver, Opt
<1>10. p = {k \in 1..m : t[k].flag = flag}
  BY <1>5, <1>6 DEF Of
<1>11. At(t, p) = At(s, p)
  <2>1. \A i \in p : t[i] = s[i]
    BY <1>5, <1>6
  <2> HIDE DEF p
  <2> QED
    BY <1>5, <2>1, AtSame
<1>12. CASE flag \in F
  <2>1. PICK i \in DOMAIN u : u[i] = Driver(flag)
    BY <1>3, <1>12 DEF D
  <2> DEFINE k == m + i
  <2>2. i \in 1..Len(u) /\ k \in Nat /\ k > m /\ k \in DOMAIN t /\ k \notin 1..m
        /\ t[k] = Driver(flag)
    BY <1>5, <1>6, <2>1
  <2>3. ASSUME NEW l \in DOMAIN t, l \notin 1..m, t[l].flag = flag PROVE l = k
    <3>1. l - m \in 1..Len(u) /\ l = m + (l - m) /\ u[l - m] = Driver(flag)
      BY <1>8, <1>9, <2>3
    <3>2. l - m = i
      BY <1>3, <1>5, <2>1, <2>2, <3>1
    <3> QED
      BY <3>1, <3>2
  <2> HIDE DEF k
  <2>4. Of(t, flag) = p \cup {k}
    BY <1>7, <1>9, <1>10, <2>2, <2>3 DEF Of
  <2>5. At(t, p \cup {k}) = Append(At(t, p), t[k])
    <3> HIDE DEF p
    <3> QED
      BY <1>5, <2>2, AtOneMore
  <2>6. OfFlag(t, flag) = Append(OfFlag(s, flag), Driver(flag))
    BY <1>11, <2>2, <2>4, <2>5 DEF OfFlag
  <2> QED
    BY <1>5, <1>6, <1>7, <1>8, <1>12, <2>6 DEF t, u, D
<1>13. CASE flag \notin F
  <2>1. \A k \in DOMAIN t : t[k].flag = flag => k \in 1..m
    BY <1>8, <1>9, <1>13
  <2>2. Of(t, flag) = p
    BY <1>7, <1>10, <2>1 DEF Of
  <2>3. OfFlag(t, flag) = OfFlag(s, flag)
    BY <1>11, <2>2 DEF OfFlag
  <2> QED
    BY <1>5, <1>6, <1>7, <1>8, <1>13, <2>3 DEF t, u, D
<1> QED
  BY <1>12, <1>13

\* The smallest of some positions is the first.
LEMMA MinIsFirst ==
    ASSUME NEW m \in Nat, NEW p \in SUBSET (1..m), p # {}
    PROVE  Min(p) \in p /\ \A i \in p : Min(p) <= i
<1> DEFINE k == Nth(p, 1)
<1>1. p \in SUBSET Nat /\ Cardinality(p) \in Nat /\ Cardinality(p) # 0
  BY PositionsFinite, FS_EmptySet
<1>2. 1 \in 1..Cardinality(p)
  BY <1>1
<1>3. k \in p /\ Rank(p, k) = 1
  BY <1>2, NthHasRank
<1> HIDE DEF k
<1>4. ASSUME NEW i \in p, ~(k <= i) PROVE FALSE
  <2>1. i < k
    BY <1>1, <1>3, <1>4
  <2>2. Rank(p, i) < Rank(p, k)
    BY <1>3, <2>1, RankGrows
  <2>3. Rank(p, i) \in 1..Cardinality(p)
    BY RankType
  <2> QED
    BY <1>1, <1>3, <2>2, <2>3
<1>5. \E x \in p : \A y \in p : x <= y
  BY <1>3, <1>4
<1> QED
  BY <1>5 DEF Min

\* Nothing else is the smallest.
LEMMA OnlyMin ==
    ASSUME NEW m \in Nat, NEW p \in SUBSET (1..m), NEW i \in p, \A j \in p : i <= j
    PROVE  Min(p) = i
<1> DEFINE k == Min(p)
<1>1. k \in p /\ k <= i
  BY MinIsFirst
<1>2. i \in Nat /\ k \in Nat /\ i <= k
  BY <1>1, PositionsFinite
<1> HIDE DEF k
<1>3. k = i
  BY <1>1, <1>2
<1> QED
  BY <1>3 DEF k

\* The options of a flag are a list of their own.
LEMMA OfFlagList ==
    ASSUME NEW s \in Seq(Options), NEW flag
    PROVE  LET p == Of(s, flag)
               u == OfFlag(s, flag)
           IN /\ u \in Seq(Options) /\ DOMAIN u = 1..Cardinality(p)
              /\ \A n \in DOMAIN u : /\ u[n] = s[Nth(p, n)] /\ u[n].flag = flag
                                     /\ Nth(p, n) \in p /\ Rank(p, Nth(p, n)) = n
<1> DEFINE p == Of(s, flag)
           u == OfFlag(s, flag)
           c == Cardinality(p)
<1>1. p \in SUBSET (1..Len(s)) /\ Len(s) \in Nat /\ \A i \in p : s[i] \in Options
  BY OfInDomain
<1>2. c \in Nat
  BY <1>1, PositionsFinite
<1>3. u = [n \in 1..c |-> s[Nth(p, n)]]
  BY DEF OfFlag, At
<1>4. \A i \in p : s[i].flag = flag
  BY DEF Of
<1> HIDE DEF p, u, c
<1>5. \A n \in 1..c : Nth(p, n) \in p /\ Rank(p, Nth(p, n)) = n
  BY <1>1, NthHasRank DEF c
<1>6. u \in [1..c -> Options]
  BY <1>1, <1>3, <1>5
<1>7. u \in Seq(Options)
  BY <1>2, <1>6, SeqDef
<1> QED
  BY <1>3, <1>4, <1>5, <1>7 DEF p, u, c

\* An option of some kind is in the list exactly if it is among those of some flag.
LEMMA SomeOption ==
    ASSUME NEW s \in Seq(Options), NEW K
    PROVE  (\E i \in DOMAIN s : s[i] \in K) <=>
           \E f \in Flags : \E n \in DOMAIN OfFlag(s, f) : OfFlag(s, f)[n] \in K
<1>1. ASSUME NEW i \in DOMAIN s, s[i] \in K
      PROVE  \E f \in Flags : \E n \in DOMAIN OfFlag(s, f) : OfFlag(s, f)[n] \in K
  <2> DEFINE f == s[i].flag
             q == Of(s, f)
             u == OfFlag(s, f)
  <2>1. /\ Len(s) \in Nat /\ q \in SUBSET (1..Len(s)) /\ i \in q /\ f \in Flags
    BY OfInDomain DEF Of, Options
  <2>2. /\ DOMAIN u = 1..Cardinality(q) /\ \A n \in DOMAIN u : u[n] = s[Nth(q, n)]
    BY OfFlagList
  <2> HIDE DEF q, u, f
  <2>3. Rank(q, i) \in 1..Cardinality(q) /\ Nth(q, Rank(q, i)) = i
    BY <2>1, RankType, NthOfRank
  <2>4. Rank(q, i) \in DOMAIN u /\ u[Rank(q, i)] \in K
    BY <1>1, <2>2, <2>3
  <2> QED
    BY <2>1, <2>4 DEF u
<1>2. ASSUME NEW f \in Flags, NEW n \in DOMAIN OfFlag(s, f), OfFlag(s, f)[n] \in K
      PROVE  \E i \in DOMAIN s : s[i] \in K
  <2> DEFINE k == Nth(Of(s, f), n)
  <2>1. OfFlag(s, f)[n] = s[k] /\ k \in Of(s, f)
    BY OfFlagList
  <2>2. k \in DOMAIN s
    BY <2>1 DEF Of
  <2> QED
    BY <1>2, <2>1, <2>2
<1> QED
  BY <1>1, <1>2

\* addTelemetryTagToArgs only touches the telemetry options: one more, or the first
\* value of them.
LEMMA OfFlagTelemetry ==
    ASSUME NEW s \in Seq(Options), NEW flag
    PROVE  LET t == addTelemetryTagToArgs(s)
           IN /\ t \in Seq(Options)
              /\ OfFlag(t, flag) =
                    IF flag # "--telemetry" THEN OfFlag(s, flag)
                    ELSE IF ~InArgs(s, flag) THEN Append(OfFlag(s, flag), Driver(flag))
                    ELSE IF InArgs(s, telemetryTagPrefix) THEN OfFlag(s, flag)
                    ELSE FirstTagged(OfFlag(s, flag))
<1> DEFINE tel == "--telemetry"
           t == addTelemetryTagToArgs(s)
           p == Of(s, tel)
           u == OfFlag(s, tel)
           there == InArgs(s, tel)
           tagged == InArgs(s, telemetryTagPrefix)
           valued == {i \in p : s[i].value # <<>>}
           valuedU == {n \in DOMAIN u : u[n].value # <<>>}
<1>1. t = IF ~there THEN Append(s, Driver(tel))
          ELSE IF tagged \/ valued = {} THEN s
          ELSE [s EXCEPT ![Min(valued)].value = <<"driver">> \o s[Min(valued)].value]
  <2>1. valued = {i \in DOMAIN s : s[i].flag = tel /\ s[i].value # <<>>}
    BY DEF Of
  <2> HIDE DEF valued
  <2> QED
    BY <2>1 DEF addTelemetryTagToArgs
<1>2. /\ Len(s) \in Nat /\ DOMAIN s = 1..Len(s) /\ p \in SUBSET (1..Len(s))
      /\ \A i \in DOMAIN s : s[i] \in Options
  BY OfInDomain
<1>3. /\ u \in Seq(Options) /\ DOMAIN u = 1..Cardinality(p)
      /\ \A n \in DOMAIN u : /\ u[n] = s[Nth(p, n)] /\ u[n].flag = tel
                             /\ Nth(p, n) \in p /\ Rank(p, Nth(p, n)) = n
  BY OfFlagList
<1>4. u = [n \in DOMAIN u |-> u[n]]
  BY DEF OfFlag, At
<1>5. ASSUME NEW i \in p PROVE Rank(p, i) \in DOMAIN u /\ Nth(p, Rank(p, i)) = i
  <2> HIDE DEF p, u
  <2> QED
    BY <1>2, <1>3, <1>5, RankType, NthOfRank
<1>6. FirstTagged(u) =
          [n \in DOMAIN u |->
              IF u[n].value # <<>> /\ \A k \in DOMAIN u : k < n => u[k].value = <<>>
              THEN [u[n] EXCEPT !.value = <<"driver">> \o u[n].value] ELSE u[n]]
  BY DEF FirstTagged
<1> HIDE DEF u, p, t, there, tagged
<1>7. CASE ~there
  <2>1. Driver(tel) \in Options /\ Driver(tel).flag = tel
    BY OptType DEF Flags
  <2>2. t \in Seq(Options)
        /\ OfFlag(t, flag) = IF tel = flag THEN Append(OfFlag(s, flag), Driver(tel))
                             ELSE OfFlag(s, flag)
    BY <1>1, <1>7, <2>1, OfFlagAppend
  <2> QED
    BY <1>7, <2>2 DEF t, there
<1>8. CASE there /\ (tagged \/ valued = {})
  <2>1. t = s
    BY <1>1, <1>8
  <2>2. \A n \in valuedU : Nth(p, n) \in valued
    BY <1>3
  <2>3. valued = {} => FirstTagged(u) = u
    <3> SUFFICES ASSUME valued = {} PROVE FirstTagged(u) = u
      OBVIOUS
    <3>1. \A n \in DOMAIN u : ~(u[n].value # <<>>)
      BY <2>2
    <3> QED
      BY <1>4, <1>6, <3>1
  <2> QED
    BY <1>8, <2>1, <2>3 DEF t, u, there, tagged
<1>9. CASE there /\ valued # {} /\ ~tagged
  <2> DEFINE k == Min(valued)
             v == <<"driver">> \o s[k].value
             r == Rank(p, k)
  <2>1. valued \in SUBSET (1..Len(s))
    BY <1>2
  <2>2. k \in valued /\ \A i \in valued : k <= i
    BY <1>2, <1>9, <2>1, MinIsFirst
  <2>3. k \in p /\ s[k] \in Options
    BY <1>2, <2>2
  <2> HIDE DEF k
  <2>4. v \in Seq(Texts)
    <3>1. s[k].value \in Seq(Texts)
      BY <2>3 DEF Options
    <3> QED
      BY <3>1, OptType, ConcatProperties
  <2>5. t = [s EXCEPT ![k] = [s[k] EXCEPT !.value = v]]
    BY <1>1, <1>9 DEF k
  <2> HIDE DEF v
  <2>6. /\ t \in Seq(Options)
        /\ r \in DOMAIN u /\ u[r] = s[k]
        /\ OfFlag(t, tel) = [u EXCEPT ![r] = [u[r] EXCEPT !.value = v]]
        /\ \A other : other # tel => OfFlag(t, other) = OfFlag(s, other)
    <3> DEFINE o == [s[k] EXCEPT !.value = v]
    <3>1. t = [s EXCEPT ![k] = o] /\ k \in Of(s, tel) /\ r = Rank(Of(s, tel), k)
      BY <2>3, <2>5 DEF p
    <3>2. /\ t \in Seq(Options)
          /\ r \in DOMAIN u /\ u[r] = s[k]
          /\ OfFlag(t, tel) = [u EXCEPT ![r] = o]
          /\ \A other : other # tel => OfFlag(t, other) = OfFlag(s, other)
      <4>1. o \in Options /\ o.flag = tel
        BY <2>3, <2>4, <3>1 DEF Options, Of
      <4> HIDE DEF valued, valuedU, tagged, tel, o
      <4>2. t \in Seq(Options) /\ DOMAIN t = DOMAIN s
        BY <1>2, <3>1, <4>1, ExceptSeq, LenProperties DEF Of
      <4>3. t[k] = o /\ \A i \in DOMAIN s : i # k => t[i] = s[i]
        BY <3>1 DEF Of
      <4>4. \A f : Of(t, f) = Of(s, f)
        <5>1. \A i \in DOMAIN s : t[i].flag = s[i].flag
          BY <3>1, <4>1, <4>3 DEF Of
        <5> QED
          BY <4>2, <5>1 DEF Of
      <4>5. r \in DOMAIN u /\ Nth(p, r) = k /\ u[r] = s[k]
        BY <1>3, <1>5, <2>3
      <4>6. OfFlag(t, tel) = [j \in DOMAIN u |-> t[Nth(p, j)]]
        <5>1. OfFlag(t, tel) = At(t, p)
          BY <4>4 DEF OfFlag, p
        <5> QED
          BY <1>3, <5>1 DEF At
      <4>7. u = [j \in DOMAIN u |-> u[j]]
        BY DEF OfFlag, At, u
      <4>8. ASSUME NEW j \in DOMAIN u PROVE t[Nth(p, j)] = IF j = r THEN o ELSE u[j]
        <5>1. CASE j = r
          BY <4>3, <4>5, <5>1
        <5>2. CASE j # r
          <6>1. Nth(p, j) # k /\ Nth(p, j) \in DOMAIN s
            BY <1>2, <1>3, <5>2
          <6> QED
            BY <1>3, <4>3, <5>2, <6>1
        <5> QED
          BY <5>1, <5>2
      <4>9. OfFlag(t, tel) = [u EXCEPT ![r] = o]
        <5> HIDE DEF r
        <5> QED
          BY <4>5, <4>6, <4>7, <4>8
      <4>10. ASSUME NEW other, other # tel PROVE OfFlag(t, other) = OfFlag(s, other)
        <5> DEFINE q == Of(s, other)
        <5>1. q \in SUBSET (1..Len(s)) /\ k \notin q
          BY <3>1, <4>10, OfInDomain DEF Of
        <5>2. \A i \in q : t[i] = s[i]
          BY <1>2, <4>3, <5>1
        <5> HIDE DEF q
        <5>3. At(t, q) = At(s, q)
          BY <1>2, <5>1, <5>2, AtSame
        <5> QED
          BY <4>4, <5>3 DEF OfFlag, q
      <4> QED
        BY <4>2, <4>5, <4>9, <4>10
    <3> QED
      BY <3>2
  <2>7. \A j \in valuedU : r <= j
    <3>0. p \in SUBSET Nat /\ DOMAIN u \in SUBSET Nat
      BY <1>2, <1>3, PositionsFinite
    <3> SUFFICES ASSUME NEW j \in valuedU PROVE r <= j
      OBVIOUS
    <3>1. Nth(p, j) \in p /\ Nth(p, j) \in valued /\ Rank(p, Nth(p, j)) = j
      BY <1>3
    <3>2. k <= Nth(p, j) /\ k \in Nat /\ Nth(p, j) \in Nat
      BY <2>2, <2>3, <3>0, <3>1
    <3>3. r \in Nat /\ j \in Nat
      BY <2>6, <3>0
    <3>4. CASE k = Nth(p, j)
      <4>1. r = j
        BY <3>1, <3>4
      <4> HIDE DEF valuedU, r
      <4> QED
        BY <3>3, <4>1
    <3>5. CASE k < Nth(p, j)
      <4>1. r < j
        BY <1>2, <2>3, <3>1, <3>5, RankGrows
      <4> HIDE DEF valuedU, r
      <4> QED
        BY <3>3, <4>1
    <3> HIDE DEF valuedU, r
    <3> QED
      BY <3>2, <3>4, <3>5
  <2>8. r \in valuedU
    BY <2>2, <2>6
  <2>9. DOMAIN u \in SUBSET Nat
    BY <1>2, <1>3, PositionsFinite
  <2>10. \A n \in DOMAIN u :
            (u[n].value # <<>> /\ \A j \in DOMAIN u : j < n => u[j].value = <<>>) <=> n = r
    <3> HIDE DEF r
    <3>1. \A j \in DOMAIN u : u[j].value # <<>> => r <= j
      BY <2>7
    <3>2. r \in DOMAIN u /\ u[r].value # <<>> /\ r \in Nat
      BY <2>8, <2>9
    <3>3. ASSUME NEW n \in DOMAIN u, n # r, u[n].value # <<>> PROVE r < n
      BY <2>9, <3>1, <3>2, <3>3
    <3>4. ASSUME NEW j \in DOMAIN u, j < r PROVE u[j].value = <<>>
      BY <2>9, <3>1, <3>2, <3>4
    <3> QED
      BY <3>2, <3>3, <3>4
  <2>11. FirstTagged(u) = [u EXCEPT ![r] = [u[r] EXCEPT !.value = v]]
    <3> HIDE DEF r
    <3>1. \A n \in DOMAIN u :
             (IF u[n].value # <<>> /\ \A j \in DOMAIN u : j < n => u[j].value = <<>>
              THEN [u[n] EXCEPT !.value = <<"driver">> \o u[n].value] ELSE u[n])
             = IF n = r THEN [u[r] EXCEPT !.value = v] ELSE u[n]
      BY <2>6, <2>10 DEF v
    <3>2. FirstTagged(u) = [n \in DOMAIN u |-> IF n = r THEN [u[r] EXCEPT !.value = v] ELSE u[n]]
      BY <1>6, <3>1
    <3> HIDE DEF v
    <3> QED
      BY <1>4, <3>2
  <2> QED
    BY <1>9, <2>6, <2>11 DEF t, u, there, tagged
<1> QED
  BY <1>7, <1>8, <1>9
-----------------------------------------------------------------------------
(* What the list holds of a flag after each stage. *)

OptionsTypeOK ==
    /\ setting.inline \in Seq(Options)
    /\ flags \in Seq(Options) /\ given \in Seq(Options) /\ opts \in Seq(Options)
    /\ stage \in {"collect", "rejected", "cache", "fallback", "defaults", "proxy", "done"}
    /\ next \in Nat /\ fallbackOptions \in Seq(Options)
    /\ includedLocalOptions \in SUBSET Flags /\ blockCacheEnabled \in BOOLEAN

UpTo(positions, n) == {i \in positions : i < n}

\* The loop of fallbackToLocalBlockCache has handled the options before next.
FallbackSoFar(flag) ==
    IF flag \in Distributed THEN <<>>
    ELSE IF flag = "--block-cache"
         THEN IF blockCacheEnabled THEN <<Opt(flag, <<"true">>)>> ELSE <<>>
    ELSE IF flag \in FlagsIn(given) THEN At(given, UpTo(Of(given, flag), next))
    ELSE IF UpTo(StandIns(given, flag), next) # {}
         THEN <<Opt(flag, given[Min(StandIns(given, flag))].value)>>
    ELSE <<>>

InLoop ==
    /\ FellBack
    /\ next \in 1..(Len(given) + 1)
    /\ \A flag \in Flags :
          /\ OfFlag(fallbackOptions, flag) = FallbackSoFar(flag)
          /\ flag \in includedLocalOptions <=>
                \/ flag \in FlagsIn(given) \ Distributed
                \/ UpTo(StandIns(given, flag), next) # {}

\* What is true of every flag at each stage.
StageInv ==
    /\ stage \in {"cache", "fallback"} => opts = given
    /\ stage = "fallback" => InLoop
    /\ stage = "defaults" => \A flag \in Flags : OfFlag(opts, flag) = Cached(flag)
    /\ stage = "proxy" =>
          setting.proxy /\ \A flag \in Flags : OfFlag(opts, flag) = Driven(flag)
    /\ stage = "done" => \A flag \in Flags : OfFlag(opts, flag) = Promised(flag)

OptionsInv == OptionsTypeOK /\ StageInv
-----------------------------------------------------------------------------
(* Types. *)

\* The user's options are options.
LEMMA UserOptionsType == UserOptions \in SUBSET Options
<1>1. ASSUME NEW o \in UserOptions PROVE o \in Options
  <2>1. o \in [flag : STRING, value : Seq(STRING), padded : BOOLEAN]
    BY OptionsAssumption
  <2>2. o.flag \in Flags
    BY DEF Flags
  <2>3. o.value \in Seq(Texts)
    <3>1. o.value \in Seq(STRING) /\ STRING \in SUBSET Texts
      BY <2>1 DEF Texts
    <3> QED
      BY <3>1, SeqMonotonic
  <2> QED
    BY <2>1, <2>2, <2>3 DEF Options
<1> QED
  BY <1>1

\* Lists of the user's options are lists of options.
LEMMA UserListType ==
    ASSUME NEW n \in Nat, NEW s \in SeqOf(UserOptions, n)
    PROVE  s \in Seq(Options)
<1>1. PICK m \in 0..n : s \in [1..m -> UserOptions]
  BY DEF SeqOf
<1>2. s \in Seq(UserOptions)
  BY <1>1, SeqDef
<1> QED
  BY <1>2, UserOptionsType, SeqMonotonic

\* JoinMountOptions makes a list of options.
LEMMA JoinType ==
    ASSUME NEW s \in Seq(Options), NEW t \in Seq(Options)
    PROVE  JoinMountOptions(s, t) \in Seq(Options)
<1>1. ASSUME NEW l \in Seq(Options) PROVE IsFiniteSet(ToSet(l)) /\ ToSet(l) \in SUBSET Options
  <2>1. Len(l) \in Nat /\ DOMAIN l = 1..Len(l) /\ l \in [1..Len(l) -> Options]
    BY LenProperties
  <2>2. l \in [1..Len(l) -> ToSet(l)]
    BY <2>1 DEF ToSet
  <2>3. l \in Surjection(1..Len(l), ToSet(l))
    BY <2>1, <2>2 DEF Surjection, ToSet
  <2>4. IsFiniteSet(1..Len(l))
    BY <2>1, FS_Interval
  <2> QED
    BY <2>1, <2>3, <2>4, FS_Surjection DEF ToSet
<1> DEFINE S == ToSet(s) \cup ToSet(t)
<1>2. IsFiniteSet(S) /\ S \in SUBSET Options
  BY <1>1, FS_Union
<1> HIDE DEF S
<1>3. SetToSeq(S) \in Seq(Options)
  BY <1>2, SetToSeqOnce, SeqMonotonic
<1> QED
  BY <1>3 DEF JoinMountOptions, S

\* The flags that the steps treat apart are different.
LEMMA FlagsDiffer ==
    /\ Distributed \in SUBSET Flags /\ LocalFlags \in SUBSET Flags
    /\ Translatable \in SUBSET Distributed /\ LocalFlags \cap Distributed = {}
    /\ \A f \in Translatable : distributedToBlockCacheOptions[f] \in LocalFlags
    /\ "--block-cache" \in Flags
    /\ "--block-cache" \notin Distributed \cup LocalFlags
<1>1. \A f \in Translatable : distributedToBlockCacheOptions[f] \in LocalFlags
  BY DEF LocalFlags
<1>2. "--block-cache" \notin LocalFlags
  BY DEF LocalFlags, Translatable, distributedToBlockCacheOptions
<1> QED
  BY <1>1, <1>2, TextAssumption DEF Flags, Distributed

\* The first state.
LEMMA OptionsInvInit == Init => OptionsInv
<1> SUFFICES ASSUME Init PROVE OptionsInv
  OBVIOUS
<1>1. flags \in Seq(Options)
  BY OptionsAssumption, UserListType DEF Init
<1>2. <<>> \in Seq(Options) /\ 1 \in Nat
  OBVIOUS
<1>3. setting.inline \in Seq(Options)
  <2> DEFINE n == MaxOptions - Len(flags)
  <2>1. PICK m \in 0..MaxOptions : flags \in [1..m -> UserOptions]
    BY DEF Init, SeqOf
  <2>2. flags \in Seq(UserOptions) /\ Len(flags) = m
    BY <2>1, SeqDef, OptionsAssumption
  <2>3. n \in Nat
    BY <2>2, OptionsAssumption
  <2>4. setting \in Settings(n)
    BY DEF Init
  <2> HIDE DEF n
  <2>5. setting.inline \in SeqOf(UserOptions, n)
    BY <2>4 DEF Settings
  <2> QED
    BY <2>3, <2>5, UserListType
<1>5. OptionsTypeOK
  BY <1>1, <1>2, <1>3 DEF Init, OptionsTypeOK
<1>4. StageInv
  BY DEF Init, StageInv
<1> QED
  BY <1>4, <1>5 DEF OptionsInv

\* NodeStageVolume collects the options.
LEMMA CollectKeeps ==
    ASSUME OptionsInv, CollectOptions \/ RejectOptions PROVE OptionsInv'
<1>1. CASE CollectOptions
  <2> DEFINE merged == IF setting.ephemeral THEN JoinMountOptions(flags, setting.inline)
                       ELSE flags
             adls == IF setting.hns
                     THEN JoinMountOptions(merged, <<Opt("--use-adls", <<"true">>)>>)
                     ELSE merged
  <2>1. flags \in Seq(Options) /\ setting.inline \in Seq(Options)
    BY DEF OptionsInv, OptionsTypeOK
  <2>2. merged \in Seq(Options)
    BY <2>1, JoinType
  <2>3. "--use-adls" \in Flags /\ "-o gid" \in Flags
    BY DEF Flags
  <2>4. Opt("--use-adls", <<"true">>) \in Options /\ Driver("-o gid") \in Options
    BY <2>3, OptType
  <2> HIDE DEF merged
  <2>5. <<Opt("--use-adls", <<"true">>)>> \in Seq(Options)
    <3>1. ASSUME NEW x \in Options PROVE <<x>> \in Seq(Options)
      OBVIOUS
    <3> QED
      BY <2>4, <3>1
  <2>6. adls \in Seq(Options)
    BY <2>2, <2>5, JoinType
  <2> HIDE DEF adls
  <2>7. Append(adls, Driver("-o gid")) \in Seq(Options)
    BY <2>4, <2>6, AppendProperties
  <2>8. given' \in Seq(Options)
    BY <1>1, <2>6, <2>7 DEF CollectOptions, adls, merged
  <2> QED
    BY <1>1, <2>8 DEF CollectOptions, OptionsInv, OptionsTypeOK, StageInv, request, loop
<1>2. CASE RejectOptions
  BY <1>2 DEF RejectOptions, OptionsInv, OptionsTypeOK, StageInv, request, loop
<1> QED
  BY <1>1, <1>2
-----------------------------------------------------------------------------
(* The loop of fallbackToLocalBlockCache. *)

\* One more position is handled.
LEMMA UpToNext ==
    ASSUME NEW p \in SUBSET Nat, NEW n \in Nat
    PROVE  UpTo(p, n + 1) = IF n \in p THEN UpTo(p, n) \cup {n} ELSE UpTo(p, n)
<1>1. \A i \in p : i < n + 1 <=> i < n \/ i = n
  OBVIOUS
<1> QED
  BY <1>1 DEF UpTo

\* So one more option is kept.
LEMMA AtUpToNext ==
    ASSUME NEW n \in Nat \ {0}, NEW p \in SUBSET (Nat \ {0}), NEW s, n \in p
    PROVE  At(s, UpTo(p, n + 1)) = Append(At(s, UpTo(p, n)), s[n])
<1> DEFINE m == n - 1
           q == UpTo(p, n)
<1>1. m \in Nat /\ n \in Nat /\ n > m
  OBVIOUS
<1>2. q \in SUBSET (1..m)
  <2>1. \A i \in p : i \in Nat /\ i # 0
    OBVIOUS
  <2>2. \A i \in p : i < n => i \in 1..m
    BY <2>1
  <2> QED
    BY <2>2 DEF UpTo
<1> HIDE DEF m, q
<1>3. At(s, q \cup {n}) = Append(At(s, q), s[n])
  BY <1>1, <1>2, AtOneMore
<1>4. UpTo(p, n + 1) = q \cup {n}
  BY UpToNext DEF q
<1> QED
  BY <1>3, <1>4 DEF q

\* Positions of the user's options.
LEMMA GivenPositions ==
    ASSUME given \in Seq(Options), NEW flag
    PROVE  /\ Len(given) \in Nat /\ DOMAIN given = 1..Len(given)
           /\ Of(given, flag) \in SUBSET (Nat \ {0}) /\ Of(given, flag) \in SUBSET Nat
           /\ Of(given, flag) \in SUBSET (1..Len(given))
           /\ StandIns(given, flag) \in SUBSET (1..Len(given))
           /\ StandIns(given, flag) \in SUBSET Nat
<1>1. Len(given) \in Nat /\ DOMAIN given = 1..Len(given)
  BY LenProperties
<1>2. 1..Len(given) \in SUBSET (Nat \ {0})
  BY <1>1
<1> QED
  BY <1>1, <1>2 DEF Of, StandIns

\* No distributed cache, or one that the binary has: nothing changes.
LEMMA KeepCacheKeeps == ASSUME OptionsInv, KeepCache PROVE OptionsInv'
<1>1. opts = given /\ UNCHANGED <<given, setting, opts>>
  BY DEF OptionsInv, StageInv, KeepCache, request
<1>2. ~FellBack
  BY <1>1 DEF FellBack, KeepCache, CanDistribute, RunsBlobfuse2, isDistributedCacheSupported,
              UsesBlobfuse2, hasDistributedCacheMountOptions
<1>3. ~FellBack'
  BY <1>1, <1>2 DEF FellBack, CanDistribute, RunsBlobfuse2
<1>4. \A flag \in Flags : OfFlag(opts', flag) = Cached(flag)'
  BY <1>1, <1>3 DEF Cached
<1> QED
  BY <1>4 DEF KeepCache, OptionsInv, OptionsTypeOK, StageInv, request, loop

\* The loop starts.
LEMMA FallBackKeeps == ASSUME OptionsInv, FallBack PROVE OptionsInv'
<1>1. /\ opts = given /\ opts' = given' /\ given' = given /\ UNCHANGED setting
      /\ given \in Seq(Options)
  BY DEF OptionsInv, OptionsTypeOK, StageInv, FallBack, request
<1>2. FellBack'
  BY <1>1 DEF FellBack, FallBack, CanDistribute, RunsBlobfuse2, isDistributedCacheSupported,
              UsesBlobfuse2, hasDistributedCacheMountOptions
<1>3. ASSUME NEW flag \in Flags
      PROVE  /\ OfFlag(fallbackOptions', flag) = FallbackSoFar(flag)'
             /\ flag \in includedLocalOptions' <=>
                  \/ flag \in FlagsIn(given') \ Distributed
                  \/ UpTo(StandIns(given', flag), next') # {}
  <2>1. next' = 1 /\ fallbackOptions' = <<>> /\ blockCacheEnabled' = FALSE
        /\ includedLocalOptions' = FlagsIn(given) \ Distributed
    BY <1>1 DEF FallBack
  <2>2. UpTo(Of(given, flag), 1) = {} /\ UpTo(StandIns(given, flag), 1) = {}
    BY <1>1, GivenPositions DEF UpTo
  <2>3. OfFlag(<<>>, flag) = <<>>
    <3>1. Of(<<>>, flag) = {}
      BY DEF Of
    <3> QED
      BY <3>1, AtNone DEF OfFlag
  <2>4. At(given, {}) = <<>>
    BY AtNone
  <2>5. FallbackSoFar(flag)' = <<>>
    BY <1>1, <2>1, <2>2, <2>4 DEF FallbackSoFar
  <2> QED
    BY <1>1, <2>1, <2>2, <2>3, <2>5
<1>4. InLoop'
  <2>1. next' \in 1..(Len(given') + 1)
    BY <1>1, LenProperties DEF FallBack
  <2> QED
    BY <1>2, <1>3, <2>1 DEF InLoop
<1>5. OptionsTypeOK'
  <2>1. FlagsIn(opts) \in SUBSET Flags
    <3>1. \A i \in DOMAIN opts : opts[i] \in Options
      BY <1>1, OfInDomain
    <3>2. \A i \in DOMAIN opts : opts[i].flag \in Flags
      BY <3>1 DEF Options
    <3> QED
      BY <3>2 DEF FlagsIn
  <2>2. <<>> \in Seq(Options) /\ 1 \in Nat
    OBVIOUS
  <2> QED
    BY <2>1, <2>2 DEF FallBack, OptionsInv, OptionsTypeOK, request
<1> QED
  BY <1>1, <1>4, <1>5 DEF FallBack, OptionsInv, StageInv

\* What one turn of the loop does whatever the option is.
LEMMA LoopTurn ==
    ASSUME OptionsInv, AtOption
    PROVE  /\ InLoop /\ opts = given /\ FellBack'
           /\ UNCHANGED <<given, opts, setting, flags, stage>>
           /\ stage = "fallback" /\ given \in Seq(Options)
           /\ next \in Nat \ {0} /\ next' = next + 1 /\ next \in DOMAIN given
           /\ next' \in Nat /\ next' \in 1..(Len(given') + 1)
           /\ given[next] \in Options /\ given[next].flag \in Flags
           /\ given[next].flag \in FlagsIn(given)
<1>1. /\ stage = "fallback" /\ opts = given /\ InLoop /\ given \in Seq(Options)
      /\ UNCHANGED <<given, opts, setting, flags, stage>>
      /\ next <= Len(given) /\ next' = next + 1
  BY DEF OptionsInv, OptionsTypeOK, StageInv, AtOption, request
<1>2. FellBack'
  BY <1>1 DEF InLoop, FellBack, CanDistribute, RunsBlobfuse2
<1>3. /\ Len(given) \in Nat /\ DOMAIN given = 1..Len(given)
      /\ \A i \in DOMAIN given : given[i] \in Options
  BY <1>1, OfInDomain
<1>4. next \in 1..(Len(given) + 1)
  BY <1>1 DEF InLoop
<1>5. /\ next \in Nat \ {0} /\ next \in DOMAIN given /\ next + 1 \in Nat
      /\ next + 1 \in 1..(Len(given) + 1)
  BY <1>1, <1>3, <1>4
<1>6. /\ given[next] \in Options /\ given[next].flag \in Flags
      /\ given[next].flag \in FlagsIn(given)
  BY <1>3, <1>5 DEF Options, FlagsIn
<1> QED
  BY <1>1, <1>2, <1>5, <1>6

\* What a flag's options and stand-ins have become.
LEMMA FlagTurn ==
    ASSUME OptionsInv, AtOption, NEW flag
    PROVE  /\ given[next].flag = flag =>
                 At(given, UpTo(Of(given, flag), next'))
                 = Append(At(given, UpTo(Of(given, flag), next)), given[next])
           /\ given[next].flag # flag =>
                 UpTo(Of(given, flag), next') = UpTo(Of(given, flag), next)
           /\ next \in StandIns(given, flag) => next \in UpTo(StandIns(given, flag), next')
           /\ next \notin StandIns(given, flag) =>
                 UpTo(StandIns(given, flag), next') = UpTo(StandIns(given, flag), next)
           /\ UpTo(StandIns(given, flag), next) # {} => UpTo(StandIns(given, flag), next') # {}
<1> DEFINE p == Of(given, flag)
           q == StandIns(given, flag)
<1>1. next \in Nat \ {0} /\ next' = next + 1 /\ next \in DOMAIN given /\ given \in Seq(Options)
  BY LoopTurn
<1>2. p \in SUBSET (Nat \ {0}) /\ p \in SUBSET Nat /\ q \in SUBSET Nat
  BY <1>1, GivenPositions
<1>3. next \in p <=> given[next].flag = flag
  BY <1>1 DEF Of
<1> HIDE DEF p, q
<1>4. next \in p => At(given, UpTo(p, next')) = Append(At(given, UpTo(p, next)), given[next])
  BY <1>1, <1>2, AtUpToNext
<1>5. next \notin p => UpTo(p, next') = UpTo(p, next)
  BY <1>1, <1>2, UpToNext
<1>6. UpTo(q, next') = IF next \in q THEN UpTo(q, next) \cup {next} ELSE UpTo(q, next)
  BY <1>1, <1>2, UpToNext
<1> QED
  BY <1>3, <1>4, <1>5, <1>6 DEF p, q

\* A turn keeps the invariant if it keeps what is said of each flag.
LEMMA TurnKeeps ==
    ASSUME OptionsInv, AtOption,
           fallbackOptions' \in Seq(Options), includedLocalOptions' \in SUBSET Flags,
           blockCacheEnabled' \in BOOLEAN,
           \A flag \in Flags :
               /\ OfFlag(fallbackOptions', flag) = FallbackSoFar(flag)'
               /\ flag \in includedLocalOptions' <=>
                    \/ flag \in FlagsIn(given') \ Distributed
                    \/ UpTo(StandIns(given', flag), next') # {}
    PROVE  OptionsInv'
<1>1. InLoop'
  BY LoopTurn DEF InLoop
<1>2. OptionsTypeOK'
  BY LoopTurn DEF OptionsInv, OptionsTypeOK
<1>3. StageInv'
  BY <1>1, LoopTurn DEF StageInv
<1> QED
  BY <1>2, <1>3 DEF OptionsInv

\* "--block-cache" becomes "true" and is not repeated.
LEMMA EnableKeeps == ASSUME OptionsInv, EnableBlockCache PROVE OptionsInv'
<1> DEFINE bc == "--block-cache"
           o == Opt(bc, <<"true">>)
<1>1. AtOption /\ given[next].flag = bc /\ given' = given
      /\ blockCacheEnabled' = TRUE /\ includedLocalOptions' = includedLocalOptions
      /\ fallbackOptions' = IF blockCacheEnabled THEN fallbackOptions
                            ELSE Append(fallbackOptions, o)
  BY LoopTurn DEF EnableBlockCache
<1>2. /\ fallbackOptions \in Seq(Options) /\ includedLocalOptions \in SUBSET Flags
      /\ InLoop
  BY <1>1, LoopTurn DEF OptionsInv, OptionsTypeOK
<1>3. o \in Options /\ o.flag = bc
  BY FlagsDiffer, OptType
<1>4. bc \notin Distributed /\ bc \notin Translatable
  BY FlagsDiffer
<1>5. fallbackOptions' \in Seq(Options)
  BY <1>1, <1>2, <1>3, AppendProperties
<1>6. ASSUME NEW flag \in Flags
      PROVE  /\ OfFlag(fallbackOptions', flag) = FallbackSoFar(flag)'
             /\ flag \in includedLocalOptions' <=>
                  \/ flag \in FlagsIn(given') \ Distributed
                  \/ UpTo(StandIns(given', flag), next') # {}
  <2>1. next \notin StandIns(given, flag)
    BY <1>1, <1>4 DEF StandIns
  <2>2. UpTo(StandIns(given, flag), next') = UpTo(StandIns(given, flag), next)
    BY <1>1, <2>1, FlagTurn
  <2>3. flag # bc => UpTo(Of(given, flag), next') = UpTo(Of(given, flag), next)
    BY <1>1, FlagTurn
  <2>4. OfFlag(fallbackOptions, flag) = FallbackSoFar(flag)
    BY <1>2 DEF InLoop
  <2>5. CASE flag # bc
    <3>1. FallbackSoFar(flag)' = FallbackSoFar(flag)
      BY <1>1, <2>2, <2>3, <2>5 DEF FallbackSoFar
    <3>2. OfFlag(Append(fallbackOptions, o), flag) = OfFlag(fallbackOptions, flag)
      BY <1>2, <1>3, <2>5, OfFlagAppend
    <3> QED
      BY <1>1, <1>2, <2>2, <2>4, <3>1, <3>2 DEF InLoop
  <2>6. CASE flag = bc
    <3>1. FallbackSoFar(flag)' = <<o>>
      BY <1>1, <1>4, <2>6 DEF FallbackSoFar
    <3>2. FallbackSoFar(flag) = IF blockCacheEnabled THEN <<o>> ELSE <<>>
      BY <1>4, <2>6 DEF FallbackSoFar
    <3>3. OfFlag(Append(fallbackOptions, o), flag) = Append(OfFlag(fallbackOptions, flag), o)
      BY <1>2, <1>3, <2>6, OfFlagAppend
    <3>4. Append(<<>>, o) = <<o>>
      OBVIOUS
    <3> QED
      BY <1>1, <1>2, <2>2, <2>4, <3>1, <3>2, <3>3, <3>4 DEF InLoop
  <2> QED
    BY <2>5, <2>6
<1> QED
  BY <1>1, <1>2, <1>5, <1>6, TurnKeeps

\* An option that is no part of a cache is kept.
LEMMA KeepOptionKeeps == ASSUME OptionsInv, KeepOption PROVE OptionsInv'
<1> DEFINE o == given[next]
<1>1. AtOption /\ o.flag \notin Distributed /\ o.flag # "--block-cache" /\ given' = given
      /\ UNCHANGED <<blockCacheEnabled, includedLocalOptions>>
      /\ fallbackOptions' = Append(fallbackOptions, o)
  BY LoopTurn DEF KeepOption
<1>2. /\ fallbackOptions \in Seq(Options) /\ includedLocalOptions \in SUBSET Flags
      /\ blockCacheEnabled \in BOOLEAN /\ InLoop
  BY <1>1, LoopTurn DEF OptionsInv, OptionsTypeOK
<1>3. o \in Options /\ o.flag \in FlagsIn(given)
  BY <1>1, LoopTurn
<1>4. o.flag \notin Translatable
  BY <1>1, FlagsDiffer
<1>5. fallbackOptions' \in Seq(Options)
  BY <1>1, <1>2, <1>3, AppendProperties
<1>6. ASSUME NEW flag \in Flags
      PROVE  /\ OfFlag(fallbackOptions', flag) = FallbackSoFar(flag)'
             /\ flag \in includedLocalOptions' <=>
                  \/ flag \in FlagsIn(given') \ Distributed
                  \/ UpTo(StandIns(given', flag), next') # {}
  <2>1. next \notin StandIns(given, flag)
    BY <1>4 DEF StandIns
  <2>2. UpTo(StandIns(given, flag), next') = UpTo(StandIns(given, flag), next)
    BY <1>1, <2>1, FlagTurn
  <2>3. OfFlag(fallbackOptions, flag) = FallbackSoFar(flag)
    BY <1>2 DEF InLoop
  <2>4. flag \in includedLocalOptions' <=>
            flag \in FlagsIn(given') \ Distributed \/ UpTo(StandIns(given', flag), next') # {}
    BY <1>1, <1>2, <2>2 DEF InLoop
  <2>5. CASE flag # o.flag
    <3>1. UpTo(Of(given, flag), next') = UpTo(Of(given, flag), next)
      BY <1>1, <2>5, FlagTurn
    <3>2. FallbackSoFar(flag)' = FallbackSoFar(flag)
      BY <1>1, <2>2, <3>1 DEF FallbackSoFar
    <3>3. OfFlag(fallbackOptions', flag) = OfFlag(fallbackOptions, flag)
      BY <1>1, <1>2, <1>3, <2>5, OfFlagAppend
    <3> QED
      BY <2>3, <2>4, <3>2, <3>3
  <2>6. CASE flag = o.flag
    <3>1. FallbackSoFar(flag)' = At(given, UpTo(Of(given, flag), next'))
      BY <1>1, <1>3, <2>6 DEF FallbackSoFar
    <3>2. FallbackSoFar(flag) = At(given, UpTo(Of(given, flag), next))
      BY <1>1, <1>3, <2>6 DEF FallbackSoFar
    <3>3. FallbackSoFar(flag)' = Append(FallbackSoFar(flag), o)
      BY <1>1, <2>6, <3>1, <3>2, FlagTurn
    <3>4. OfFlag(fallbackOptions', flag) = Append(OfFlag(fallbackOptions, flag), o)
      BY <1>1, <1>2, <1>3, <2>6, OfFlagAppend
    <3> QED
      BY <2>3, <2>4, <3>3, <3>4
  <2> QED
    BY <2>5, <2>6
<1> QED
  BY <1>1, <1>2, <1>5, <1>6, TurnKeeps

\* A distributed option gives its value to the local one, if it is the first that can.
LEMMA TranslateKeeps == ASSUME OptionsInv, TranslateOption PROVE OptionsInv'
<1> DEFINE o == given[next]
           local == distributedToBlockCacheOptions[o.flag]
           new == Opt(local, o.value)
<1>1. AtOption /\ o.flag \in Distributed /\ given' = given /\ opts = given
      /\ UNCHANGED blockCacheEnabled
  BY LoopTurn DEF TranslateOption
<1>2. /\ fallbackOptions \in Seq(Options) /\ includedLocalOptions \in SUBSET Flags
      /\ blockCacheEnabled \in BOOLEAN /\ InLoop
  BY <1>1, LoopTurn DEF OptionsInv, OptionsTypeOK
<1>3. o \in Options /\ next \in DOMAIN given /\ next \in Nat /\ given \in Seq(Options)
  BY <1>1, LoopTurn
<1>4. ASSUME NEW flag \in Flags
      PROVE  /\ OfFlag(fallbackOptions, flag) = FallbackSoFar(flag)
             /\ flag \in includedLocalOptions <=>
                    \/ flag \in FlagsIn(given) \ Distributed
                    \/ UpTo(StandIns(given, flag), next) # {}
             /\ flag \notin Distributed =>
                    UpTo(Of(given, flag), next') = UpTo(Of(given, flag), next)
             /\ next \in StandIns(given, flag) <=>
                    o.flag \in Translatable /\ o.value \notin {<<>>, <<"">>} /\ local = flag
    <2>1. flag \notin Distributed => UpTo(Of(given, flag), next') = UpTo(Of(given, flag), next)
      BY <1>1, FlagTurn
    <2> QED
      BY <1>2, <1>3, <2>1 DEF InLoop, StandIns
<1>5. CASE CanTranslate(o)
  <2>1. /\ fallbackOptions' = Append(fallbackOptions, new)
        /\ includedLocalOptions' = includedLocalOptions \cup {local}
    BY <1>1, <1>5 DEF TranslateOption
  <2>2. o.flag \in Translatable /\ o.value \notin {<<>>, <<"">>} /\ local \notin includedLocalOptions
    BY <1>5 DEF CanTranslate
  <2>3. local \in LocalFlags /\ local \in Flags /\ local \notin Distributed
        /\ local # "--block-cache"
    BY <2>2, FlagsDiffer
  <2>4. new \in Options /\ new.flag = local
    BY <1>3, <2>3, OptType DEF Options
  <2> HIDE DEF local
  <2>5. local \notin FlagsIn(given) /\ UpTo(StandIns(given, local), next) = {}
    BY <1>4, <2>2, <2>3
  <2>6. next \in StandIns(given, local)
    BY <1>4, <2>2, <2>3
  <2>7. Min(StandIns(given, local)) = next
    <3> DEFINE q == StandIns(given, local)
    <3>1. q \in SUBSET (1..Len(given)) /\ Len(given) \in Nat /\ q \in SUBSET Nat
      BY <1>3, GivenPositions
    <3>2. next \in q /\ UpTo(q, next) = {}
      BY <2>5, <2>6
    <3> HIDE DEF q
    <3>3. \A j \in q : ~(j < next)
      BY <3>2 DEF UpTo
    <3>4. \A j \in q : next <= j
      BY <1>3, <3>1, <3>3
    <3>5. Min(q) = next
      BY <3>1, <3>2, <3>4, OnlyMin
    <3> QED
      BY <3>5 DEF q
  <2> HIDE DEF new
  <2>8. fallbackOptions' \in Seq(Options)
    BY <1>2, <2>1, <2>4, AppendProperties
  <2>9. ASSUME NEW flag \in Flags
        PROVE  /\ OfFlag(fallbackOptions', flag) = FallbackSoFar(flag)'
               /\ flag \in includedLocalOptions' <=>
                    \/ flag \in FlagsIn(given') \ Distributed
                    \/ UpTo(StandIns(given', flag), next') # {}
    <3>1. CASE flag = local
      <4>1. FallbackSoFar(flag) = <<>>
        BY <2>3, <2>5, <3>1 DEF FallbackSoFar
      <4>2. UpTo(StandIns(given, flag), next') # {}
        BY <1>1, <2>6, <3>1, FlagTurn
      <4>3. FallbackSoFar(flag)' = <<new>>
        BY <1>1, <2>3, <2>5, <2>7, <3>1, <4>2 DEF FallbackSoFar, new
      <4>4. OfFlag(fallbackOptions', flag) = Append(OfFlag(fallbackOptions, flag), new)
        BY <1>2, <2>1, <2>4, <3>1, OfFlagAppend
      <4>5. Append(<<>>, new) = <<new>>
        OBVIOUS
      <4> QED
        BY <1>1, <1>4, <2>1, <3>1, <4>1, <4>2, <4>3, <4>4, <4>5
    <3>2. CASE flag # local
      <4>1. next \notin StandIns(given, flag)
        BY <1>4, <3>2
      <4>2. UpTo(StandIns(given, flag), next') = UpTo(StandIns(given, flag), next)
        BY <1>1, <4>1, FlagTurn
      <4>3. FallbackSoFar(flag)' = FallbackSoFar(flag)
        BY <1>1, <1>4, <4>2 DEF FallbackSoFar
      <4>4. OfFlag(fallbackOptions', flag) = OfFlag(fallbackOptions, flag)
        BY <1>2, <2>1, <2>4, <3>2, OfFlagAppend
      <4> QED
        BY <1>1, <1>4, <2>1, <3>2, <4>2, <4>3, <4>4
    <3> QED
      BY <3>1, <3>2
  <2>10. includedLocalOptions' \in SUBSET Flags /\ blockCacheEnabled' \in BOOLEAN
    BY <1>1, <1>2, <2>1, <2>3
  <2> QED
    BY <1>1, <2>8, <2>9, <2>10, TurnKeeps
<1>6. CASE ~CanTranslate(o)
  <2>1. UNCHANGED <<fallbackOptions, includedLocalOptions>>
    BY <1>1, <1>6 DEF TranslateOption
  <2>2. ASSUME NEW flag \in Flags
        PROVE  /\ OfFlag(fallbackOptions', flag) = FallbackSoFar(flag)'
               /\ flag \in includedLocalOptions' <=>
                    \/ flag \in FlagsIn(given') \ Distributed
                    \/ UpTo(StandIns(given', flag), next') # {}
    <3>1. CASE next \in StandIns(given, flag)
      <4>1. o.flag \in Translatable /\ o.value \notin {<<>>, <<"">>} /\ local = flag
        BY <1>4, <3>1
      <4>2. flag \in includedLocalOptions
        BY <1>6, <4>1 DEF CanTranslate
      <4>3. flag \notin Distributed /\ flag # "--block-cache"
        BY <4>1, FlagsDiffer
      <4>4. flag \in FlagsIn(given) \/ UpTo(StandIns(given, flag), next) # {}
        BY <1>4, <4>2
      <4>5. UpTo(StandIns(given, flag), next') # {}
        BY <1>1, <3>1, FlagTurn
      <4>6. UpTo(Of(given, flag), next') = UpTo(Of(given, flag), next)
        BY <1>4, <4>3
      <4>7. FallbackSoFar(flag)' = FallbackSoFar(flag)
        BY <1>1, <4>3, <4>4, <4>5, <4>6 DEF FallbackSoFar
      <4> QED
        BY <1>1, <1>4, <2>1, <4>2, <4>5, <4>7
    <3>2. CASE next \notin StandIns(given, flag)
      <4>1. UpTo(StandIns(given, flag), next') = UpTo(StandIns(given, flag), next)
        BY <1>1, <3>2, FlagTurn
      <4>2. FallbackSoFar(flag)' = FallbackSoFar(flag)
        BY <1>1, <1>4, <4>1 DEF FallbackSoFar
      <4> QED
        BY <1>1, <1>4, <2>1, <4>1, <4>2
    <3> QED
      BY <3>1, <3>2
  <2> QED
    BY <1>1, <1>2, <2>1, <2>2, TurnKeeps
<1> QED
  BY <1>5, <1>6

\* The loop has handled every option.
LEMMA EndFallbackKeeps == ASSUME OptionsInv, EndFallback PROVE OptionsInv'
<1> DEFINE bc == "--block-cache"
           o == Opt(bc, <<"true">>)
<1>1. /\ InLoop /\ given \in Seq(Options) /\ fallbackOptions \in Seq(Options)
      /\ opts = given /\ given' = given /\ setting' = setting /\ next > Len(given)
      /\ opts' = IF blockCacheEnabled THEN fallbackOptions ELSE Append(fallbackOptions, o)
  BY DEF EndFallback, OptionsInv, OptionsTypeOK, StageInv, request
<1>2. o \in Options /\ o.flag = bc
  BY FlagsDiffer, OptType
<1>3. FellBack /\ FellBack'
  BY <1>1 DEF InLoop, FellBack, CanDistribute, RunsBlobfuse2
<1>4. opts' \in Seq(Options)
  BY <1>1, <1>2, AppendProperties
<1>5. next = Len(given) + 1 /\ Len(given) \in Nat
  BY <1>1, LenProperties DEF InLoop
<1>6. ASSUME NEW flag \in Flags PROVE OfFlag(opts', flag) = Cached(flag)'
  <2>1. Cached(flag)' = Cached(flag)
    BY <1>1, <1>3 DEF Cached
  <2>2. OfFlag(fallbackOptions, flag) = FallbackSoFar(flag)
    BY <1>1 DEF InLoop
  <2>3. UpTo(Of(given, flag), next) = Of(given, flag)
        /\ UpTo(StandIns(given, flag), next) = StandIns(given, flag)
    <3> DEFINE p == Of(given, flag)
               q == StandIns(given, flag)
    <3>1. p \in SUBSET (1..Len(given)) /\ q \in SUBSET (1..Len(given))
      BY <1>1, GivenPositions
    <3> HIDE DEF p, q
    <3>2. \A i \in 1..Len(given) : i < next
      BY <1>5
    <3>3. UpTo(p, next) = p /\ UpTo(q, next) = q
      BY <3>1, <3>2 DEF UpTo
    <3> QED
      BY <3>3 DEF p, q
  <2>4. OfFlag(given, flag) = <<>> <=> flag \notin FlagsIn(given)
    BY <1>1, OfFlagNone
  <2>5. bc \notin Distributed
    BY FlagsDiffer
  <2>6. CASE flag = bc
    <3>1. Cached(flag) = <<o>>
      BY <1>3, <2>5, <2>6 DEF Cached
    <3>2. OfFlag(fallbackOptions, flag) = IF blockCacheEnabled THEN <<o>> ELSE <<>>
      BY <2>2, <2>5, <2>6 DEF FallbackSoFar
    <3>3. OfFlag(Append(fallbackOptions, o), flag) = Append(OfFlag(fallbackOptions, flag), o)
      BY <1>1, <1>2, <2>6, OfFlagAppend
    <3>4. Append(<<>>, o) = <<o>>
      OBVIOUS
    <3> QED
      BY <1>1, <2>1, <3>1, <3>2, <3>3, <3>4
  <2>7. CASE flag # bc
    <3>1. OfFlag(Append(fallbackOptions, o), flag) = OfFlag(fallbackOptions, flag)
      BY <1>1, <1>2, <2>7, OfFlagAppend
    <3>2. FallbackSoFar(flag) = Cached(flag)
      BY <1>3, <2>3, <2>4, <2>7 DEF FallbackSoFar, Cached, OfFlag
    <3> QED
      BY <1>1, <2>1, <2>2, <3>1, <3>2
  <2> QED
    BY <2>6, <2>7
<1>7. OptionsTypeOK'
  BY <1>4 DEF EndFallback, OptionsInv, OptionsTypeOK, request, loop
<1> QED
  BY <1>6, <1>7 DEF EndFallback, OptionsInv, StageInv
-----------------------------------------------------------------------------
(* The defaults. *)

\* A volume that fell back has no distributed cache.
LEMMA ClusteredStays == Clustered => ~FellBack
  BY DEF Clustered, FellBack

\* A flag that begins like a default, in the list and among those of each flag.
LEMMA IncludedByFlag ==
    ASSUME NEW s \in Seq(Options), NEW k
    PROVE  (\E i \in DOMAIN s : ~s[i].padded /\ HasPrefix(s[i].flag, k)) <=>
           \E f \in Flags : /\ HasPrefix(f, k)
                            /\ \E n \in DOMAIN OfFlag(s, f) : ~OfFlag(s, f)[n].padded
<1> DEFINE K == {o \in Options : ~o.padded /\ HasPrefix(o.flag, k)}
<1>1. \A i \in DOMAIN s : s[i] \in K <=> ~s[i].padded /\ HasPrefix(s[i].flag, k)
  BY OfInDomain
<1>2. ASSUME NEW f \in Flags, NEW n \in DOMAIN OfFlag(s, f)
      PROVE  OfFlag(s, f)[n] \in K <=> HasPrefix(f, k) /\ ~OfFlag(s, f)[n].padded
  <2>1. OfFlag(s, f)[n].flag = f /\ OfFlag(s, f)[n] \in Options
    BY OfFlagList, ElementOfSeq
  <2> QED
    BY <2>1
<1> HIDE DEF K
<1>3. (\E i \in DOMAIN s : s[i] \in K) <=>
      \E f \in Flags : \E n \in DOMAIN OfFlag(s, f) : OfFlag(s, f)[n] \in K
  BY SomeOption
<1> QED
  BY <1>1, <1>2, <1>3

\* So for a text that an option has in it.
LEMMA InArgsByFlag ==
    ASSUME NEW s \in Seq(Options), NEW p
    PROVE  InArgs(s, p) <=>
           \E f \in Flags : \E n \in DOMAIN OfFlag(s, f) : Mentions(OfFlag(s, f)[n], p)
<1> DEFINE K == {o \in Options : Mentions(o, p)}
<1>1. \A i \in DOMAIN s : s[i] \in K <=> Mentions(s[i], p)
  BY OfInDomain
<1>2. ASSUME NEW f \in Flags, NEW n \in DOMAIN OfFlag(s, f)
      PROVE  OfFlag(s, f)[n] \in K <=> Mentions(OfFlag(s, f)[n], p)
  BY OfFlagList, ElementOfSeq
<1> HIDE DEF K
<1>3. (\E i \in DOMAIN s : s[i] \in K) <=>
      \E f \in Flags : \E n \in DOMAIN OfFlag(s, f) : OfFlag(s, f)[n] \in K
  BY SomeOption
<1> QED
  BY <1>1, <1>2, <1>3 DEF InArgs

\* What is promised only depends on the request.
LEMMA PromiseStays ==
    ASSUME UNCHANGED <<given, setting>>
    PROVE  /\ FellBack' = FellBack /\ Clustered' = Clustered
           /\ \A flag : Cached(flag)' = Cached(flag)
           /\ \A flag : Driven(flag)' = Driven(flag)
           /\ \A flag : Promised(flag)' = Promised(flag)
<1>1. FellBack' = FellBack /\ Clustered' = Clustered /\ RunsBlobfuse2' = RunsBlobfuse2
  BY DEF FellBack, Clustered, CanDistribute, RunsBlobfuse2
<1>2. \A flag : Cached(flag)' = Cached(flag)
  BY <1>1 DEF Cached
<1>3. \A flag : DriverDefault(flag)' = DriverDefault(flag)
  BY <1>1, <1>2 DEF DriverDefault
<1>4. \A flag : Driven(flag)' = Driven(flag)
  BY <1>2, <1>3 DEF Driven
<1>5. \A text : Mentioned(text)' = Mentioned(text)
  BY <1>4 DEF Mentioned
<1>6. \A flag : Promised(flag)' = Promised(flag)
  BY <1>1, <1>4, <1>5 DEF Promised
<1> QED
  BY <1>1, <1>2, <1>4, <1>6

\* The flags of defaults are finitely many options.
LEMMA DefaultFlagsFinite ==
    ASSUME NEW S, S \subseteq DefaultFlags \cup {DNSServer} \/ S \subseteq ProxyFlags
    PROVE  IsFiniteSet(S) /\ S \in SUBSET Flags
<1>1. IsFiniteSet(ProxyFlags) /\ IsFiniteSet(DefaultFlags \cup {DNSServer})
  <2> DEFINE three == {} \cup {"--pre-mount-validate"} \cup {"--use-https"} \cup {"--tmp-path"}
             five == three \cup {"--container-name"} \cup {"--cancel-list-on-mount-seconds"}
  <2>a. IsFiniteSet({} \cup {"--ignore-open-flags"} \cup {"--disable-version-check"})
    BY FS_EmptySet, FS_AddElement
  <2>b. IsFiniteSet(three)
    BY FS_EmptySet, FS_AddElement
  <2>c. IsFiniteSet(five)
    <3> HIDE DEF three
    <3> QED
      BY <2>b, FS_AddElement
  <2>1. IsFiniteSet(five \cup {"--empty-dir-check"} \cup {DNSServer})
    <3> HIDE DEF five
    <3> QED
      BY <2>c, FS_AddElement
  <2>2. ProxyFlags = {} \cup {"--ignore-open-flags"} \cup {"--disable-version-check"}
    BY DEF ProxyFlags
  <2>3. DefaultFlags \cup {DNSServer} = five \cup {"--empty-dir-check"} \cup {DNSServer}
    BY DEF DefaultFlags
  <2> HIDE DEF five
  <2> QED
    BY <2>a, <2>1, <2>2, <2>3
<1>2. ProxyFlags \subseteq Flags /\ DefaultFlags \cup {DNSServer} \subseteq Flags
  BY DEF Flags
<1> QED
  BY <1>1, <1>2, FS_Subset

\* appendDefaultMountOptions.
LEMMA AddDefaultsKeeps == ASSUME OptionsInv, AddDefaults PROVE OptionsInv'
<1> DEFINE included == {k \in DefaultFlags :
                          \E i \in DOMAIN opts : ~opts[i].padded /\ HasPrefix(opts[i].flag, k)}
           clustered == Discovery \in FlagsIn(opts)
           wanted == IF clustered
                     THEN (DefaultFlags \ {"--tmp-path", "--empty-dir-check"})
                          \cup ({DNSServer} \ FlagsIn(opts))
                     ELSE DefaultFlags
           F == wanted \ included
<1>1. /\ opts \in Seq(Options) /\ given \in Seq(Options)
      /\ UNCHANGED <<given, setting>>
      /\ \A flag \in Flags : OfFlag(opts, flag) = Cached(flag)
      /\ opts' = opts \o SetToSeq({Driver(f) : f \in F})
  BY DEF AddDefaults, OptionsInv, OptionsTypeOK, StageInv, appendDefaultMountOptions, request
<1>2. clustered <=> Clustered
  <2>1. Discovery \in Flags /\ Discovery \in Distributed /\ Discovery # "--block-cache"
    BY TextAssumption, FlagsDiffer DEF Flags
  <2>2. clustered <=> Cached(Discovery) # <<>>
    BY <1>1, <2>1, OfFlagNone
  <2>3. ~FellBack => Cached(Discovery) = OfFlag(given, Discovery)
    BY DEF Cached
  <2>4. FellBack => Cached(Discovery) = <<>>
    BY <2>1 DEF Cached
  <2>5. OfFlag(given, Discovery) # <<>> <=> Discovery \in FlagsIn(given)
    BY <1>1, OfFlagNone
  <2>6. Discovery \in FlagsIn(given) => (FellBack <=> ~CanDistribute)
    BY <2>1 DEF FellBack
  <2> QED
    BY <2>2, <2>3, <2>4, <2>5, <2>6, ClusteredStays DEF Clustered
<1>3. ASSUME NEW k PROVE k \in included <=> k \in DefaultFlags
          /\ \E f \in Flags : /\ HasPrefix(f, k)
                              /\ \E n \in DOMAIN Cached(f) : ~Cached(f)[n].padded
  BY <1>1, IncludedByFlag
<1>4. DNSServer \notin DefaultFlags
      /\ (DNSServer \notin FlagsIn(opts) <=> Cached(DNSServer) = <<>>)
  BY <1>1, OfFlagNone, TextAssumption DEF Flags
<1> HIDE DEF included, clustered
<1>5. \A f : f \in F <=> DriverDefault(f)
  BY <1>2, <1>3, <1>4 DEF DriverDefault, included
<1>6. IsFiniteSet(F) /\ F \in SUBSET Flags
  <2>1. F \subseteq DefaultFlags \cup {DNSServer}
    OBVIOUS
  <2> QED
    BY <2>1, DefaultFlagsFinite
<1> HIDE DEF F
<1>7. ASSUME NEW flag \in Flags PROVE OfFlag(opts', flag) = Driven(flag)
  <2> DEFINE all == opts \o SetToSeq({Driver(f) : f \in F})
  <2>1. OfFlag(all, flag) = IF flag \in F THEN Append(OfFlag(opts, flag), Driver(flag))
                            ELSE OfFlag(opts, flag)
    <3>1. opts \in Seq(Options)
      BY <1>1
    <3> QED
      BY <1>6, <3>1, OfFlagDefaults
  <2>2. OfFlag(opts', flag) = OfFlag(all, flag)
    BY <1>1
  <2> HIDE DEF all
  <2> QED
    BY <1>1, <1>5, <2>1, <2>2 DEF Driven
<1>8. opts' \in Seq(Options)
  BY <1>1, <1>6, OfFlagDefaults
<1>9. OptionsTypeOK'
  BY <1>1, <1>8 DEF AddDefaults, OptionsInv, OptionsTypeOK, request, loop
<1>10. \A flag \in Flags : OfFlag(opts', flag) = Driven(flag)'
  BY <1>1, <1>7, PromiseStays
<1>11. CASE setting.proxy
  BY <1>1, <1>9, <1>10, <1>11 DEF AddDefaults, OptionsInv, StageInv
<1>12. CASE ~setting.proxy
  <2>1. \A flag : Promised(flag)' = Driven(flag)'
    BY <1>1, <1>12 DEF Promised
  <2> QED
    BY <1>1, <1>9, <1>10, <1>12, <2>1 DEF AddDefaults, OptionsInv, StageInv
<1> QED
  BY <1>11, <1>12

\* blobfuse-proxy.
LEMMA MountAzureBlobKeeps == ASSUME OptionsInv, MountAzureBlob PROVE OptionsInv'
<1> DEFINE F == {f \in ProxyFlags : ~InArgs(opts, f)}
           mid == opts \o SetToSeq({Driver(f) : f \in F})
           tel == "--telemetry"
<1>1. /\ opts \in Seq(Options) /\ given \in Seq(Options)
      /\ UNCHANGED <<given, setting>> /\ setting.proxy
      /\ \A flag \in Flags : OfFlag(opts, flag) = Driven(flag)
      /\ opts' = IF UsesBlobfuse2 THEN addTelemetryTagToArgs(mid) ELSE opts
  BY DEF MountAzureBlob, OptionsInv, OptionsTypeOK, StageInv, request
<1>2. \A flag : Promised(flag)' = Promised(flag)
  BY <1>1, PromiseStays
<1>3. UsesBlobfuse2 <=> RunsBlobfuse2
  BY DEF UsesBlobfuse2, RunsBlobfuse2
<1>4. ASSUME NEW text PROVE InArgs(opts, text) <=> Mentioned(text)
  BY <1>1, InArgsByFlag DEF Mentioned
<1>5. IsFiniteSet(F) /\ F \in SUBSET Flags
  BY DefaultFlagsFinite
<1>6. \A flag : flag \in F <=> flag \in ProxyFlags /\ ~Mentioned(flag)
  BY <1>4
<1>7. \A f \in F : f \in ProxyFlags
  OBVIOUS
<1> HIDE DEF F
<1>8. /\ mid \in Seq(Options)
      /\ \A i \in DOMAIN mid : \/ i \in DOMAIN opts /\ mid[i] = opts[i]
                               \/ \E f \in F : mid[i] = Driver(f)
      /\ \A i \in DOMAIN opts : i \in DOMAIN mid /\ mid[i] = opts[i]
  BY <1>1, <1>5, OfFlagDefaults
<1>9. ASSUME NEW flag \in Flags
      PROVE  OfFlag(mid, flag) = IF flag \in F THEN Append(Driven(flag), Driver(flag))
                                 ELSE Driven(flag)
  BY <1>1, <1>5, OfFlagDefaults
<1> HIDE DEF mid
<1>10. ASSUME NEW text \in {tel, telemetryTagPrefix} PROVE InArgs(mid, text) <=> Mentioned(text)
  <2>1. ASSUME NEW f \in F PROVE ~Mentions(Driver(f), text)
    <3>1. Driver(f).flag = f /\ Driver(f).value = <<"driver">>
      BY DEF Driver, Opt
    <3>2. ~HasText(f, text) /\ ~HasText("driver", text)
      BY <1>7, TextAssumption
    <3>3. \A i \in DOMAIN Driver(f).value : Driver(f).value[i] = "driver"
      BY <3>1
    <3> QED
      BY <3>1, <3>2, <3>3 DEF Mentions
  <2>2. InArgs(mid, text) <=> InArgs(opts, text)
    BY <1>8, <2>1 DEF InArgs
  <2> QED
    BY <1>4, <2>2
<1>11. CASE ~UsesBlobfuse2
  <2>1. \A flag : Promised(flag) = Driven(flag)
    BY <1>3, <1>11 DEF Promised
  <2>2. opts' \in Seq(Options)
    BY <1>1, <1>11
  <2>3. \A flag \in Flags : OfFlag(opts', flag) = Promised(flag)'
    BY <1>1, <1>2, <1>11, <2>1
  <2> QED
    BY <2>2, <2>3 DEF MountAzureBlob, OptionsInv, OptionsTypeOK, StageInv, request, loop
<1>12. CASE UsesBlobfuse2
  <2>1. opts' = addTelemetryTagToArgs(mid)
    BY <1>1, <1>12
  <2>2. opts' \in Seq(Options)
    BY <1>8, <2>1, OfFlagTelemetry
  <2>3. ASSUME NEW flag \in Flags PROVE OfFlag(opts', flag) = Promised(flag)'
    <3>1. CASE flag # tel
      <4>1. OfFlag(opts', flag) = OfFlag(mid, flag)
        BY <1>8, <2>1, <3>1, OfFlagTelemetry
      <4>2. Promised(flag) = IF flag \in F THEN Append(Driven(flag), Driver(flag))
                             ELSE Driven(flag)
        BY <1>1, <1>3, <1>6, <1>12, <3>1 DEF Promised
      <4> QED
        BY <1>2, <1>9, <4>1, <4>2
    <3>2. CASE flag = tel
      <4>1. flag \notin F
        BY <1>7, <3>2 DEF ProxyFlags
      <4>2. OfFlag(mid, flag) = Driven(flag)
        BY <1>9, <4>1
      <4>3. /\ InArgs(mid, flag) <=> Mentioned(flag)
            /\ InArgs(mid, telemetryTagPrefix) <=> Mentioned(telemetryTagPrefix)
        BY <1>10, <3>2
      <4>4. OfFlag(opts', flag) =
              IF ~InArgs(mid, flag) THEN Append(OfFlag(mid, flag), Driver(flag))
              ELSE IF InArgs(mid, telemetryTagPrefix) THEN OfFlag(mid, flag)
              ELSE FirstTagged(OfFlag(mid, flag))
        BY <1>8, <2>1, <3>2, OfFlagTelemetry
      <4>5. Promised(flag) =
              IF ~Mentioned(flag) THEN Append(Driven(flag), Driver(flag))
              ELSE IF Mentioned(telemetryTagPrefix) THEN Driven(flag)
              ELSE FirstTagged(Driven(flag))
        BY <1>1, <1>3, <1>12, <3>2 DEF Promised
      <4> QED
        BY <1>2, <4>2, <4>3, <4>4, <4>5
    <3> QED
      BY <3>1, <3>2
  <2> QED
    BY <2>2, <2>3 DEF MountAzureBlob, OptionsInv, OptionsTypeOK, StageInv, request, loop
<1> QED
  BY <1>11, <1>12
-----------------------------------------------------------------------------
\* Every step of the command line's making keeps the invariant.
LEMMA OptionsInvNext == OptionsInv /\ [Next]_vars => OptionsInv'
<1> SUFFICES ASSUME OptionsInv, [Next]_vars PROVE OptionsInv'
  OBVIOUS
<1>1. CASE Next
  BY <1>1, CollectKeeps, KeepCacheKeeps, FallBackKeeps, EnableKeeps, KeepOptionKeeps,
     TranslateKeeps, EndFallbackKeeps, AddDefaultsKeeps, MountAzureBlobKeeps DEF Next
<1>2. CASE UNCHANGED vars
  <2>1. UNCHANGED <<setting, flags, given, opts, stage>> /\ UNCHANGED loop
    BY <1>2 DEF vars, request
  <2>2. OptionsTypeOK'
    BY <2>1 DEF OptionsInv, OptionsTypeOK, loop
  <2>3. /\ FellBack' = FellBack
        /\ \A flag : Cached(flag)' = Cached(flag)
        /\ \A flag : Driven(flag)' = Driven(flag)
        /\ \A flag : Promised(flag)' = Promised(flag)
    BY <2>1, PromiseStays
  <2>4. InLoop' = InLoop
    BY <2>1, <2>3 DEF InLoop, FallbackSoFar, loop
  <2> QED
    BY <2>1, <2>2, <2>3, <2>4 DEF OptionsInv, StageInv
<1> QED
  BY <1>1, <1>2

\* Whatever the options of the volume and the binary on the node, the arguments have
\* of every flag what is promised; NodeStageVolume, fallbackToLocalBlockCache,
\* appendDefaultMountOptions and MountAzureBlob of the proxy together.
THEOREM OptionsCorrect == Spec => []OptionsInv
<1> QED
  BY OptionsInvInit, OptionsInvNext, PTL DEF Spec

\* Each flag reaches blobfuse as its user gave it, as the local flag that stands for
\* it, or with the driver's default: for any options, whatever their flags begin with
\* and have in them, and lists of any length.
THEOREM ArgsPromiseKept == Spec => []ArgsAsPromised
<1>1. OptionsInv => ArgsAsPromised
  <2> SUFFICES ASSUME OptionsInv, stage = "done", NEW flag \in Flags \cup FlagsIn(opts)
               PROVE  OfFlag(opts, flag) = Promised(flag)
    BY DEF ArgsAsPromised
  <2>1. opts \in Seq(Options)
    BY DEF OptionsInv, OptionsTypeOK
  <2>2. FlagsIn(opts) \subseteq Flags
    BY <2>1, OfInDomain DEF FlagsIn, Options
  <2> QED
    BY <2>2 DEF OptionsInv, StageInv
<1> QED
  BY <1>1, OptionsCorrect, PTL

\* A flag that begins like a distributed cache's is kept or dropped as a whole.
LEMMA DistributedPromise ==
    ASSUME NEW flag \in Distributed
    PROVE  /\ flag \in Flags /\ flag # "--block-cache"
           /\ FellBack => Promised(flag) = <<>>
           /\ ~FellBack /\ OfFlag(given, flag) # <<>> => Promised(flag) # <<>>
           /\ ~FellBack /\ OfFlag(given, flag) = <<>> /\ ~Clustered => Promised(flag) = <<>>
<1>1. /\ flag \in Flags /\ flag # "--block-cache" /\ flag # "--telemetry"
      /\ flag \notin DefaultFlags /\ flag \notin ProxyFlags
  BY TextAssumption DEF Distributed
<1>2. Promised(flag) = Driven(flag)
  BY <1>1 DEF Promised
<1>3. DriverDefault(flag) => Clustered /\ Cached(flag) = <<>>
  BY <1>1 DEF DriverDefault
<1>4. FellBack => Cached(flag) = <<>> /\ ~DriverDefault(flag)
  BY <1>3, ClusteredStays DEF Cached
<1>5. ~FellBack => Cached(flag) = OfFlag(given, flag)
  BY DEF Cached
<1> QED
  BY <1>1, <1>2, <1>3, <1>4, <1>5 DEF Driven

\* The binary is given a distributed cache option only if it has said it has them, and
\* a volume that asked for a distributed cache is never left without one.
THEOREM DistributedCacheSafe == Spec => []DistributedOnlyWhereSupported
<1>1. OptionsInv => DistributedOnlyWhereSupported
  <2> SUFFICES ASSUME OptionsInv, stage = "done"
               PROVE  /\ FlagsIn(opts) \cap Distributed # {} => CanDistribute
                      /\ FlagsIn(given) \cap Distributed # {} =>
                            \/ FlagsIn(given) \cap Distributed \subseteq FlagsIn(opts)
                            \/ Opt("--block-cache", <<"true">>) \in ToSet(opts)
    BY DEF DistributedOnlyWhereSupported
  <2>1. /\ given \in Seq(Options) /\ opts \in Seq(Options)
        /\ \A flag \in Flags : OfFlag(opts, flag) = Promised(flag)
    BY DEF OptionsInv, OptionsTypeOK, StageInv
  <2>2. ASSUME NEW flag \in Distributed
        PROVE  /\ flag \in FlagsIn(opts) <=> Promised(flag) # <<>>
               /\ flag \in FlagsIn(given) <=> OfFlag(given, flag) # <<>>
    BY <2>1, DistributedPromise, OfFlagNone
  <2>3. CASE FellBack
    <3>1. FlagsIn(opts) \cap Distributed = {}
      BY <2>2, <2>3, DistributedPromise
    <3>2. OfFlag(opts, "--block-cache") = <<Opt("--block-cache", <<"true">>)>>
      <4> DEFINE bc == "--block-cache"
      <4>1. bc \in Flags /\ bc \notin Distributed
        BY FlagsDiffer
      <4>2. Cached(bc) = <<Opt(bc, <<"true">>)>>
        BY <2>3, <4>1 DEF Cached
      <4>3. ~DriverDefault(bc) /\ bc \notin ProxyFlags \cup {"--telemetry"}
        BY DEF DriverDefault, DefaultFlags, DNSServer, ProxyFlags
      <4>4. Promised(bc) = Cached(bc)
        BY <4>3 DEF Promised, Driven
      <4> QED
        BY <2>1, <4>1, <4>2, <4>4
    <3>3. Opt("--block-cache", <<"true">>) \in ToSet(opts)
      <4> DEFINE u == OfFlag(opts, "--block-cache")
                 p == Of(opts, "--block-cache")
      <4>1. 1 \in DOMAIN u /\ u[1] = Opt("--block-cache", <<"true">>)
        BY <3>2
      <4>2. u[1] = opts[Nth(p, 1)] /\ Nth(p, 1) \in p
        BY <2>1, <4>1, OfFlagList
      <4>3. p \subseteq DOMAIN opts
        BY DEF Of
      <4> HIDE DEF u, p
      <4> QED
        BY <4>1, <4>2, <4>3 DEF ToSet
    <3> QED
      BY <3>1, <3>3
  <2>4. CASE ~FellBack
    <3>1. CASE FlagsIn(given) \cap Distributed = {}
      <4>1. ~Clustered
        BY <3>1, TextAssumption DEF Clustered
      <4> QED
        BY <2>2, <2>4, <3>1, <4>1, DistributedPromise
    <3>2. CASE FlagsIn(given) \cap Distributed # {}
      <4>1. CanDistribute
        BY <2>4, <3>2 DEF FellBack
      <4>2. FlagsIn(given) \cap Distributed \subseteq FlagsIn(opts)
        BY <2>2, <2>4, DistributedPromise
      <4> QED
        BY <4>1, <4>2
    <3> QED
      BY <3>1, <3>2
  <2> QED
    BY <2>3, <2>4
<1> QED
  BY <1>1, OptionsCorrect, PTL
=============================================================================
