---------------------------- MODULE CommonLemmas -----------------------------
(***************************************************************************)
(* Facts about positions, sums and sequences that the proofs of several    *)
(* components rest on.                                                     *)
(***************************************************************************)
EXTENDS Nodes, SequencesExt, FiniteSetTheorems, SequenceTheorems,
        WellFoundedInduction, TLAPS

-----------------------------------------------------------------------------
(* The well-ordering of positions that "the first such element" of a queue  *)
(* or of a history rests on.                                                *)

\* A finite set of numbers with a member has a least member.  (Its initial
\* segments are well-founded under inclusion.)
LEMMA LeastOfFinite ==
    ASSUME NEW S \in SUBSET Nat, IsFiniteSet(S), S # {}
    PROVE  \E m \in S : \A k \in S : m <= k
<1> DEFINE upto(m) == {k \in S : k <= m}
           segments == {upto(m) : m \in S}
           R == StrictSubsetOrdering(S)
<1>1. IsWellFoundedOn(R, SUBSET S)
  <2>1. FiniteSubsetsOf(S) = SUBSET S
    BY FS_FiniteSubsetsOfFinite
  <2>2. IsWellFoundedOn(StrictSubsetOrdering(S), FiniteSubsetsOf(S))
    BY FS_StrictSubsetOrderingWellFounded
  <2>3. QED
    BY <2>1, <2>2
<1>2. segments \subseteq SUBSET S /\ segments # {}
  OBVIOUS
<1> HIDE DEF R, segments
<1>3. PICK T \in segments : \A U \in segments : ~ (<<U, T>> \in R)
  BY <1>1, <1>2, WFMin
<1>4. PICK m \in S : T = upto(m)
  BY <1>3 DEF segments
<1>5. ASSUME NEW k \in S PROVE m <= k
  <2> SUFFICES ASSUME k < m PROVE FALSE
    OBVIOUS
  <2>1. upto(k) \in segments /\ upto(k) \in SUBSET S /\ upto(m) \in SUBSET S
    BY DEF segments
  <2>2. upto(k) \subseteq upto(m) /\ m \in upto(m) /\ m \notin upto(k)
    <3>1. k \in Nat /\ m \in Nat /\ k < m /\ \A j \in S : j \in Nat
      OBVIOUS
    <3>2. \A j \in Nat : j <= k => j <= m
      BY <3>1
    <3>3. m <= m /\ ~(m <= k)
      BY <3>1
    <3>4. QED
      BY <3>1, <3>2, <3>3
  <2>3. <<upto(k), upto(m)>> \in R
    BY <2>1, <2>2 DEF R, StrictSubsetOrdering
  <2>4. QED
    BY <1>3, <1>4, <2>1, <2>3
<1>6. QED
  BY <1>5

\* The same of a set of positions.
LEMMA LeastExists ==
    ASSUME NEW N \in Nat, NEW S \in SUBSET (1..N), S # {}
    PROVE  \E m \in S : \A k \in S : m <= k
<1>1. IsFiniteSet(S)
  <2>1. IsFiniteSet(1..N)
    BY FS_Interval
  <2>2. QED
    BY <2>1, FS_Subset
<1>2. S \in SUBSET Nat
  OBVIOUS
<1>3. \E m \in S : \A k \in S : m <= k
  BY <1>1, <1>2, S # {}, LeastOfFinite
<1>4. QED
  BY <1>3
-----------------------------------------------------------------------------
(* Sums over sets of nodes: what the members of a set draw together is the  *)
(* number of its tokens, which grows and shrinks member by member.          *)

\* The units one holder draws are as many tokens.
LEMMA TokensOfOne ==
    ASSUME NEW n, NEW k \in Nat
    PROVE  /\ IsFiniteSet({n} \X (1..k))
           /\ Cardinality({n} \X (1..k)) = k
<1>1. IsFiniteSet(1..k) /\ Cardinality(1..k) = k
  BY FS_Interval
<1>2. IsFiniteSet({n}) /\ Cardinality({n}) = 1
  BY FS_Singleton
<1>3. QED
  BY <1>1, <1>2, FS_Product

\* The tokens of finitely many holders are finitely many.
LEMMA TokensFinite ==
    ASSUME NEW S \in SUBSET Node, NEW f \in [Node -> Nat]
    PROVE  IsFiniteSet(Tokens(S, f))
<1>1. IsFiniteSet(S)
  BY NodeAssumption, FS_Subset
<1> DEFINE each == {{n} \X (1..f[n]) : n \in S}
           own  == [n \in S |-> {n} \X (1..f[n])]
<1>2. IsFiniteSet(each)
  <2>1. own \in Surjection(S, each)
    BY DEF Surjection
  <2>2. QED
    BY <1>1, <2>1, FS_Surjection
<1>3. ASSUME NEW T \in each PROVE IsFiniteSet(T)
  <2>1. PICK n \in S : T = {n} \X (1..f[n])
    OBVIOUS
  <2>2. f[n] \in Nat
    OBVIOUS
  <2>3. QED
    BY <2>1, <2>2, TokensOfOne
<1>4. QED
  BY <1>2, <1>3, FS_UNION DEF Tokens

\* A new holder adds its own units and nothing else.
LEMMA TokensAdd ==
    ASSUME NEW S \in SUBSET Node, NEW n \in Node, n \notin S,
           NEW f \in [Node -> Nat]
    PROVE  Cardinality(Tokens(S \cup {n}, f)) = Cardinality(Tokens(S, f)) + f[n]
<1> DEFINE own == {n} \X (1..f[n])
<1>1. Tokens(S \cup {n}, f) = Tokens(S, f) \cup own
  BY DEF Tokens
<1>2. Tokens(S, f) \cap own = {}
  BY DEF Tokens
<1>3. IsFiniteSet(Tokens(S, f))
  BY TokensFinite
<1>4. IsFiniteSet(own) /\ Cardinality(own) = f[n]
  BY TokensOfOne
<1> HIDE DEF own
<1>5. Cardinality(Tokens(S, f) \cup own)
        = Cardinality(Tokens(S, f)) + Cardinality(own) - Cardinality({})
  BY <1>2, <1>3, <1>4, FS_Union
<1>6. Cardinality({}) = 0
  BY FS_EmptySet
<1>7. Cardinality(Tokens(S, f)) \in Nat
  BY <1>3, FS_CardinalityType
<1>8. Cardinality(Tokens(S \cup {n}, f)) = Cardinality(Tokens(S, f)) + f[n] - 0
  BY <1>1, <1>4, <1>5, <1>6, Zenon
<1>9. f[n] \in Nat
  OBVIOUS
<1>10. QED
  BY <1>7, <1>8, <1>9

\* A holder that leaves takes its own units and nothing else.
LEMMA TokensRemove ==
    ASSUME NEW S \in SUBSET Node, NEW n \in S, NEW f \in [Node -> Nat]
    PROVE  Cardinality(Tokens(S, f)) = Cardinality(Tokens(S \ {n}, f)) + f[n]
<1>1. (S \ {n}) \cup {n} = S
  OBVIOUS
<1>2. QED
  BY <1>1, TokensAdd

\* Counts of tokens are natural numbers.
LEMMA TokensCount ==
    ASSUME NEW S \in SUBSET Node, NEW f \in [Node -> Nat]
    PROVE  Cardinality(Tokens(S, f)) \in Nat
BY TokensFinite, FS_CardinalityType

\* A holder that fits takes its units out of what is free: the total stays.
LEMMA ChargeIsPaired ==
    ASSUME NEW S \in SUBSET Node, NEW f \in [Node -> Nat], NEW n \in Node, n \notin S,
           NEW k \in Nat, NEW total, k + Cardinality(Tokens(S, f)) = total, f[n] <= k
    PROVE  k - f[n] \in Nat /\ (k - f[n]) + Cardinality(Tokens(S \cup {n}, f)) = total
<1> DEFINE drawn == Cardinality(Tokens(S, f))
           after == Cardinality(Tokens(S \cup {n}, f))
<1>1. after = drawn + f[n] /\ drawn \in Nat /\ f[n] \in Nat
  BY TokensAdd, TokensCount
<1> HIDE DEF after
<1>2. QED
  BY <1>1 DEF after

\* A holder that leaves gives back its units, and a credit that saturates at
\* the total is never cut.
LEMMA CreditIsPaired ==
    ASSUME NEW S \in SUBSET Node, NEW f \in [Node -> Nat], NEW n \in S,
           NEW k \in Nat, NEW total, k + Cardinality(Tokens(S, f)) = total,
           NEW credit, credit = IF k + f[n] > total THEN total ELSE k + f[n]
    PROVE  credit \in Nat /\ credit + Cardinality(Tokens(S \ {n}, f)) = total
<1> DEFINE drawn == Cardinality(Tokens(S, f))
           after == Cardinality(Tokens(S \ {n}, f))
<1>1. drawn = after + f[n] /\ f[n] \in Nat
  BY TokensRemove
<1>2. after \in Nat
  <2>1. S \ {n} \in SUBSET Node
    OBVIOUS
  <2>2. QED
    BY <2>1, TokensCount
<1> HIDE DEF after
<1>3. k + f[n] <= total /\ (k + f[n]) + after = total
  BY <1>1, <1>2
<1>4. QED
  BY <1>1, <1>2, <1>3 DEF after
-----------------------------------------------------------------------------
(* Sequences.                                                               *)

\* RemoveAt keeps the elements before the position and shifts those after it.
LEMMA RemoveAtShifts ==
    ASSUME NEW S, NEW s \in Seq(S), NEW i \in 1..Len(s)
    PROVE  /\ RemoveAt(s, i) \in Seq(S)
           /\ Len(RemoveAt(s, i)) = Len(s) - 1
           /\ \A k \in 1..(Len(s) - 1) :
                RemoveAt(s, i)[k] = IF k < i THEN s[k] ELSE s[k + 1]
<1> DEFINE front == SubSeq(s, 1, i - 1)
           back  == SubSeq(s, i + 1, Len(s))
<1>1. Len(s) \in Nat /\ i \in Nat /\ i >= 1 /\ i <= Len(s)
  OBVIOUS
<1>2. /\ front \in Seq(S) /\ Len(front) = i - 1
      /\ \A k \in 1..(i - 1) : front[k] = s[k]
  BY <1>1, SubSeqProperties
<1>3. /\ back \in Seq(S) /\ Len(back) = Len(s) - i
      /\ \A k \in 1..(Len(s) - i) : back[k] = s[i + k]
  <2>1. \A k \in (i + 1)..Len(s) : s[k] \in S
    BY <1>1
  <2>2. /\ back \in Seq(S)
        /\ Len(back) = IF i + 1 <= Len(s) THEN Len(s) - (i + 1) + 1 ELSE 0
        /\ \A k \in 1..(Len(s) - (i + 1) + 1) : back[k] = s[(i + 1) + k - 1]
    BY <1>1, <2>1, SubSeqProperties
  <2>3. \A k \in 1..(Len(s) - i) : back[k] = s[i + k]
    <3>1. \A k \in Nat : (i + 1) + k - 1 = i + k
      BY <1>1
    <3>2. Len(s) - (i + 1) + 1 = Len(s) - i
      BY <1>1
    <3>3. QED
      BY <2>2, <3>1, <3>2
  <2>4. QED
    BY <1>1, <2>2, <2>3
<1>4. RemoveAt(s, i) = front \o back
  BY DEF RemoveAt
<1> HIDE DEF front, back
<1>5. /\ front \o back \in Seq(S)
      /\ Len(front \o back) = Len(s) - 1
      /\ \A k \in 1..(Len(s) - 1) :
           (front \o back)[k] = IF k <= i - 1 THEN front[k] ELSE back[k - (i - 1)]
  <2>1. (i - 1) + (Len(s) - i) = Len(s) - 1
    BY <1>1
  <2>2. /\ front \o back \in Seq(S)
        /\ Len(front \o back) = Len(front) + Len(back)
        /\ \A k \in 1..(Len(front) + Len(back)) :
             (front \o back)[k] = IF k <= Len(front) THEN front[k]
                                  ELSE back[k - Len(front)]
    BY <1>2, <1>3, ConcatProperties
  <2>3. QED
    BY <1>2, <1>3, <2>1, <2>2
<1>6. ASSUME NEW k \in 1..(Len(s) - 1)
      PROVE  (front \o back)[k] = IF k < i THEN s[k] ELSE s[k + 1]
  <2>1. CASE k < i
    <3>1. k \in 1..(i - 1) /\ k <= i - 1
      BY <1>1, <2>1
    <3>2. QED
      BY <2>1, <3>1, <1>2, <1>5
  <2>2. CASE ~(k < i)
    <3>1. k - (i - 1) \in 1..(Len(s) - i) /\ i + (k - (i - 1)) = k + 1
      BY <1>1, <2>2
    <3>2. ~(k <= i - 1)
      BY <1>1, <2>2
    <3>3. (front \o back)[k] = back[k - (i - 1)]
      BY <3>2, <1>5
    <3>4. back[k - (i - 1)] = s[i + (k - (i - 1))]
      BY <3>1, <1>3
    <3>5. QED
      BY <2>2, <3>1, <3>3, <3>4
  <2>3. QED
    BY <2>1, <2>2
<1>7. QED
  BY <1>4, <1>5, <1>6

Distinct(s) == \A i, j \in DOMAIN s : s[i] = s[j] => i = j

\* Removing a position of a sequence without repetitions removes its element.
LEMMA RemoveAtDistinct ==
    ASSUME NEW S, NEW s \in Seq(S), Distinct(s), NEW i \in 1..Len(s),
           NEW t, t = RemoveAt(s, i)
    PROVE  /\ t \in Seq(S)
           /\ Distinct(t)
           /\ \A k \in DOMAIN t : t[k] # s[i] /\ \E j \in DOMAIN s : t[k] = s[j]
<1> DEFINE from(k) == IF k < i THEN k ELSE k + 1
<1>1. /\ t \in Seq(S)
      /\ Len(t) = Len(s) - 1
      /\ \A k \in 1..(Len(s) - 1) : t[k] = IF k < i THEN s[k] ELSE s[k + 1]
  BY RemoveAtShifts
<1>2. DOMAIN t = 1..(Len(s) - 1) /\ Len(s) \in Nat /\ DOMAIN s = 1..Len(s)
  BY <1>1
<1>3. ASSUME NEW k \in DOMAIN t
      PROVE  from(k) \in DOMAIN s /\ from(k) # i /\ t[k] = s[from(k)]
  BY <1>1, <1>2
<1>4. \A j, k \in DOMAIN t : from(j) = from(k) => j = k
  BY <1>2
<1> HIDE DEF from
<1>5. Distinct(t)
  BY <1>3, <1>4 DEF Distinct
<1>6. \A k \in DOMAIN t : t[k] # s[i] /\ \E j \in DOMAIN s : t[k] = s[j]
  BY <1>2, <1>3 DEF Distinct
<1>7. QED
  BY <1>1, <1>5, <1>6

\* Appending a new element keeps a sequence free of repetitions.
LEMMA AppendDistinct ==
    ASSUME NEW S, NEW s \in Seq(S), Distinct(s), NEW e \in S,
           \A i \in DOMAIN s : s[i] # e
    PROVE  /\ Append(s, e) \in Seq(S)
           /\ Distinct(Append(s, e))
           /\ \A k \in DOMAIN Append(s, e) :
                Append(s, e)[k] = e \/ \E j \in DOMAIN s : Append(s, e)[k] = s[j]
<1> DEFINE t == Append(s, e)
<1>1. /\ t \in Seq(S) /\ Len(t) = Len(s) + 1 /\ t[Len(s) + 1] = e
      /\ \A i \in 1..Len(s) : t[i] = s[i]
      /\ DOMAIN s = 1..Len(s) /\ DOMAIN t = 1..(Len(s) + 1) /\ Len(s) \in Nat
  BY AppendProperties
<1>2. \A k \in DOMAIN t : k = Len(s) + 1 \/ k \in DOMAIN s
  BY <1>1
<1>3. QED
  BY <1>1, <1>2 DEF Distinct

\* RemoveFirst leaves the sequence or removes one position that holds e.
LEMMA RemoveFirstIsRemoveAt ==
    ASSUME NEW S, NEW s \in Seq(S), NEW e
    PROVE  \/ /\ \A i \in 1..Len(s) : s[i] # e
              /\ RemoveFirst(s, e) = s
           \/ \E i \in 1..Len(s) : s[i] = e /\ RemoveFirst(s, e) = RemoveAt(s, i)
<1>1. CASE \E i \in 1..Len(s) : s[i] = e
  <2> DEFINE here == {i \in 1..Len(s) : s[i] = e}
  <2>1. here # {} /\ here \in SUBSET (1..Len(s)) /\ Len(s) \in Nat
    BY <1>1
  <2>2. Min(here) \in here
    <3>1. \E m \in here : \A k \in here : m <= k
      BY <2>1, LeastExists
    <3>2. QED
      BY <3>1 DEF Min
  <2>3. RemoveFirst(s, e) = RemoveAt(s, Min(here))
    BY <1>1, <2>1 DEF RemoveFirst, SelectInSeq
  <2>4. QED
    BY <2>2, <2>3
<1>2. CASE \A i \in 1..Len(s) : s[i] # e
  BY <1>2 DEF RemoveFirst
<1>3. QED
  BY <1>1, <1>2

\* Removing an element from a sequence without repetitions takes it out and
\* leaves the others.
LEMMA RemoveFirstDistinct ==
    ASSUME NEW S, NEW s \in Seq(S), Distinct(s), NEW e
    PROVE  /\ RemoveFirst(s, e) \in Seq(S) /\ Distinct(RemoveFirst(s, e))
           /\ ToSet(RemoveFirst(s, e)) = ToSet(s) \ {e}
<1> DEFINE t == RemoveFirst(s, e)
<1>1. DOMAIN s = 1..Len(s) /\ Len(s) \in Nat
  BY LenProperties
<1>2. CASE (\A i \in 1..Len(s) : s[i] # e) /\ t = s
  BY <1>1, <1>2 DEF ToSet
<1>3. ASSUME NEW i \in 1..Len(s), s[i] = e, t = RemoveAt(s, i)
      PROVE  t \in Seq(S) /\ Distinct(t) /\ ToSet(t) = ToSet(s) \ {e}
  <2> HIDE DEF t
  <2>1. /\ t \in Seq(S) /\ Distinct(t)
        /\ \A k \in DOMAIN t : t[k] # e /\ \E j \in DOMAIN s : t[k] = s[j]
    BY <1>3, RemoveAtDistinct
  <2>2. \A j \in DOMAIN s : s[j] # e => \E k \in DOMAIN t : t[k] = s[j]
    <3>1. /\ Len(t) = Len(s) - 1
          /\ \A k \in 1..(Len(s) - 1) : t[k] = IF k < i THEN s[k] ELSE s[k + 1]
      BY <1>3, RemoveAtShifts
    <3>2. DOMAIN t = 1..(Len(s) - 1)
      BY <2>1, <3>1, LenProperties
    <3>3. ASSUME NEW j \in DOMAIN s, s[j] # e PROVE \E k \in DOMAIN t : t[k] = s[j]
      <4>1. j \in 1..Len(s) /\ j # i
        BY <1>1, <1>3, <3>3
      <4>2. CASE j < i
        <5>1. j \in 1..(Len(s) - 1)
          BY <1>1, <4>1, <4>2
        <5>2. QED
          BY <3>1, <3>2, <4>2, <5>1
      <4>3. CASE ~(j < i)
        <5>1. j - 1 \in 1..(Len(s) - 1) /\ ~(j - 1 < i) /\ (j - 1) + 1 = j
          BY <1>1, <4>1, <4>3
        <5>2. QED
          BY <3>1, <3>2, <5>1
      <4>4. QED
        BY <4>2, <4>3
    <3>4. QED
      BY <3>3
  <2>3. QED
    BY <2>1, <2>2 DEF ToSet
<1>4. QED
  BY <1>2, <1>3, RemoveFirstIsRemoveAt

\* The last item of a list, and the list without it.
LEMMA LastAndRest ==
    ASSUME NEW S, NEW w \in Seq(S), w # << >>
    PROVE  /\ Len(w) \in Nat /\ Len(w) # 0 /\ DOMAIN w = 1..Len(w)
           /\ Len(w) \in DOMAIN w /\ w[Len(w)] \in S
           /\ SubSeq(w, 1, Len(w) - 1) \in Seq(S)
           /\ DOMAIN SubSeq(w, 1, Len(w) - 1) = 1..(Len(w) - 1)
           /\ \A i \in 1..(Len(w) - 1) : i \in DOMAIN w /\ SubSeq(w, 1, Len(w) - 1)[i] = w[i]
<1>1. Len(w) \in Nat /\ Len(w) # 0 /\ DOMAIN w = 1..Len(w)
  BY EmptySeq, LenProperties
<1>2. Len(w) \in DOMAIN w /\ w[Len(w)] \in S
  BY <1>1, ElementOfSeq
<1>3. Len(w) - 1 \in 0..Len(w)
  BY <1>1
<1>4. \A i \in 1..(Len(w) - 1) : i \in DOMAIN w
  BY <1>1
<1>5. /\ SubSeq(w, 1, Len(w) - 1) \in Seq(S)
      /\ Len(SubSeq(w, 1, Len(w) - 1)) = Len(w) - 1
      /\ \A i \in 1..(Len(w) - 1) : SubSeq(w, 1, Len(w) - 1)[i] = w[i]
  BY <1>1, <1>3
<1>6. DOMAIN SubSeq(w, 1, Len(w) - 1) = 1..(Len(w) - 1)
  BY <1>5, LenProperties
<1>7. QED
  BY <1>1, <1>2, <1>4, <1>5, <1>6

\* The decisions of a call after one more.
LEMMA OneMoreDecision ==
    ASSUME NEW ds, NEW S, ds \in Seq(S), NEW e \in S
    PROVE  /\ DOMAIN Append(ds, e) = DOMAIN ds \cup {Len(ds) + 1}
           /\ Len(ds) + 1 \notin DOMAIN ds
           /\ \A i \in DOMAIN ds : Append(ds, e)[i] = ds[i]
           /\ Append(ds, e)[Len(ds) + 1] = e
           /\ Append(ds, e) \in Seq(S)
<1>1. Len(ds) \in Nat /\ DOMAIN ds = 1..Len(ds)
  BY LenProperties
<1>2. /\ Append(ds, e) \in Seq(S) /\ Len(Append(ds, e)) = Len(ds) + 1
      /\ \A i \in 1..Len(ds) : Append(ds, e)[i] = ds[i]
      /\ Append(ds, e)[Len(ds) + 1] = e
  BY AppendProperties
<1>3. DOMAIN Append(ds, e) = 1..(Len(ds) + 1)
  BY <1>2, LenProperties
<1>4. QED
  BY <1>1, <1>2, <1>3

\* Taking the head moves every other element one place forward.
LEMMA TailElements ==
    ASSUME NEW S, NEW s \in Seq(S), s # << >>
    PROVE  /\ Tail(s) \in Seq(S) /\ Head(s) = s[1] /\ 1 \in DOMAIN s /\ s[1] \in S
           /\ DOMAIN Tail(s) = 1..(Len(s) - 1) /\ DOMAIN s = 1..Len(s) /\ Len(s) \in Nat
           /\ \A i \in DOMAIN Tail(s) : i + 1 \in DOMAIN s /\ Tail(s)[i] = s[i + 1]
           /\ \A k \in DOMAIN s : k # 1 => k - 1 \in DOMAIN Tail(s) /\ s[k] = Tail(s)[k - 1]
<1>1. Len(s) \in Nat /\ Len(s) # 0 /\ DOMAIN s = 1..Len(s)
  BY EmptySeq, LenProperties
<1>2. /\ Head(s) = s[1] /\ s[1] \in S /\ Tail(s) \in Seq(S) /\ Len(Tail(s)) = Len(s) - 1
      /\ \A i \in 1..(Len(s) - 1) : Tail(s)[i] = s[i + 1]
  BY <1>1, HeadTailProperties
<1>3. DOMAIN Tail(s) = 1..(Len(s) - 1)
  BY <1>2, LenProperties
<1>4. QED
  BY <1>1, <1>2, <1>3

-----------------------------------------------------------------------------
(* Selecting the elements of a sequence that are in a set.                  *)

\* g selects from s as Among does, over the first k elements.
Selects(g, k, s, S) ==
    g = [i \in 0..k |-> IF i = 0 THEN << >>
                        ELSE IF s[i] \in S THEN Append(g[i - 1], s[i]) ELSE g[i - 1]]

\* There is such a selection of every beginning of s, so of s.
LEMMA SelectionExists ==
    ASSUME NEW s, NEW S, NEW N \in Nat
    PROVE  \A k \in 0..N : \E g : Selects(g, k, s, S)
<1> DEFINE bad == {k \in 0..N : ~ \E g : Selects(g, k, s, S)}
<1> SUFFICES ASSUME bad # {} PROVE FALSE
  OBVIOUS
<1>1. bad \in SUBSET Nat /\ IsFiniteSet(bad)
  <2>1. IsFiniteSet(0..N)
    BY FS_Interval
  <2>2. QED
    BY <2>1, FS_Subset
<1>2. PICK k \in bad : \A j \in bad : k <= j
  <2> HIDE DEF bad
  <2>1. QED
    BY <1>1, LeastOfFinite
<1>3. CASE k = 0
  <2>1. Selects([i \in 0..0 |-> << >>], 0, s, S)
    BY DEF Selects
  <2>2. QED
    BY <1>3, <2>1
<1>4. CASE k # 0
  <2>1. k - 1 \in 0..N /\ ~(k <= k - 1) /\ k \in Nat
    BY <1>4
  <2>2. PICK g : Selects(g, k - 1, s, S)
    BY <1>2, <2>1
  <2> DEFINE last == IF s[k] \in S THEN Append(g[k - 1], s[k]) ELSE g[k - 1]
             h == [i \in 0..k |-> IF i = k THEN last ELSE g[i]]
  <2>3. ASSUME NEW i \in 0..k
        PROVE  h[i] = IF i = 0 THEN << >>
                      ELSE IF s[i] \in S THEN Append(h[i - 1], s[i]) ELSE h[i - 1]
    <3>1. CASE i = k
      <4>1. h[i] = last /\ i # 0 /\ h[i - 1] = g[k - 1]
        BY <1>4, <2>1, <3>1
      <4> HIDE DEF h
      <4>2. QED
        BY <3>1, <4>1
    <3>2. CASE i # k
      <4>1. i \in 0..(k - 1)
        BY <2>1, <3>2
      <4>2. g[i] = IF i = 0 THEN << >>
                   ELSE IF s[i] \in S THEN Append(g[i - 1], s[i]) ELSE g[i - 1]
        BY <2>2, <4>1 DEF Selects
      <4>3. h[i] = g[i] /\ (i # 0 => h[i - 1] = g[i - 1])
        BY <2>1, <3>2, <4>1
      <4> HIDE DEF h
      <4>4. QED
        BY <4>2, <4>3
    <3>3. QED
      BY <3>1, <3>2
  <2>4. Selects(h, k, s, S)
    <3>1. h = [i \in 0..k |-> h[i]]
      OBVIOUS
    <3> HIDE DEF h
    <3>2. QED
      BY <2>3, <3>1 DEF Selects
  <2>5. QED
    BY <2>4
<1>5. QED
  BY <1>3, <1>4

\* What is selected: the elements of s that are in S, each as often as in s.
LEMMA AmongSelects ==
    ASSUME NEW T, NEW s \in Seq(T), NEW S
    PROVE  /\ Among(s, S) \in Seq(T)
           /\ \A i \in DOMAIN Among(s, S) :
                Among(s, S)[i] \in S /\ \E j \in DOMAIN s : Among(s, S)[i] = s[j]
           /\ \A j \in DOMAIN s : s[j] \in S => \E i \in DOMAIN Among(s, S) : Among(s, S)[i] = s[j]
           /\ Distinct(s) => Distinct(Among(s, S))
<1> DEFINE f == CHOOSE f : Selects(f, Len(s), s, S)
           Good(k) ==
             /\ f[k] \in Seq(T)
             /\ \A i \in DOMAIN f[k] : f[k][i] \in S /\ \E j \in 1..k : f[k][i] = s[j]
             /\ \A j \in 1..k : s[j] \in S => \E i \in DOMAIN f[k] : f[k][i] = s[j]
             /\ Distinct(s) => Distinct(f[k])
           bad == {k \in 0..Len(s) : ~ Good(k)}
<1>1. Len(s) \in Nat /\ DOMAIN s = 1..Len(s)
  BY LenProperties
<1>2. Selects(f, Len(s), s, S)
  <2>1. \E g : Selects(g, Len(s), s, S)
    <3>1. Len(s) \in 0..Len(s)
      BY <1>1
    <3>2. QED
      BY <1>1, <3>1, SelectionExists
  <2>2. QED
    BY <2>1
<1>3. Among(s, S) = f[Len(s)]
  BY DEF Among, Selects
<1> HIDE DEF f
<1>4. /\ f[0] = << >>
      /\ \A k \in 1..Len(s) : f[k] = IF s[k] \in S THEN Append(f[k - 1], s[k]) ELSE f[k - 1]
  <2>1. 0 \in 0..Len(s) /\ \A k \in 1..Len(s) : k \in 0..Len(s) /\ k # 0
    BY <1>1
  <2>2. \A k \in 0..Len(s) : f[k] = IF k = 0 THEN << >>
             ELSE IF s[k] \in S THEN Append(f[k - 1], s[k]) ELSE f[k - 1]
    BY <1>2 DEF Selects
  <2>3. QED
    BY <2>1, <2>2
<1>5. Good(0)
  BY <1>4 DEF Distinct
<1>6. ASSUME NEW k \in 1..Len(s), Good(k - 1) PROVE Good(k)
  <2>1. /\ k - 1 \in Nat /\ s[k] \in T /\ k \in DOMAIN s /\ k \in 1..k
        /\ \A j \in 1..k : j = k \/ j \in 1..(k - 1)
        /\ \A j \in 1..(k - 1) : j \in 1..k /\ j \in DOMAIN s /\ j # k
    BY <1>1, ElementOfSeq
  <2>2. CASE s[k] \notin S
    <3>1. f[k] = f[k - 1]
      BY <1>4, <2>2
    <3>2. QED
      BY <1>6, <2>1, <2>2, <3>1
  <2>3. CASE s[k] \in S
    <3>1. f[k] = Append(f[k - 1], s[k])
      BY <1>4, <2>3
    <3>2. f[k - 1] \in Seq(T)
      BY <1>6
    <3>3. /\ DOMAIN f[k] = DOMAIN f[k - 1] \cup {Len(f[k - 1]) + 1}
          /\ Len(f[k - 1]) + 1 \notin DOMAIN f[k - 1]
          /\ \A i \in DOMAIN f[k - 1] : f[k][i] = f[k - 1][i]
          /\ f[k][Len(f[k - 1]) + 1] = s[k]
          /\ f[k] \in Seq(T)
      BY <2>1, <3>1, <3>2, OneMoreDecision
    <3>4. Distinct(s) => Distinct(f[k])
      <4>1. ASSUME Distinct(s) PROVE \A i \in DOMAIN f[k - 1] : f[k - 1][i] # s[k]
        BY <1>6, <2>1, <4>1 DEF Distinct
      <4>2. QED
        BY <1>6, <3>3, <4>1 DEF Distinct
    <3>5. \A i \in DOMAIN f[k] : f[k][i] \in S /\ \E j \in 1..k : f[k][i] = s[j]
      BY <1>6, <2>1, <2>3, <3>3
    <3>6. \A j \in 1..k : s[j] \in S => \E i \in DOMAIN f[k] : f[k][i] = s[j]
      BY <1>6, <2>1, <3>3
    <3>7. QED
      BY <3>3, <3>4, <3>5, <3>6
  <2>4. QED
    BY <2>2, <2>3
<1> HIDE DEF Good
<1>7. bad = {}
  <2> SUFFICES ASSUME bad # {} PROVE FALSE
    OBVIOUS
  <2>1. bad \in SUBSET Nat /\ IsFiniteSet(bad)
    <3>1. IsFiniteSet(0..Len(s))
      BY <1>1, FS_Interval
    <3>2. QED
      BY <1>1, <3>1, FS_Subset
  <2>2. PICK k \in bad : \A j \in bad : k <= j
    <3> HIDE DEF bad
    <3>1. QED
      BY <2>1, LeastOfFinite
  <2>3. k # 0 /\ k \in Nat /\ k <= Len(s)
    BY <1>1, <1>5
  <2>4. k - 1 \in 0..Len(s) /\ ~(k <= k - 1) /\ k \in 1..Len(s)
    BY <1>1, <2>3
  <2>5. Good(k - 1)
    BY <2>2, <2>4
  <2>6. QED
    BY <1>6, <2>4, <2>5
<1>8. Good(Len(s))
  <2>1. Len(s) \in 0..Len(s)
    BY <1>1
  <2>2. QED
    BY <1>7, <2>1
<1>9. QED
  BY <1>1, <1>3, <1>8 DEF Good

-----------------------------------------------------------------------------
(* Counting the messages of a queue that are in a set.                      *)

Places(q, M) == {i \in DOMAIN q : q[i] \in M}

\* They are finitely many.
LEMMA PlacesFinite ==
    ASSUME NEW T, NEW q \in Seq(T), NEW M
    PROVE  IsFiniteSet(Places(q, M)) /\ Cardinality(Places(q, M)) \in Nat
<1>1. Len(q) \in Nat /\ DOMAIN q = 1..Len(q)
  BY LenProperties
<1>2. IsFiniteSet(1..Len(q))
  BY <1>1, FS_Interval
<1>3. QED
  BY <1>1, <1>2, FS_Subset, FS_CardinalityType DEF Places

\* Appending a message counts it if it is in the set.
LEMMA PlacesAppend ==
    ASSUME NEW T, NEW q \in Seq(T), NEW e \in T, NEW M
    PROVE  Cardinality(Places(Append(q, e), M))
             = Cardinality(Places(q, M)) + (IF e \in M THEN 1 ELSE 0)
<1>1. /\ DOMAIN Append(q, e) = DOMAIN q \cup {Len(q) + 1}
      /\ Len(q) + 1 \notin DOMAIN q
      /\ \A i \in DOMAIN q : Append(q, e)[i] = q[i]
      /\ Append(q, e)[Len(q) + 1] = e
  BY OneMoreDecision
<1>2. IsFiniteSet(Places(q, M)) /\ Cardinality(Places(q, M)) \in Nat
  BY PlacesFinite
<1>3. CASE e \in M
  <2>1. Places(Append(q, e), M) = Places(q, M) \cup {Len(q) + 1}
    BY <1>1, <1>3 DEF Places
  <2>2. Len(q) + 1 \notin Places(q, M)
    BY <1>1 DEF Places
  <2>3. QED
    BY <1>2, <1>3, <2>1, <2>2, FS_AddElement
<1>4. CASE e \notin M
  <2>1. Places(Append(q, e), M) = Places(q, M)
    BY <1>1, <1>4 DEF Places
  <2>2. QED
    BY <1>2, <1>4, <2>1
<1>5. QED
  BY <1>3, <1>4

\* Taking the head counts it no longer.
LEMMA PlacesTail ==
    ASSUME NEW T, NEW q \in Seq(T), q # << >>, NEW M
    PROVE  Cardinality(Places(q, M))
             = Cardinality(Places(Tail(q), M)) + (IF Head(q) \in M THEN 1 ELSE 0)
<1>1. /\ Tail(q) \in Seq(T) /\ Head(q) = q[1] /\ 1 \in DOMAIN q
      /\ DOMAIN Tail(q) = 1..(Len(q) - 1) /\ DOMAIN q = 1..Len(q) /\ Len(q) \in Nat
      /\ \A i \in DOMAIN Tail(q) : i + 1 \in DOMAIN q /\ Tail(q)[i] = q[i + 1]
      /\ \A k \in DOMAIN q : k # 1 => k - 1 \in DOMAIN Tail(q) /\ q[k] = Tail(q)[k - 1]
  BY TailElements
<1> DEFINE rest == Places(Tail(q), M)
           later == {i \in Places(q, M) : i # 1}
           shift == [i \in rest |-> i + 1]
<1>2. IsFiniteSet(rest) /\ Cardinality(rest) \in Nat
  BY <1>1, PlacesFinite
<1>3. shift \in Bijection(rest, later)
  <2>1. \A i \in rest : i \in Nat /\ i # 0 /\ i + 1 \in later
    BY <1>1 DEF Places
  <2>2. \A k \in later : k \in Nat /\ k - 1 \in rest /\ (k - 1) + 1 = k
    BY <1>1 DEF Places
  <2> HIDE DEF rest, later
  <2>3. shift \in [rest -> later]
    BY <2>1
  <2>4. \A i, j \in rest : shift[i] = shift[j] => i = j
    BY <2>1
  <2>5. \A k \in later : \E i \in rest : shift[i] = k
    BY <2>2
  <2>6. QED
    BY <2>3, <2>4, <2>5 DEF Bijection, Injection, Surjection, IsInjective
<1>4. IsFiniteSet(later) /\ Cardinality(later) = Cardinality(rest)
  <2> HIDE DEF rest, later, shift
  <2>1. QED
    BY <1>2, <1>3, FS_Bijection DEF ExistsBijection
<1>5. CASE Head(q) \in M
  <2>1. Places(q, M) = later \cup {1} /\ 1 \notin later
    BY <1>1, <1>5 DEF Places
  <2> HIDE DEF later, rest
  <2>2. Cardinality(Places(q, M)) = Cardinality(later) + 1
    BY <1>4, <2>1, FS_AddElement
  <2>3. QED
    BY <1>4, <1>5, <2>2 DEF rest
<1>6. CASE Head(q) \notin M
  <2>1. Places(q, M) = later
    BY <1>1, <1>6 DEF Places
  <2> HIDE DEF later, rest
  <2>2. QED
    BY <1>2, <1>4, <1>6, <2>1 DEF rest
<1>7. QED
  BY <1>5, <1>6

\* Joining messages that are all in the set counts all of them.
LEMMA PlacesConcat ==
    ASSUME NEW T, NEW q \in Seq(T), NEW t \in Seq(T), NEW M, \A i \in DOMAIN t : t[i] \in M
    PROVE  Cardinality(Places(q \o t, M)) = Cardinality(Places(q, M)) + Len(t)
<1>1. /\ Len(q) \in Nat /\ Len(t) \in Nat /\ DOMAIN q = 1..Len(q) /\ DOMAIN t = 1..Len(t)
      /\ DOMAIN (q \o t) = 1..(Len(q) + Len(t))
      /\ \A i \in 1..(Len(q) + Len(t)) :
            (q \o t)[i] = IF i <= Len(q) THEN q[i] ELSE t[i - Len(q)]
  BY ConcatProperties, LenProperties
<1> DEFINE new == (Len(q) + 1)..(Len(q) + Len(t))
<1>2. IsFiniteSet(Places(q, M)) /\ Cardinality(Places(q, M)) \in Nat
  BY PlacesFinite
<1>3. IsFiniteSet(new) /\ Cardinality(new) = Len(t)
  <2>1. PICK a \in Int, b \in Int : a = Len(q) + 1 /\ b = Len(q) + Len(t)
    BY <1>1
  <2>2. IsFiniteSet(a..b) /\ Cardinality(a..b) = IF a > b THEN 0 ELSE b - a + 1
    BY FS_Interval
  <2>3. new = a..b
    BY <2>1
  <2> HIDE DEF new
  <2>4. QED
    BY <1>1, <2>1, <2>2, <2>3
<1>4. \A i \in new : i \in 1..(Len(q) + Len(t)) /\ ~(i <= Len(q)) /\ i - Len(q) \in DOMAIN t
  BY <1>1
<1>5. \A i \in 1..(Len(q) + Len(t)) : i \in DOMAIN q \/ i \in new
  BY <1>1
<1>6. \A i \in DOMAIN q : i \in 1..(Len(q) + Len(t)) /\ i <= Len(q)
  BY <1>1
<1>7. Places(q \o t, M) = Places(q, M) \cup new /\ Places(q, M) \cap new = {}
  <2>1. \A i \in new : i \in Places(q \o t, M) /\ i \notin Places(q, M)
    BY <1>1, <1>4, <1>6 DEF Places
  <2>2. \A i \in DOMAIN q : i \in Places(q \o t, M) <=> i \in Places(q, M)
    BY <1>1, <1>6 DEF Places
  <2>3. \A i \in Places(q \o t, M) : i \in DOMAIN q \/ i \in new
    BY <1>1, <1>5 DEF Places
  <2>4. \A i \in Places(q, M) : i \in DOMAIN q
    BY DEF Places
  <2> HIDE DEF new
  <2>5. QED
    BY <2>1, <2>2, <2>3, <2>4
<1> HIDE DEF new
<1>8. Cardinality(Places(q \o t, M)) = Cardinality(Places(q, M)) + Cardinality(new) - Cardinality({})
  BY <1>2, <1>3, <1>7, FS_Union
<1>9. QED
  BY <1>1, <1>2, <1>3, <1>8, FS_EmptySet

-----------------------------------------------------------------------------
(* Queues of records that have a kind and a node.                           *)

NodesOf(q, kind) == {q[i].node : i \in {j \in DOMAIN q : q[j].kind = kind}}
Single(q, kind) == \A i, j \in DOMAIN q :
    q[i].kind = kind /\ q[j].kind = kind /\ q[i].node = q[j].node => i = j

\* q2 is q and then e; q2 is q and then t.
Appended(q2, q, e) == q2 = Append(q, e)
Joined(q2, q, t)   == q2 = q \o t

\* Appending a record adds its node to those of its kind.
LEMMA NodesOfAppend ==
    ASSUME NEW T, NEW q \in Seq(T), NEW e \in T, NEW q2, Appended(q2, q, e), NEW kind
    PROVE  /\ e.kind = kind => NodesOf(q2, kind) = NodesOf(q, kind) \cup {e.node}
           /\ e.kind # kind => NodesOf(q2, kind) = NodesOf(q, kind)
           /\ Single(q, kind) /\ (e.kind = kind => e.node \notin NodesOf(q, kind))
                => Single(q2, kind)
<1>1. /\ DOMAIN q2 = DOMAIN q \cup {Len(q) + 1} /\ Len(q) + 1 \notin DOMAIN q
      /\ \A i \in DOMAIN q : q2[i] = q[i]
      /\ q2[Len(q) + 1] = e
  BY OneMoreDecision DEF Appended
<1> DEFINE last == Len(q) + 1
<1> HIDE DEF last
<1>2. /\ DOMAIN q2 = DOMAIN q \cup {last} /\ last \notin DOMAIN q /\ q2[last] = e
  BY <1>1 DEF last
<1>3. /\ e.kind = kind => NodesOf(q2, kind) = NodesOf(q, kind) \cup {e.node}
      /\ e.kind # kind => NodesOf(q2, kind) = NodesOf(q, kind)
  <2>1. ASSUME NEW n \in NodesOf(q2, kind)
        PROVE  n \in NodesOf(q, kind) \/ (e.kind = kind /\ n = e.node)
    BY <1>1, <1>2 DEF NodesOf
  <2>2. ASSUME NEW n \in NodesOf(q, kind) PROVE n \in NodesOf(q2, kind)
    BY <1>1, <1>2 DEF NodesOf
  <2>3. e.kind = kind => e.node \in NodesOf(q2, kind)
    BY <1>2 DEF NodesOf
  <2>4. QED
    BY <2>1, <2>2, <2>3
<1>4. ASSUME Single(q, kind), e.kind = kind => e.node \notin NodesOf(q, kind)
      PROVE  Single(q2, kind)
  BY <1>1, <1>2, <1>4 DEF Single, NodesOf
<1>5. QED
  BY <1>3, <1>4

\* Taking the head takes its node from those of its kind, if no other record
\* of the kind is about it.
LEMMA NodesOfTail ==
    ASSUME NEW T, NEW q \in Seq(T), q # << >>, NEW kind
    PROVE  /\ Single(q, kind) => Single(Tail(q), kind)
           /\ NodesOf(Tail(q), kind) \subseteq NodesOf(q, kind)
           /\ Head(q).kind # kind => NodesOf(Tail(q), kind) = NodesOf(q, kind)
           /\ Head(q).kind = kind => Head(q).node \in NodesOf(q, kind)
           /\ Head(q).kind = kind /\ Single(q, kind)
                => NodesOf(Tail(q), kind) = NodesOf(q, kind) \ {Head(q).node}
<1> DEFINE t == Tail(q)
<1>1. /\ Head(q) = q[1] /\ 1 \in DOMAIN q
      /\ \A i \in DOMAIN t : i \in Int /\ i + 1 \in DOMAIN q /\ i + 1 # 1 /\ t[i] = q[i + 1]
      /\ \A k \in DOMAIN q : k # 1 => k - 1 \in DOMAIN t /\ q[k] = t[k - 1]
  BY TailElements
<1> HIDE DEF t
<1>2. Single(q, kind) => Single(t, kind)
  BY <1>1 DEF Single
<1>3. ASSUME NEW n \in NodesOf(t, kind) PROVE n \in NodesOf(q, kind)
  BY <1>1 DEF NodesOf
<1>4. ASSUME NEW n \in NodesOf(q, kind), Head(q).kind = kind => n # Head(q).node
      PROVE  n \in NodesOf(t, kind)
  <2>1. PICK k \in DOMAIN q : q[k].kind = kind /\ q[k].node = n
    BY DEF NodesOf
  <2>2. k - 1 \in DOMAIN t /\ q[k] = t[k - 1]
    BY <1>1, <1>4, <2>1
  <2>3. PICK j \in DOMAIN t : t[j] = q[k]
    BY <2>2
  <2>4. QED
    BY <2>1, <2>3 DEF NodesOf
<1>5. ASSUME Head(q).kind = kind, Single(q, kind) PROVE Head(q).node \notin NodesOf(t, kind)
  BY <1>1, <1>5 DEF NodesOf, Single
<1>6. Head(q).kind = kind => Head(q).node \in NodesOf(q, kind)
  BY <1>1 DEF NodesOf
<1>7. NodesOf(t, kind) \subseteq NodesOf(q, kind)
  BY <1>3
<1>8. Head(q).kind # kind => NodesOf(t, kind) = NodesOf(q, kind)
  BY <1>3, <1>4
<1>9. Head(q).kind = kind /\ Single(q, kind)
        => NodesOf(t, kind) = NodesOf(q, kind) \ {Head(q).node}
  BY <1>3, <1>4, <1>5
<1>10. QED
  BY <1>2, <1>6, <1>7, <1>8, <1>9 DEF t

\* Where the elements of a joined sequence are.
LEMMA ConcatElements ==
    ASSUME NEW T, NEW q \in Seq(T), NEW t \in Seq(T), NEW q2, q2 = q \o t
    PROVE  /\ q2 \in Seq(T)
           /\ \A i \in DOMAIN q : i \in DOMAIN q2 /\ q2[i] = q[i]
           /\ \A i \in DOMAIN t : i + Len(q) \in DOMAIN q2 /\ q2[i + Len(q)] = t[i]
           /\ \A i \in DOMAIN q2 : \/ i \in DOMAIN q
                                   \/ i \notin DOMAIN q /\ i - Len(q) \in DOMAIN t /\ q2[i] = t[i - Len(q)]
           /\ \A i, j \in DOMAIN q2 : i - Len(q) = j - Len(q) => i = j
<1>1. /\ Len(q) \in Nat /\ Len(t) \in Nat /\ DOMAIN q = 1..Len(q) /\ DOMAIN t = 1..Len(t)
      /\ q2 \in Seq(T) /\ DOMAIN q2 = 1..(Len(q) + Len(t))
      /\ \A i \in 1..(Len(q) + Len(t)) :
            q2[i] = IF i <= Len(q) THEN q[i] ELSE t[i - Len(q)]
  BY ConcatProperties, LenProperties
<1>2. ASSUME NEW i \in DOMAIN t
      PROVE  i + Len(q) \in DOMAIN q2 /\ q2[i + Len(q)] = t[i]
  <2>1. i + Len(q) \in 1..(Len(q) + Len(t)) /\ ~(i + Len(q) <= Len(q)) /\ i + Len(q) - Len(q) = i
    BY <1>1
  <2>2. QED
    BY <1>1, <2>1
<1>3. ASSUME NEW i \in DOMAIN q2
      PROVE  \/ i \in DOMAIN q
             \/ i \notin DOMAIN q /\ i - Len(q) \in DOMAIN t /\ q2[i] = t[i - Len(q)]
  <2>1. CASE i <= Len(q)
    BY <1>1, <2>1
  <2>2. CASE ~(i <= Len(q))
    <3>1. i - Len(q) \in 1..Len(t) /\ i \notin 1..Len(q)
      BY <1>1, <2>2
    <3>2. QED
      BY <1>1, <2>2, <3>1
  <2>3. QED
    BY <2>1, <2>2
<1>4. \A i \in DOMAIN q : i \in DOMAIN q2 /\ q2[i] = q[i]
  BY <1>1
<1>5. \A i, j \in DOMAIN q2 : i - Len(q) = j - Len(q) => i = j
  BY <1>1
<1>6. QED
  BY <1>1, <1>2, <1>3, <1>4, <1>5

\* t has a record of the kind for every element of ns, in that order.
AboutEach(t, ns, kind) ==
    DOMAIN t = DOMAIN ns /\ \A i \in DOMAIN t : t[i].kind = kind /\ t[i].node = ns[i]

\* Joining a record for every node of a line adds the nodes of the line.
LEMMA NodesOfConcat ==
    ASSUME NEW T, NEW q \in Seq(T), NEW t \in Seq(T), NEW ns, NEW kind,
           AboutEach(t, ns, kind), NEW q2, Joined(q2, q, t)
    PROVE  /\ NodesOf(q2, kind) = NodesOf(q, kind) \cup ToSet(ns)
           /\ \A other : other # kind => NodesOf(q2, other) = NodesOf(q, other)
           /\ Single(q, kind) /\ Distinct(ns) /\ ToSet(ns) \cap NodesOf(q, kind) = {}
                => Single(q2, kind)
<1>2. /\ \A i \in DOMAIN q : i \in DOMAIN q2 /\ q2[i] = q[i]
      /\ \A i \in DOMAIN t : i + Len(q) \in DOMAIN q2 /\ q2[i + Len(q)] = t[i]
      /\ \A i \in DOMAIN q2 : \/ i \in DOMAIN q
                              \/ i \notin DOMAIN q /\ i - Len(q) \in DOMAIN t /\ q2[i] = t[i - Len(q)]
      /\ \A i, j \in DOMAIN q2 : i - Len(q) = j - Len(q) => i = j
  BY ConcatElements DEF Joined
<1>3. \A i \in DOMAIN t : t[i].kind = kind /\ t[i].node = ns[i] /\ i \in DOMAIN ns
  BY DEF AboutEach
<1>4. \A i \in DOMAIN ns : i \in DOMAIN t
  BY DEF AboutEach
<1>5. ASSUME NEW k, NEW n \in NodesOf(q, k) PROVE n \in NodesOf(q2, k)
  BY <1>2 DEF NodesOf
<1>6. ASSUME NEW n \in ToSet(ns) PROVE n \in NodesOf(q2, kind)
  <2>1. PICK i \in DOMAIN t : ns[i] = n
    BY <1>4 DEF ToSet
  <2>2. PICK j \in DOMAIN q2 : q2[j] = t[i]
    BY <1>2
  <2>3. QED
    BY <1>3, <2>1, <2>2 DEF NodesOf
<1>7. ASSUME NEW k, NEW n \in NodesOf(q2, k)
      PROVE  n \in NodesOf(q, k) \/ (k = kind /\ n \in ToSet(ns))
  <2>1. PICK i \in DOMAIN q2 : q2[i].kind = k /\ q2[i].node = n
    BY DEF NodesOf
  <2>2. CASE i \in DOMAIN q
    BY <1>2, <2>1, <2>2 DEF NodesOf
  <2>3. CASE i - Len(q) \in DOMAIN t /\ q2[i] = t[i - Len(q)]
    BY <1>3, <2>1, <2>3 DEF ToSet
  <2>4. QED
    BY <1>2, <2>2, <2>3
<1>8. ASSUME Single(q, kind), Distinct(ns), ToSet(ns) \cap NodesOf(q, kind) = {}
      PROVE  Single(q2, kind)
  <2> SUFFICES ASSUME NEW i \in DOMAIN q2, NEW j \in DOMAIN q2,
                      q2[i].kind = kind, q2[j].kind = kind, q2[i].node = q2[j].node
               PROVE  i = j
    BY DEF Single
  <2>1. CASE i \in DOMAIN q /\ j \in DOMAIN q
    BY <1>2, <1>8, <2>1 DEF Single
  <2>2. ASSUME i \notin DOMAIN q, j \notin DOMAIN q PROVE i = j
    <3>1. i - Len(q) \in DOMAIN t /\ j - Len(q) \in DOMAIN t
          /\ q2[i] = t[i - Len(q)] /\ q2[j] = t[j - Len(q)]
      BY <1>2, <2>2
    <3>2. ns[i - Len(q)] = ns[j - Len(q)] /\ i - Len(q) \in DOMAIN ns /\ j - Len(q) \in DOMAIN ns
      BY <1>3, <3>1
    <3>3. i - Len(q) = j - Len(q)
      BY <1>8, <3>2 DEF Distinct
    <3>4. QED
      BY <1>2, <3>3
  <2>3. ASSUME NEW a \in DOMAIN q2, NEW b \in DOMAIN q2, a \in DOMAIN q, b \notin DOMAIN q,
               q2[a].kind = kind, q2[a].node = q2[b].node
        PROVE  FALSE
    <3>1. q2[a].node \in NodesOf(q, kind)
      BY <1>2, <2>3 DEF NodesOf
    <3>2. b - Len(q) \in DOMAIN t /\ q2[b] = t[b - Len(q)]
      BY <1>2, <2>3
    <3>3. q2[b].node \in ToSet(ns)
      BY <1>3, <3>2 DEF ToSet
    <3>4. QED
      BY <1>8, <2>3, <3>1, <3>3
  <2>4. /\ i \in DOMAIN q \/ i \notin DOMAIN q
        /\ j \in DOMAIN q \/ j \notin DOMAIN q
    OBVIOUS
  <2>5. ~(i \in DOMAIN q /\ j \notin DOMAIN q)
    BY <2>3
  <2>6. ~(j \in DOMAIN q /\ i \notin DOMAIN q)
    BY <2>3
  <2>7. QED
    BY <2>1, <2>2, <2>4, <2>5, <2>6
<1>9. NodesOf(q2, kind) = NodesOf(q, kind) \cup ToSet(ns)
  BY <1>5, <1>6, <1>7
<1>10. ASSUME NEW other, other # kind PROVE NodesOf(q2, other) = NodesOf(q, other)
  BY <1>5, <1>7, <1>10
<1>11. QED
  BY <1>8, <1>9, <1>10
=============================================================================
