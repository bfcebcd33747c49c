-------------------------- MODULE BoundedMemoryProofs --------------------------
(***************************************************************************)
(* Theorems about the two memories that are kept within a limit of bytes:  *)
(* the cache of the semantic model's answers, with the invocation that     *)
(* fills it, and the store of the spans that a probed agent exports.       *)
(*                                                                         *)
(* Of an invocation (SemanticPipeline), for any records, operators, saved  *)
(* augmentations, cache limits and answers: where it stands bounds the     *)
(* calls of each kind made for the record at hand, and every kind was      *)
(* planned for the fresh records; the total of the cache follows the four  *)
(* ways it changes; what is left of a candidate's checks can only clear    *)
(* the doubts about its meaning; and an arm of trials is stable if it has  *)
(* a single outcome.                                                       *)
(*                                                                         *)
(* Of the receiver (TraceStore), for any payloads, requests and limits:    *)
(* the last version of every accepted span is in the store, too old, or    *)
(* was taken; and every refused name has a mark, or its refusals may be    *)
(* forgotten: the marks are in the order of the last refusals, so when     *)
(* the first goes, as many other names as there may be marks were refused  *)
(* after it.                                                               *)
(*                                                                         *)
(* Totals, and what is left of a sequence, are recursive functions; that   *)
(* they are defined and what they give needs an induction, which the       *)
(* pigeonhole principle provides (Climbing).                               *)
(***************************************************************************)
EXTENDS SemanticPipeline, TraceStore, FiniteSetTheorems, SequenceTheorems, TLAPS

(***************************************************************************)
(* Induction up to n: if n were not reached, one more than every number    *)
(* that is would map those from 0 on into those from 1 on.                 *)
(***************************************************************************)
LEMMA Climbing ==
    ASSUME NEW n \in Nat, NEW S, 0 \in S, \A i \in 0 .. n : i \in S /\ i < n => i + 1 \in S
    PROVE  n \in S
  <1> SUFFICES ASSUME n \notin S PROVE FALSE
    OBVIOUS
  <1> DEFINE T == {i \in 0 .. n : i \in S}
             f == [i \in T |-> i + 1]
  <1>1. T \subseteq 0 .. n /\ 0 \in T
    OBVIOUS
  <1>2. IsFiniteSet(T)
    <2>1. IsFiniteSet(0 .. n)
      BY FS_Interval
    <2> HIDE DEF T
    <2> QED BY <1>1, <2>1, FS_Subset
  <1>3. IsFiniteSet(T \ {0}) /\ Cardinality(T \ {0}) < Cardinality(T)
    <2> HIDE DEF T
    <2>1. Cardinality(T) \in Nat
      BY <1>2, FS_CardinalityType
    <2>2. IsFiniteSet(T \ {0}) /\ Cardinality(T \ {0}) = Cardinality(T) - 1
      BY <1>1, <1>2, FS_RemoveElement
    <2> QED BY <2>1, <2>2
  <1>4. f \in [T -> T \ {0}]
    <2> SUFFICES ASSUME NEW i \in T PROVE i + 1 \in T \ {0}
      OBVIOUS
    <2> QED OBVIOUS
  <1>5. PICK x, y \in T : x # y /\ f[x] = f[y]
    <2> HIDE DEF T, f
    <2> QED BY <1>2, <1>3, <1>4, FS_PigeonHole
  <1> QED BY <1>5

(* The least of some numbers, up to n of which there is one.               *)
LEMMA Least ==
    ASSUME NEW S \in SUBSET Nat, NEW n \in S
    PROVE  \E m \in S : m <= n /\ \A k \in 0 .. m - 1 : k \notin S
  <1> SUFFICES ASSUME \A m \in S : m <= n => \E k \in 0 .. m - 1 : k \in S PROVE FALSE
    OBVIOUS
  <1> DEFINE Free == {i \in 0 .. n : \A k \in 0 .. i : k \notin S}
  <1>1. 0 \in Free
    OBVIOUS
  <1>2. ASSUME NEW i \in 0 .. n, i \in Free, i < n PROVE i + 1 \in Free
    <2>1. i + 1 \in S => \E k \in 0 .. i : k \in S
      BY <1>2
    <2>2. \A k \in 0 .. i + 1 : k \in 0 .. i \/ k = i + 1
      OBVIOUS
    <2> QED BY <1>2, <2>1, <2>2
  <1>3. n \in Nat
    OBVIOUS
  <1> HIDE DEF Free
  <1>4. n \in Free
    BY <1>1, <1>2, <1>3, Climbing
  <1> QED BY <1>4 DEF Free

(***************************************************************************)
(* Totals: the recursion defines a function, and what it adds up to.       *)
(***************************************************************************)
IsSums(f, a, n) == f = [m \in 0 .. n |-> IF m = 0 THEN 0 ELSE f[m - 1] + a[m]]

LEMMA SumsExist ==
    ASSUME NEW N \in Nat, NEW a
    PROVE  \E f : IsSums(f, a, N)
  <1> DEFINE S == {m \in 0 .. N : \E f : IsSums(f, a, m)}
  <1>1. 0 \in S
    <2>1. IsSums([n \in 0 .. 0 |-> 0], a, 0)
      BY DEF IsSums
    <2> QED BY <2>1
  <1>2. ASSUME NEW m \in 0 .. N, m \in S, m < N PROVE m + 1 \in S
    <2>1. PICK f : IsSums(f, a, m)
      BY <1>2
    <2> DEFINE g == [n \in 0 .. m + 1 |-> IF n = m + 1 THEN f[m] + a[m + 1] ELSE f[n]]
    <2>2. ASSUME NEW n \in 0 .. m + 1
          PROVE  g[n] = IF n = 0 THEN 0 ELSE g[n - 1] + a[n]
      <3>1. CASE n = m + 1
        BY <3>1
      <3>2. CASE n \in 0 .. m
        BY <2>1, <3>2 DEF IsSums
      <3> QED BY <3>1, <3>2
    <2>3. IsSums(g, a, m + 1)
      BY <2>2 DEF IsSums
    <2> HIDE DEF g
    <2> QED BY <1>2, <2>3
  <1> HIDE DEF S
  <1>3. N \in S
    BY <1>1, <1>2, Climbing
  <1> QED BY <1>3 DEF S

LEMMA TotalIs ==
    ASSUME NEW a, Len(a) \in Nat
    PROVE  \E f : IsSums(f, a, Len(a)) /\ Total(a) = f[Len(a)]
  <1> DEFINE f == CHOOSE f : IsSums(f, a, Len(a))
  <1>1. Total(a) = f[Len(a)]
    BY DEF Total, IsSums
  <1>2. IsSums(f, a, Len(a))
    BY SumsExist
  <1> QED BY <1>1, <1>2

LEMMA SumsAreNat ==
    ASSUME NEW n \in Nat, NEW a, \A i \in 1 .. n : a[i] \in Nat, NEW f, IsSums(f, a, n)
    PROVE  \A m \in 0 .. n : f[m] \in Nat
  <1> SUFFICES ASSUME NEW m \in 0 .. n PROVE f[m] \in Nat
    OBVIOUS
  <1> DEFINE S == {i \in 0 .. n : f[i] \in Nat}
  <1>1. 0 \in S
    BY DEF IsSums
  <1>2. ASSUME NEW i \in 0 .. m, i \in S, i < m PROVE i + 1 \in S
    <2>1. f[i + 1] = f[i] + a[i + 1]
      BY <1>2 DEF IsSums
    <2> QED BY <1>2, <2>1
  <1> HIDE DEF S
  <1>3. m \in S
    BY <1>1, <1>2, Climbing
  <1> QED BY <1>3 DEF S

LEMMA TotalIsNat ==
    ASSUME NEW a, Len(a) \in Nat, \A i \in 1 .. Len(a) : a[i] \in Nat
    PROVE  Total(a) \in Nat
  <1>1. PICK f : IsSums(f, a, Len(a)) /\ Total(a) = f[Len(a)]
    BY TotalIs
  <1>2. f[Len(a)] \in Nat
    BY <1>1, SumsAreNat
  <1> QED BY <1>1, <1>2

LEMMA TotalSplits ==
    ASSUME NEW a, NEW b, NEW c, Len(a) \in Nat, Len(b) \in Nat,
           \A i \in 1 .. Len(a) : a[i] \in Nat, \A i \in 1 .. Len(b) : b[i] \in Nat,
           Len(c) = Len(a) + Len(b),
           \A i \in 1 .. Len(a) : c[i] = a[i],
           \A i \in 1 .. Len(b) : c[Len(a) + i] = b[i]
    PROVE  Total(c) = Total(a) + Total(b)
  <1>1. PICK f : IsSums(f, a, Len(a)) /\ Total(a) = f[Len(a)]
    BY TotalIs
  <1>2. PICK g : IsSums(g, b, Len(b)) /\ Total(b) = g[Len(b)]
    BY TotalIs
  <1>0. Len(c) \in Nat
    OBVIOUS
  <1>3. PICK h : IsSums(h, c, Len(c)) /\ Total(c) = h[Len(c)]
    BY <1>0, TotalIs
  <1>4. /\ \A m \in 0 .. Len(a) : f[m] \in Nat
        /\ \A m \in 0 .. Len(b) : g[m] \in Nat
    BY <1>1, <1>2, SumsAreNat
  <1>5. h[Len(a)] = f[Len(a)]
    <2> DEFINE S == {i \in 0 .. Len(a) : h[i] = f[i]}
    <2>1. 0 \in S
      BY <1>1, <1>3 DEF IsSums
    <2>2. ASSUME NEW i \in 0 .. Len(a), i \in S, i < Len(a) PROVE i + 1 \in S
      <3>1. f[i + 1] = f[i] + a[i + 1] /\ h[i + 1] = h[i] + c[i + 1]
        BY <1>1, <1>3, <2>2 DEF IsSums
      <3> QED BY <2>2, <3>1
    <2> HIDE DEF S
    <2>3. Len(a) \in S
      BY <2>1, <2>2, Climbing
    <2> QED BY <2>3 DEF S
  <1>6. h[Len(a) + Len(b)] = f[Len(a)] + g[Len(b)]
    <2> DEFINE S == {i \in 0 .. Len(b) : h[Len(a) + i] = f[Len(a)] + g[i]}
    <2>1. 0 \in S
      <3>1. g[0] = 0 /\ f[Len(a)] \in Nat
        BY <1>2, <1>4 DEF IsSums
      <3> QED BY <1>5, <3>1
    <2>2. ASSUME NEW i \in 0 .. Len(b), i \in S, i < Len(b) PROVE i + 1 \in S
      <3>1. /\ g[i + 1] = g[i] + b[i + 1]
            /\ h[Len(a) + (i + 1)] = h[Len(a) + i] + c[Len(a) + (i + 1)]
        BY <1>2, <1>3, <2>2 DEF IsSums
      <3>2. c[Len(a) + (i + 1)] = b[i + 1] /\ b[i + 1] \in Nat
        BY <2>2
      <3>3. f[Len(a)] \in Nat /\ g[i] \in Nat
        BY <1>4, <2>2
      <3>4. h[Len(a) + i] = f[Len(a)] + g[i]
        BY <2>2
      <3>5. h[Len(a) + (i + 1)] = f[Len(a)] + g[i + 1]
        BY <3>1, <3>2, <3>3, <3>4
      <3> QED BY <2>2, <3>5
    <2> HIDE DEF S
    <2>3. Len(b) \in S
      BY <2>1, <2>2, Climbing
    <2> QED BY <2>3 DEF S
  <1> QED BY <1>1, <1>2, <1>3, <1>6

LEMMA TotalOfOne ==
    ASSUME NEW a, Len(a) = 1, a[1] \in Nat
    PROVE  Total(a) = a[1]
  <1>1. PICK f : IsSums(f, a, Len(a)) /\ Total(a) = f[Len(a)]
    BY TotalIs, Len(a) \in Nat
  <1> QED BY <1>1 DEF IsSums

LEMMA TotalOfNone == Total(<<>>) = 0
  <1>0. Len(<<>>) = 0
    OBVIOUS
  <1>1. PICK f : IsSums(f, <<>>, 0) /\ Total(<<>>) = f[0]
    <2>1. PICK f : IsSums(f, <<>>, Len(<<>>)) /\ Total(<<>>) = f[Len(<<>>)]
      BY <1>0, TotalIs
    <2> QED BY <1>0, <2>1
  <1> QED BY <1>1 DEF IsSums
-----------------------------------------------------------------------------
(***************************************************************************)
(* The sizes of what is kept in an order.                                  *)
(***************************************************************************)
AreSized(E) == \A e \in E : e.size \in Nat
SizesOf(entries) == [i \in DOMAIN entries |-> entries[i].size]

LEMMA SizesAreNumbers ==
    ASSUME NEW E, AreSized(E), NEW s \in Seq(E)
    PROVE  /\ Len(s) \in Nat /\ DOMAIN s = 1 .. Len(s)
           /\ Len(SizesOf(s)) = Len(s)
           /\ \A i \in 1 .. Len(s) : SizesOf(s)[i] = s[i].size /\ s[i].size \in Nat
           /\ SumOfSizes(s) \in Nat
  <1>1. Len(s) \in Nat /\ DOMAIN s = 1 .. Len(s) /\ s \in [1 .. Len(s) -> E]
    BY LenProperties
  <1>2. \A i \in 1 .. Len(s) : s[i].size \in Nat
    BY <1>1 DEF AreSized
  <1>3. SizesOf(s) \in [1 .. Len(s) -> Nat]
    BY <1>1, <1>2 DEF SizesOf
  <1>4. SizesOf(s) \in Seq(Nat) /\ Len(SizesOf(s)) = Len(s)
    <2> HIDE DEF SizesOf
    <2>1. SizesOf(s) \in Seq(Nat)
      BY <1>1, <1>3
    <2> QED BY <1>1, <1>3, <2>1, LenProperties
  <1>5. \A i \in 1 .. Len(s) : SizesOf(s)[i] = s[i].size
    BY <1>1 DEF SizesOf
  <1>6. Total(SizesOf(s)) \in Nat
    BY <1>1, <1>2, <1>4, <1>5, TotalIsNat
  <1>7. SumOfSizes(s) = Total(SizesOf(s))
    BY DEF SumOfSizes, SizesOf
  <1> QED BY <1>1, <1>2, <1>4, <1>5, <1>6, <1>7

LEMMA SumOfConcat ==
    ASSUME NEW E, AreSized(E), NEW s \in Seq(E), NEW t \in Seq(E)
    PROVE  SumOfSizes(s \o t) = SumOfSizes(s) + SumOfSizes(t)
  <1>1. /\ s \o t \in Seq(E) /\ Len(s \o t) = Len(s) + Len(t)
        /\ \A i \in 1 .. Len(s) + Len(t) :
               (s \o t)[i] = IF i <= Len(s) THEN s[i] ELSE t[i - Len(s)]
    BY ConcatProperties
  <1> DEFINE a == SizesOf(s)
             b == SizesOf(t)
             c == SizesOf(s \o t)
  <1>2. /\ Len(s) \in Nat /\ Len(t) \in Nat
        /\ Len(a) = Len(s) /\ Len(b) = Len(t) /\ Len(c) = Len(s \o t)
        /\ \A i \in 1 .. Len(s) : a[i] = s[i].size /\ a[i] \in Nat
        /\ \A i \in 1 .. Len(t) : b[i] = t[i].size /\ b[i] \in Nat
        /\ \A i \in 1 .. Len(s \o t) : c[i] = (s \o t)[i].size
    <2>1. Len(s) \in Nat /\ Len(a) = Len(s) /\ \A i \in 1 .. Len(s) : a[i] = s[i].size /\ a[i] \in Nat
      BY SizesAreNumbers
    <2>2. Len(t) \in Nat /\ Len(b) = Len(t) /\ \A i \in 1 .. Len(t) : b[i] = t[i].size /\ b[i] \in Nat
      BY SizesAreNumbers
    <2>3. Len(c) = Len(s \o t) /\ \A i \in 1 .. Len(s \o t) : c[i] = (s \o t)[i].size
      BY <1>1, SizesAreNumbers
    <2> QED BY <2>1, <2>2, <2>3
  <1> HIDE DEF a, b, c
  <1>3. Len(c) = Len(a) + Len(b)
    BY <1>1, <1>2
  <1>4. \A i \in 1 .. Len(a) : c[i] = a[i]
    BY <1>1, <1>2
  <1>5. \A i \in 1 .. Len(b) : c[Len(a) + i] = b[i]
    <2> SUFFICES ASSUME NEW i \in 1 .. Len(t) PROVE c[Len(s) + i] = b[i]
      BY <1>2
    <2>1. Len(s) + i \in 1 .. Len(s) + Len(t) /\ ~(Len(s) + i <= Len(s)) /\ Len(s) + i - Len(s) = i
      BY <1>2
    <2>2. (s \o t)[Len(s) + i] = t[i]
      BY <1>1, <2>1
    <2> QED BY <1>1, <1>2, <2>1, <2>2
  <1>6. Total(c) = Total(a) + Total(b)
    BY <1>2, <1>3, <1>4, <1>5, TotalSplits
  <1> QED BY <1>6 DEF SumOfSizes, SizesOf, a, b, c

LEMMA SumOfOne ==
    ASSUME NEW E, AreSized(E), NEW e \in E
    PROVE  <<e>> \in Seq(E) /\ Len(<<e>>) = 1 /\ SumOfSizes(<<e>>) = e.size
  <1>1. <<e>> \in Seq(E) /\ Len(<<e>>) = 1 /\ <<e>>[1] = e
    OBVIOUS
  <1>2. Len(SizesOf(<<e>>)) = 1 /\ SizesOf(<<e>>)[1] = e.size /\ e.size \in Nat
    <2>1. PICK one \in Seq(E) : one = <<e>>
      BY <1>1
    <2>2. /\ Len(SizesOf(one)) = Len(one)
          /\ \A i \in 1 .. Len(one) : SizesOf(one)[i] = one[i].size /\ one[i].size \in Nat
      BY SizesAreNumbers
    <2>3. Len(one) = 1 /\ one[1] = e
      BY <1>1, <2>1
    <2>4. SizesOf(one)[1] = e.size /\ e.size \in Nat
      BY <2>2, <2>3
    <2> QED BY <2>1, <2>2, <2>3, <2>4
  <1>3. Total(SizesOf(<<e>>)) = e.size
    BY <1>2, TotalOfOne
  <1> QED BY <1>1, <1>3 DEF SumOfSizes, SizesOf

LEMMA SumOfAppend ==
    ASSUME NEW E, AreSized(E), NEW s \in Seq(E), NEW e \in E
    PROVE  /\ Append(s, e) \in Seq(E)
           /\ SumOfSizes(Append(s, e)) = SumOfSizes(s) + e.size
  <1>1. Append(s, e) = s \o <<e>>
    BY AppendIsConcat
  <1>2. Append(s, e) \in Seq(E)
    BY AppendProperties
  <1> QED BY <1>1, <1>2, SumOfOne, SumOfConcat

(* A cache is what goes first and what stays.                              *)
LEMMA SumOfParts ==
    ASSUME NEW E, AreSized(E), NEW s \in Seq(E), NEW n \in 0 .. Len(s)
    PROVE  /\ SubSeq(s, 1, n) \in Seq(E) /\ Len(SubSeq(s, 1, n)) = n
           /\ SubSeq(s, n + 1, Len(s)) \in Seq(E)
           /\ Len(SubSeq(s, n + 1, Len(s))) = Len(s) - n
           /\ \A i \in 1 .. n : SubSeq(s, 1, n)[i] = s[i]
           /\ \A i \in 1 .. Len(s) - n : SubSeq(s, n + 1, Len(s))[i] = s[n + i]
           /\ SumOfSizes(SubSeq(s, 1, n)) + SumOfSizes(SubSeq(s, n + 1, Len(s))) = SumOfSizes(s)
  <1>1. Len(s) \in Nat /\ \A i \in 1 .. Len(s) : s[i] \in E
    BY LenProperties, ElementOfSeq
  <1>2. /\ SubSeq(s, 1, n) \in Seq(E)
        /\ Len(SubSeq(s, 1, n)) = IF 1 <= n THEN n - 1 + 1 ELSE 0
        /\ \A i \in 1 .. n - 1 + 1 : SubSeq(s, 1, n)[i] = s[1 + i - 1]
    <2>1. 1 \in Int /\ n \in Int /\ \A i \in 1 .. n : s[i] \in E
      BY <1>1
    <2> QED BY <2>1, SubSeqProperties
  <1>3. /\ SubSeq(s, n + 1, Len(s)) \in Seq(E)
        /\ Len(SubSeq(s, n + 1, Len(s))) = IF n + 1 <= Len(s) THEN Len(s) - (n + 1) + 1 ELSE 0
        /\ \A i \in 1 .. Len(s) - (n + 1) + 1 :
               SubSeq(s, n + 1, Len(s))[i] = s[n + 1 + i - 1]
    <2>1. n + 1 \in Int /\ Len(s) \in Int /\ \A i \in n + 1 .. Len(s) : s[i] \in E
      BY <1>1
    <2> QED BY <2>1, SubSeqProperties
  <1>4. SubSeq(s, 1, n) \o SubSeq(s, n + 1, Len(s)) = s
    <2>1. SubSeq(s, 1, n) \o SubSeq(s, n + 1, Len(s)) = SubSeq(s, 1, Len(s))
      <3>1. 1 \in 1 .. Len(s) + 1 /\ n \in 1 - 1 .. Len(s) /\ Len(s) \in n .. Len(s)
        BY <1>1
      <3> QED BY <3>1, ConcatAdjacentSubSeq
    <2> QED BY <2>1, SubSeqFull
  <1>5. SumOfSizes(SubSeq(s, 1, n)) + SumOfSizes(SubSeq(s, n + 1, Len(s))) = SumOfSizes(s)
    BY <1>2, <1>3, <1>4, SumOfConcat
  <1>6. Len(SubSeq(s, 1, n)) = n /\ Len(SubSeq(s, n + 1, Len(s))) = Len(s) - n
    BY <1>1, <1>2, <1>3
  <1>7. \A i \in 1 .. n : SubSeq(s, 1, n)[i] = s[i]
    BY <1>1, <1>2
  <1>8. \A i \in 1 .. Len(s) - n : SubSeq(s, n + 1, Len(s))[i] = s[n + i]
    BY <1>1, <1>3
  <1> QED BY <1>2, <1>3, <1>5, <1>6, <1>7, <1>8

LEMMA SumWithout ==
    ASSUME NEW E, AreSized(E), NEW s \in Seq(E), NEW i \in 1 .. Len(s)
    PROVE  /\ RemoveAt(s, i) \in Seq(E)
           /\ Len(RemoveAt(s, i)) = Len(s) - 1
           /\ \A j \in 1 .. Len(s) - 1 : RemoveAt(s, i)[j] = IF j < i THEN s[j] ELSE s[j + 1]
           /\ SumOfSizes(RemoveAt(s, i)) + s[i].size = SumOfSizes(s)
  <1>0. Len(s) \in Nat /\ s[i] \in E
    BY LenProperties, ElementOfSeq
  <1> DEFINE head == SubSeq(s, 1, i - 1)
             tail == SubSeq(s, i + 1, Len(s))
             rest == SubSeq(s, i, Len(s))
  <1>1. /\ head \in Seq(E) /\ Len(head) = i - 1
        /\ \A j \in 1 .. i - 1 : head[j] = s[j]
        /\ SumOfSizes(head) + SumOfSizes(rest) = SumOfSizes(s)
    <2>1. i - 1 \in 0 .. Len(s) /\ i - 1 + 1 = i
      BY <1>0
    <2> QED BY <2>1, SumOfParts
  <1>2. /\ tail \in Seq(E) /\ Len(tail) = Len(s) - i
        /\ \A j \in 1 .. Len(s) - i : tail[j] = s[i + j]
    BY <1>0, SumOfParts
  <1>3. rest = <<s[i]>> \o tail
    <2>1. Len(s) \in i .. Len(s)
      BY <1>0
    <2> QED BY <2>1, SubSeqRecursiveFirst
  <1>4. SumOfSizes(rest) = s[i].size + SumOfSizes(tail)
    <2> HIDE DEF tail, rest
    <2>1. PICK one \in Seq(E) : one = <<s[i]>> /\ SumOfSizes(one) = s[i].size
      BY <1>0, SumOfOne
    <2>2. tail \in Seq(E) /\ rest = one \o tail
      BY <1>2, <1>3, <2>1
    <2> QED BY <2>1, <2>2, SumOfConcat
  <1>5. RemoveAt(s, i) = head \o tail
    BY DEF RemoveAt
  <1> HIDE DEF head, tail, rest
  <1>6. /\ RemoveAt(s, i) \in Seq(E)
        /\ Len(RemoveAt(s, i)) = Len(head) + Len(tail)
        /\ \A j \in 1 .. Len(head) + Len(tail) :
               RemoveAt(s, i)[j] = IF j <= Len(head) THEN head[j] ELSE tail[j - Len(head)]
    <2>1. head \in Seq(E) /\ tail \in Seq(E)
      BY <1>1, <1>2
    <2> QED BY <1>5, <2>1, ConcatProperties
  <1>7. \A j \in 1 .. Len(s) - 1 : RemoveAt(s, i)[j] = IF j < i THEN s[j] ELSE s[j + 1]
    <2> SUFFICES ASSUME NEW j \in 1 .. Len(s) - 1
                 PROVE  RemoveAt(s, i)[j] = IF j < i THEN s[j] ELSE s[j + 1]
      OBVIOUS
    <2>1. j \in 1 .. Len(head) + Len(tail)
      BY <1>0, <1>1, <1>2
    <2>2. CASE j < i
      BY <1>0, <1>1, <1>6, <2>1, <2>2
    <2>3. CASE ~(j < i)
      <3>1. j - Len(head) \in 1 .. Len(s) - i /\ i + (j - Len(head)) = j + 1 /\ ~(j <= Len(head))
        BY <1>0, <1>1, <2>3
      <3>2. tail[j - Len(head)] = s[j + 1]
        BY <1>2, <3>1
      <3> QED BY <1>6, <2>1, <2>3, <3>1, <3>2
    <2> QED BY <2>2, <2>3
  <1>8. SumOfSizes(RemoveAt(s, i)) = SumOfSizes(head) + SumOfSizes(tail)
    BY <1>1, <1>2, <1>5, SumOfConcat
  <1>9. SumOfSizes(head) \in Nat /\ SumOfSizes(tail) \in Nat /\ s[i].size \in Nat
    BY <1>0, <1>1, <1>2, SizesAreNumbers DEF AreSized
  <1>10. SumOfSizes(RemoveAt(s, i)) + s[i].size = SumOfSizes(s)
    BY <1>1, <1>4, <1>8, <1>9
  <1>11. Len(RemoveAt(s, i)) = Len(s) - 1
    BY <1>0, <1>1, <1>2, <1>6
  <1> QED BY <1>6, <1>7, <1>10, <1>11
-----------------------------------------------------------------------------
(***************************************************************************)
(*                        AN INVOCATION OF THE PIPELINE                    *)
(***************************************************************************)

Early == {"preflight", "source"}
Writing == {"operator", "retry", "reparse", "verify"}
Late == {"original", "variations", "ended"}

(***************************************************************************)
(* The calls a record may have cost where the invocation stands.           *)
(***************************************************************************)
Work == {"source", "candidate", "verify", "generation", "retries"}

Before == [candidate |-> {"operator", "retry", "reparse"}, verify |-> Writing,
           generation |-> {"operator"}, retries |-> {"operator", "retry"}]

Past(kind, st, op) ==
    IF st \in Early THEN 0
    ELSE IF st \in Late THEN Len(Operators)
    ELSE IF st \in Before[kind] THEN op - 1 ELSE op

LlmUpTo(n) == {i \in 1 .. n : Operators[i].llm}

Used(kind, st, op) ==
    IF kind = "source" THEN IF st \in Early THEN 0 ELSE 1
    ELSE IF kind \in {"candidate", "verify"} THEN Past(kind, st, op)
    ELSE Cardinality(LlmUpTo(Past(kind, st, op)))

Share(kind) == Used(kind, "ended", 1)

FreshUpTo(n) == {r \in 1 .. n : ~IsSaved(r)}
VariationsUpTo(n) == Total([r \in 1 .. n |-> PlannedVariations(r)])

WorkOK ==
    \A k \in Work : made[k] <= Cardinality(FreshUpTo(record - 1)) * Share(k)
                              + (IF IsSaved(record) THEN 0 ELSE Used(k, stage, operator))
PreflightOK ==
    /\ made.preflight <= Planned.preflight
    /\ stage = "preflight" /\ plan.preflight => made.preflight < Planned.preflight
MaterialityOK ==
    made.materiality <= IF stage = "ended" THEN VariationsUpTo(record)
                        ELSE VariationsUpTo(record - 1) + Cardinality(tested)

CallsOK == WorkOK /\ PreflightOK /\ MaterialityOK

(***************************************************************************)
(* Where the invocation stands.                                            *)
(***************************************************************************)
PlaceOK ==
    /\ plan \in Plans
    /\ stage \in Early \cup Writing \cup Late
    /\ record \in DOMAIN Inputs /\ operator \in Positions
    /\ made \in [Kinds -> Nat]
    /\ stage \in Early => operator = 1
    /\ stage \in Writing => ~IsSaved(record)
    /\ stage = "retry" => Op.llm
    /\ stage = "verify" => ~Op.corrects /\ draft.frame \in {"none"} \cup Frames
    /\ draft = [text |-> draft.text, frame |-> draft.frame, reasons |-> draft.reasons]

(***************************************************************************)
(* The cache.                                                              *)
(***************************************************************************)
IsCache(entries) ==
    /\ \E K, A : entries \in Seq([key : K, answer : A, size : Nat])
    /\ \A i, j \in DOMAIN entries : entries[i].key = entries[j].key => i = j

CacheOK ==
    /\ IsCache(cache)
    /\ bytes = SumOfSizes(cache) /\ bytes <= MaxBytes /\ Len(cache) <= MaxEntries
    /\ \A i \in DOMAIN cache : cache[i].answer \notin Failures

(***************************************************************************)
(* The candidates of the record at hand.                                   *)
(***************************************************************************)
OperatorsOf(made_) == {made_[i].operator : i \in DOMAIN made_}

IsEarned(made_) ==
    /\ \E C : made_ \in Seq(C)
    /\ \A i \in DOMAIN made_ :
           /\ made_[i].operator \in Positions
           /\ made_[i].passed =>
                  PassedIsEarned(made_[i], Operators[made_[i].operator],
                                 Range(SubSeq(made_, 1, i - 1)))

CandidatesOK ==
    /\ IsEarned(candidates) /\ skips \subseteq Positions
    /\ stage \in Early => candidates = <<>> /\ skips = {}
    /\ stage \in Writing => skips \cup OperatorsOf(candidates) = 1 .. operator - 1
    /\ stage \in {"original", "variations"} /\ ~IsSaved(record) =>
           /\ skips \cup OperatorsOf(candidates) = Positions
           /\ \A i \in DOMAIN candidates : candidates[i].passed => candidates[i].frame # "none"

(***************************************************************************)
(* The trials of the record at hand.                                       *)
(***************************************************************************)
TrialsOK ==
    /\ tested \subseteq PassedOperators
    /\ stage # "variations" => original = <<>> /\ tested = {} /\ case = NoCase
    /\ stage = "variations" => original \in TrialSets
    /\ case # NoCase => VerdictIsEarned

PipelineInv == PlaceOK /\ CallsOK /\ CacheOK /\ CandidatesOK /\ TrialsOK
-----------------------------------------------------------------------------
(***************************************************************************)
(* The four ways the cache changes.                                        *)
(***************************************************************************)
Records(K, A) == [key : K, answer : A, size : Nat]

Sound(m) ==
    /\ IsCache(m.cache)
    /\ m.bytes = SumOfSizes(m.cache) /\ m.bytes <= MaxBytes /\ Len(m.cache) <= MaxEntries

\* What is not a failure, or is the answer to that request.
Accepted(entries, key) ==
    \A i \in DOMAIN entries : entries[i].answer \in Failures => entries[i].key = key

LEMMA Limits == MaxEntries \in Nat /\ MaxBytes \in Nat
  BY LimitsAreNat

LEMMA RecordsAreSized == \A K, A : AreSized(Records(K, A))
  BY DEF AreSized, Records

LEMMA CacheIsTyped ==
    ASSUME NEW s, IsCache(s)
    PROVE  \E K, A : s \in Seq(Records(K, A))
  BY DEF IsCache, Records

LEMMA StoredIsSound ==
    ASSUME CacheOK, NEW key, NEW answer, NEW size \in Nat, PlacesOf(key, cache) = {}
    PROVE  /\ Sound(Stored(key, answer, size))
           /\ Accepted(Stored(key, answer, size).cache, key)
           /\ answer \notin Failures => \A k : Accepted(Stored(key, answer, size).cache, k)
  <1>1. PICK K, A : cache \in Seq(Records(K, A))
    BY CacheIsTyped DEF CacheOK
  <1> DEFINE entry == [key |-> key, answer |-> answer, size |-> size]
  <1>2. PICK E : /\ AreSized(E) /\ cache \in Seq(E) /\ entry \in E
                 /\ \E L, B : E = Records(L, B)
    <2>1. Records(K, A) \subseteq Records(K \cup {key}, A \cup {answer})
      BY DEF Records
    <2>2. entry \in Records(K \cup {key}, A \cup {answer})
      BY DEF Records
    <2> HIDE DEF entry
    <2> QED BY <1>1, <2>1, <2>2, SeqMonotonic, RecordsAreSized
  <1>3. PICK grown : grown = Append(cache, entry)
    OBVIOUS
  <1>4. /\ grown \in Seq(E) /\ Len(grown) = Len(cache) + 1
        /\ \A i \in 1 .. Len(cache) : grown[i] = cache[i]
        /\ grown[Len(cache) + 1] = entry
    <2> HIDE DEF entry
    <2> QED BY <1>2, <1>3, AppendProperties
  <1>5. SumOfSizes(grown) = bytes + size /\ bytes \in Nat
    <2>1. SumOfSizes(grown) = SumOfSizes(cache) + entry.size
      <3> HIDE DEF entry
      <3> QED BY <1>2, <1>3, SumOfAppend
    <2>2. SumOfSizes(cache) \in Nat
      BY <1>2, SizesAreNumbers
    <2>3. bytes = SumOfSizes(cache)
      BY DEF CacheOK
    <2> QED BY <2>1, <2>2, <2>3
  <1>6. Len(cache) \in Nat /\ DOMAIN cache = 1 .. Len(cache) /\ DOMAIN grown = 1 .. Len(grown)
    BY <1>2, <1>4, LenProperties
  <1>7. \A i, j \in DOMAIN grown : grown[i].key = grown[j].key => i = j
    <2>1. \A i \in 1 .. Len(cache) : grown[i].key # key
      BY <1>4, <1>6 DEF PlacesOf
    <2>2. entry.key = key
      OBVIOUS
    <2>3. \A i, j \in 1 .. Len(cache) : grown[i].key = grown[j].key => i = j
      BY <1>4, <1>6 DEF CacheOK, IsCache
    <2>4. \A i \in DOMAIN grown : i \in 1 .. Len(cache) \/ i = Len(cache) + 1
      BY <1>4, <1>6
    <2> HIDE DEF entry
    <2> QED BY <1>4, <2>1, <2>2, <2>3, <2>4
  <1>8. \A i \in DOMAIN grown :
            grown[i].answer \in Failures => grown[i].key = key /\ answer \in Failures
    <2>1. \A i \in 1 .. Len(cache) : grown[i].answer \notin Failures
      BY <1>4, <1>6 DEF CacheOK
    <2>2. entry.key = key /\ entry.answer = answer
      OBVIOUS
    <2>3. \A i \in DOMAIN grown : i \in 1 .. Len(cache) \/ i = Len(cache) + 1
      BY <1>4, <1>6
    <2> HIDE DEF entry
    <2> QED BY <1>4, <2>1, <2>2, <2>3
  <1> DEFINE Fits(n) == /\ Len(grown) - n <= MaxEntries
                        /\ bytes + size - SumOfSizes(SubSeq(grown, 1, n)) <= MaxBytes
             Least1(n) == Fits(n) /\ \A k \in 0 .. n - 1 : ~Fits(k)
             evicted == CHOOSE n \in 0 .. Len(grown) : Least1(n)
             rest == SubSeq(grown, evicted + 1, Len(grown))
             after == [cache |-> rest, bytes |-> bytes + size - SumOfSizes(SubSeq(grown, 1, evicted))]
  <1>9. Stored(key, answer, size) = IF size > MaxBytes THEN [cache |-> cache, bytes |-> bytes]
                                    ELSE after
    BY <1>3 DEF Stored
  <1>10. CASE size > MaxBytes
    <2>1. Stored(key, answer, size) = [cache |-> cache, bytes |-> bytes]
      BY <1>9, <1>10
    <2>2. \A k : Accepted(cache, k)
      BY DEF Accepted, CacheOK
    <2>3. Sound([cache |-> cache, bytes |-> bytes])
      BY DEF Sound, CacheOK
    <2> QED BY <2>1, <2>2, <2>3
  <1>11. CASE ~(size > MaxBytes)
    <2>1. Fits(Len(grown))
      <3>1. SubSeq(grown, 1, Len(grown)) = grown
        BY <1>4, SubSeqFull
      <3>2. SumOfSizes(SubSeq(grown, 1, Len(grown))) = bytes + size
        BY <1>5, <3>1
      <3>3. bytes + size - SumOfSizes(SubSeq(grown, 1, Len(grown))) = 0
        BY <1>5, <3>2
      <3>4. Len(grown) - Len(grown) = 0
        BY <1>4, <1>6
      <3> QED BY <3>3, <3>4, Limits
    <2>2. \E n \in 0 .. Len(grown) : Least1(n)
      <3> DEFINE S == {n \in 0 .. Len(grown) : Fits(n)}
      <3>1. S \in SUBSET Nat /\ Len(grown) \in S
        <4> HIDE DEF Fits
        <4> QED BY <1>4, <1>6, <2>1
      <3> HIDE DEF S
      <3>2. PICK m \in S : m <= Len(grown) /\ \A k \in 0 .. m - 1 : k \notin S
        BY <3>1, Least
      <3>3. m \in 0 .. Len(grown) /\ Fits(m)
        BY <3>2 DEF S
      <3>4. \A k \in 0 .. m - 1 : k \in 0 .. Len(grown)
        BY <1>4, <1>6, <3>3
      <3>5. \A k \in 0 .. m - 1 : ~Fits(k)
        BY <3>2, <3>4 DEF S
      <3> HIDE DEF Fits
      <3> QED BY <3>3, <3>5
    <2>3. evicted \in 0 .. Len(grown) /\ Fits(evicted)
      <3>1. evicted \in 0 .. Len(grown) /\ Least1(evicted)
        <4> HIDE DEF Least1
        <4> QED BY <2>2
      <3> HIDE DEF Fits, evicted
      <3> QED BY <3>1
    <2>4. PICK n \in 0 .. Len(grown) : n = evicted
      BY <2>3
    <2>5. /\ rest \in Seq(E) /\ Len(rest) = Len(grown) - n
          /\ \A i \in 1 .. Len(grown) - n : rest[i] = grown[n + i]
          /\ SumOfSizes(SubSeq(grown, 1, n)) + SumOfSizes(rest) = SumOfSizes(grown)
          /\ SubSeq(grown, 1, n) \in Seq(E)
      <3> HIDE DEF evicted
      <3> QED BY <1>2, <1>4, <2>4, SumOfParts
    <2>6. SumOfSizes(rest) \in Nat /\ SumOfSizes(SubSeq(grown, 1, n)) \in Nat /\ Len(rest) \in Nat
          /\ DOMAIN rest = 1 .. Len(rest)
      <3> HIDE DEF rest
      <3> QED BY <1>2, <2>5, SizesAreNumbers
    <2>7. SumOfSizes(rest) = bytes + size - SumOfSizes(SubSeq(grown, 1, n))
      <3> HIDE DEF rest
      <3> QED BY <1>5, <2>5, <2>6
    <2>8. Len(rest) <= MaxEntries /\ SumOfSizes(rest) <= MaxBytes
      <3>1. Fits(n)
        <4> HIDE DEF Fits, evicted
        <4> QED BY <2>3, <2>4
      <3> HIDE DEF rest
      <3> QED BY <2>5, <2>7, <3>1
    <2>9. \A i \in DOMAIN rest : n + i \in DOMAIN grown /\ rest[i] = grown[n + i]
      <3> HIDE DEF rest, evicted, Fits
      <3> SUFFICES ASSUME NEW i \in DOMAIN rest
                   PROVE  n + i \in DOMAIN grown /\ rest[i] = grown[n + i]
        OBVIOUS
      <3>1. i \in 1 .. Len(grown) - n
        BY <2>5, <2>6
      <3>2. n + i \in 1 .. Len(grown)
        BY <1>4, <1>6, <2>4, <3>1
      <3> QED BY <1>4, <1>6, <2>5, <3>1, <3>2
    <2>10. IsCache(rest)
      <3> HIDE DEF rest
      <3>1. \A i, j \in DOMAIN rest : rest[i].key = rest[j].key => i = j
        <4> SUFFICES ASSUME NEW i \in DOMAIN rest, NEW j \in DOMAIN rest, rest[i].key = rest[j].key
                     PROVE  i = j
          OBVIOUS
        <4>1. n + i = n + j
          BY <1>7, <2>9
        <4> QED BY <2>6, <4>1
      <3> QED BY <1>2, <2>5, <3>1 DEF IsCache, Records
    <2>11. Accepted(rest, key) /\ (answer \notin Failures => \A k : Accepted(rest, k))
      <3> HIDE DEF rest
      <3> QED BY <1>8, <2>9 DEF Accepted
    <2>12. Stored(key, answer, size) = [cache |-> rest, bytes |-> SumOfSizes(rest)]
      <3>1. after = [cache |-> rest, bytes |-> SumOfSizes(rest)]
        <4> HIDE DEF rest, evicted
        <4> QED BY <2>4, <2>7
      <3> HIDE DEF after, rest
      <3> QED BY <1>9, <1>11, <3>1
    <2> HIDE DEF rest
    <2>13. Sound([cache |-> rest, bytes |-> SumOfSizes(rest)])
      BY <2>8, <2>10 DEF Sound
    <2> QED BY <2>11, <2>12, <2>13
  <1> HIDE DEF after
  <1> QED BY <1>10, <1>11

LEMMA MinIsLeast ==
    ASSUME NEW S \in SUBSET Nat, NEW n \in S
    PROVE  Min(S) \in S /\ \A k \in S : Min(S) <= k
  <1>1. PICK m \in S : m <= n /\ \A k \in 0 .. m - 1 : k \notin S
    BY Least
  <1>2. \A k \in S : m <= k
    <2> SUFFICES ASSUME NEW k \in S, ~(m <= k) PROVE FALSE
      OBVIOUS
    <2>1. k \in 0 .. m - 1
      OBVIOUS
    <2> QED BY <1>1, <2>1
  <1> DEFINE IsLeast(x) == \A k \in S : x <= k
  <1>3. \E x \in S : IsLeast(x)
    BY <1>1, <1>2
  <1>4. Min(S) = CHOOSE x \in S : IsLeast(x)
    BY DEF Min
  <1> HIDE DEF IsLeast
  <1>5. Min(S) \in S /\ IsLeast(Min(S))
    BY <1>3, <1>4
  <1> QED BY <1>5 DEF IsLeast

\* A cache without one of its entries is one.
LEMMA RestIsSound ==
    ASSUME NEW s, IsCache(s), NEW i \in DOMAIN s
    PROVE  /\ IsCache(RemoveAt(s, i)) /\ Len(RemoveAt(s, i)) = Len(s) - 1 /\ Len(s) \in Nat
           /\ SumOfSizes(RemoveAt(s, i)) = SumOfSizes(s) - s[i].size
           /\ SumOfSizes(s) \in Nat /\ s[i].size \in Nat
           /\ \A j \in DOMAIN RemoveAt(s, i) : \E k \in DOMAIN s \ {i} : RemoveAt(s, i)[j] = s[k]
  <1>1. PICK E : s \in Seq(E) /\ AreSized(E) /\ \E K, A : E = Records(K, A)
    BY CacheIsTyped, RecordsAreSized
  <1>2. /\ Len(s) \in Nat /\ DOMAIN s = 1 .. Len(s) /\ SumOfSizes(s) \in Nat
        /\ s[i].size \in Nat
    BY <1>1, SizesAreNumbers
  <1>3. PICK t : t = RemoveAt(s, i)
    OBVIOUS
  <1>4. /\ t \in Seq(E) /\ Len(t) = Len(s) - 1
        /\ \A j \in 1 .. Len(s) - 1 : t[j] = IF j < i THEN s[j] ELSE s[j + 1]
        /\ SumOfSizes(t) + s[i].size = SumOfSizes(s)
    BY <1>1, <1>2, <1>3, SumWithout
  <1>5. SumOfSizes(t) \in Nat /\ DOMAIN t = 1 .. Len(s) - 1
    BY <1>1, <1>4, SizesAreNumbers
  <1> DEFINE from(j) == IF j < i THEN j ELSE j + 1
  <1>6. \A j \in DOMAIN t : from(j) \in DOMAIN s \ {i} /\ t[j] = s[from(j)]
    BY <1>2, <1>4, <1>5
  <1>7. \A j, k \in DOMAIN t : t[j].key = t[k].key => j = k
    <2> SUFFICES ASSUME NEW j \in DOMAIN t, NEW k \in DOMAIN t, t[j].key = t[k].key PROVE j = k
      OBVIOUS
    <2>1. from(j) = from(k)
      <3> HIDE DEF from
      <3> QED BY <1>6 DEF IsCache
    <2> QED BY <1>2, <1>5, <2>1
  <1>8. IsCache(t)
    BY <1>1, <1>4, <1>7 DEF IsCache, Records
  <1>9. SumOfSizes(t) = SumOfSizes(s) - s[i].size
    BY <1>2, <1>4, <1>5
  <1>10. \A j \in DOMAIN t : \E k \in DOMAIN s \ {i} : t[j] = s[k]
    <2> HIDE DEF from
    <2> QED BY <1>6
  <1> QED BY <1>2, <1>3, <1>4, <1>8, <1>9, <1>10

LEMMA DiscardedIsSound ==
    ASSUME NEW m, m = [cache |-> m.cache, bytes |-> m.bytes], Sound(m),
           NEW key, Accepted(m.cache, key)
    PROVE  Sound(Discarded(key, m)) /\ \A k : Accepted(Discarded(key, m).cache, k)
  <1> DEFINE S == PlacesOf(key, m.cache)
  <1>1. CASE S = {}
    <2>1. Discarded(key, m) = m
      BY <1>1 DEF Discarded
    <2>2. \A i \in DOMAIN m.cache : m.cache[i].answer \notin Failures
      BY <1>1 DEF PlacesOf, Accepted
    <2> QED BY <2>1, <2>2 DEF Accepted
  <1>2. CASE S # {}
    <2>1. PICK i : i = Min(S)
      OBVIOUS
    <2>2. i \in DOMAIN m.cache /\ m.cache[i].key = key
      <3>1. S \in SUBSET Nat
        <4>1. PICK K, A : m.cache \in Seq(Records(K, A))
          BY CacheIsTyped DEF Sound
        <4>2. DOMAIN m.cache = 1 .. Len(m.cache) /\ Len(m.cache) \in Nat
          BY <4>1, LenProperties
        <4> QED BY <4>2 DEF PlacesOf
      <3>2. PICK n \in S : TRUE
        BY <1>2
      <3> HIDE DEF S
      <3>3. i \in S
        BY <2>1, <3>1, <3>2, MinIsLeast
      <3> QED BY <3>3 DEF S, PlacesOf
    <2>3. PICK t : t = RemoveAt(m.cache, i)
      OBVIOUS
    <2>4. Discarded(key, m) = [cache |-> t, bytes |-> m.bytes - m.cache[i].size]
      BY <1>2, <2>1, <2>3 DEF Discarded
    <2>5. /\ IsCache(t) /\ Len(t) = Len(m.cache) - 1 /\ Len(m.cache) \in Nat
          /\ SumOfSizes(t) = SumOfSizes(m.cache) - m.cache[i].size
          /\ SumOfSizes(m.cache) \in Nat /\ m.cache[i].size \in Nat
          /\ \A j \in DOMAIN t : \E k \in DOMAIN m.cache \ {i} : t[j] = m.cache[k]
      BY <2>2, <2>3, RestIsSound DEF Sound
    <2>6. \A j \in DOMAIN t : t[j].answer \notin Failures
      <3>1. \A k \in DOMAIN m.cache \ {i} : m.cache[k].key # key
        BY <2>2 DEF Sound, IsCache
      <3>2. \A k \in DOMAIN m.cache \ {i} : m.cache[k].answer \notin Failures
        BY <3>1 DEF Accepted
      <3> QED BY <2>5, <3>2
    <2>7. Sound([cache |-> t, bytes |-> m.bytes - m.cache[i].size])
      BY <2>5, Limits DEF Sound
    <2> QED BY <2>4, <2>6, <2>7 DEF Accepted
  <1> QED BY <1>1, <1>2

(* A request takes an entry to the end of the cache, or is one more call.  *)
LEMMA AskKeeps ==
    ASSUME CacheOK, NEW kind \in Kinds, NEW key, Size[key[1]] \in Nat, NEW proper, NEW answer,
           made \in [Kinds -> Nat], Ask(kind, key, proper, answer)
    PROVE  CacheOK' /\ (made' = made \/ made' = [made EXCEPT ![kind] = @ + 1])
  <1>1. CASE PlacesOf(key, cache) # {}
    <2>1. PICK i \in PlacesOf(key, cache) :
              /\ cache' = Append(RemoveAt(cache, i), cache[i]) /\ UNCHANGED <<bytes, made>>
      BY <1>1 DEF Ask
    <2>2. i \in DOMAIN cache
      BY DEF PlacesOf
    <2>3. PICK t : t = RemoveAt(cache, i)
      OBVIOUS
    <2>4. /\ IsCache(t) /\ Len(t) = Len(cache) - 1 /\ Len(cache) \in Nat
          /\ SumOfSizes(t) = SumOfSizes(cache) - cache[i].size
          /\ SumOfSizes(cache) \in Nat /\ cache[i].size \in Nat
          /\ \A j \in DOMAIN t : \E k \in DOMAIN cache \ {i} : t[j] = cache[k]
      BY <2>2, <2>3, RestIsSound DEF CacheOK
    <2>5. PICK K, A : cache \in Seq(Records(K, A))
      BY CacheIsTyped DEF CacheOK
    <2>6. PICK E : E = Records(K, A)
      OBVIOUS
    <2>7. AreSized(E) /\ cache \in Seq(E) /\ cache[i] \in E /\ t \in Seq(E)
      <3>1. AreSized(E) /\ cache \in Seq(E)
        BY <2>5, <2>6, RecordsAreSized
      <3>2. DOMAIN cache = 1 .. Len(cache) /\ cache[i] \in E
        BY <2>2, <3>1, LenProperties, ElementOfSeq
      <3>3. t \in Seq(E)
        BY <2>2, <2>3, <3>1, <3>2, SumWithout
      <3> QED BY <3>1, <3>2, <3>3
    <2>8. /\ cache' \in Seq(E) /\ Len(cache') = Len(t) + 1
          /\ \A j \in 1 .. Len(t) : cache'[j] = t[j]
          /\ cache'[Len(t) + 1] = cache[i]
      BY <2>1, <2>3, <2>7, AppendProperties
    <2>9. SumOfSizes(cache') = SumOfSizes(cache)
      <3>1. SumOfSizes(cache') = SumOfSizes(t) + cache[i].size
        BY <2>1, <2>3, <2>7, SumOfAppend
      <3> QED BY <2>4, <3>1
    <2>10. DOMAIN t = 1 .. Len(t) /\ DOMAIN cache' = 1 .. Len(t) + 1
      BY <2>7, <2>8, LenProperties
    <2>11. \A j \in DOMAIN cache' : j \in DOMAIN t \/ j = Len(t) + 1
      BY <2>4, <2>10
    <2>12. \A j \in DOMAIN t : cache'[j] = t[j] /\ t[j].key # cache[i].key
      <3>1. \A k \in DOMAIN cache \ {i} : cache[k].key # cache[i].key
        BY <2>2 DEF CacheOK, IsCache
      <3> QED BY <2>4, <2>8, <2>10, <3>1
    <2>13. \A j, k \in DOMAIN cache' : cache'[j].key = cache'[k].key => j = k
      <3>1. \A j, k \in DOMAIN t : t[j].key = t[k].key => j = k
        BY <2>4 DEF IsCache
      <3> QED BY <2>8, <2>11, <2>12, <3>1
    <2>14. \A j \in DOMAIN cache' : cache'[j].answer \notin Failures
      <3>1. \A k \in DOMAIN cache : cache[k].answer \notin Failures
        BY DEF CacheOK
      <3>2. \A j \in DOMAIN t : cache'[j].answer \notin Failures
        BY <2>4, <2>12, <3>1
      <3> QED BY <2>2, <2>8, <2>11, <3>1, <3>2
    <2>15. IsCache(cache')
      BY <2>6, <2>8, <2>13 DEF IsCache, Records
    <2>16. Len(cache') = Len(cache)
      BY <2>4, <2>8
    <2> QED BY <2>1, <2>9, <2>14, <2>15, <2>16 DEF CacheOK
  <1>2. CASE PlacesOf(key, cache) = {}
    <2> DEFINE stored == Stored(key, answer, Size[key[1]])
               kept == IF answer \in Unanswered THEN [cache |-> cache, bytes |-> bytes]
                       ELSE IF answer \in Discardable THEN Discarded(key, stored)
                       ELSE stored
    <2>1. /\ made' = [made EXCEPT ![kind] = @ + 1]
          /\ cache' = kept.cache /\ bytes' = kept.bytes
      BY <1>2 DEF Ask
    <2>2. /\ Sound(stored) /\ Accepted(stored.cache, key)
          /\ answer \notin Failures => \A k : Accepted(stored.cache, k)
      BY <1>2, StoredIsSound
    <2>3. stored = [cache |-> stored.cache, bytes |-> stored.bytes]
      BY DEF Stored
    <2> HIDE DEF stored
    <2>4. Sound(kept) /\ \A k : Accepted(kept.cache, k)
      <3>1. CASE answer \in Unanswered
        <4>1. kept = [cache |-> cache, bytes |-> bytes]
          BY <3>1
        <4>2. Sound([cache |-> cache, bytes |-> bytes]) /\ \A k : Accepted(cache, k)
          BY DEF Sound, Accepted, CacheOK
        <4> QED BY <4>1, <4>2
      <3>2. CASE answer \notin Unanswered /\ answer \in Discardable
        <4>1. kept = Discarded(key, stored)
          BY <3>2
        <4> HIDE DEF kept
        <4> QED BY <2>2, <2>3, <4>1, DiscardedIsSound
      <3>3. CASE answer \notin Failures
        <4>1. kept = stored
          BY <3>3 DEF Failures
        <4> HIDE DEF kept
        <4> QED BY <2>2, <3>3, <4>1
      <3> QED BY <3>1, <3>2, <3>3 DEF Failures
    <2> HIDE DEF kept
    <2>5. \A i \in DOMAIN cache' : cache'[i].answer \notin Failures
      <3> SUFFICES ASSUME NEW i \in DOMAIN cache', cache'[i].answer \in Failures PROVE FALSE
        OBVIOUS
      <3>1. PICK k : k # cache'[i].key
        <4>1. \A x : \E k : k # x
          <5> SUFFICES ASSUME NEW x PROVE \E k : k # x
            OBVIOUS
          <5>1. 0 # 1
            OBVIOUS
          <5> QED BY <5>1
        <4> QED BY <4>1
      <3> QED BY <2>1, <2>4, <3>1 DEF Accepted
    <2> QED BY <2>1, <2>4, <2>5 DEF Sound, CacheOK
  <1> QED BY <1>1, <1>2
-----------------------------------------------------------------------------
(***************************************************************************)
(* What the plan and the place bound.                                      *)
(***************************************************************************)
Stages == Early \cup Writing \cup Late

LEMMA PlanFacts ==
    ASSUME plan \in Plans
    PROVE  /\ Len(Operators) \in Nat \ {0} /\ Positions = 1 .. Len(Operators)
           /\ \A i \in Positions : /\ Operators[i].llm \in BOOLEAN /\ Operators[i].tone \in BOOLEAN
                                   /\ Operators[i].corrects \in BOOLEAN
                                   /\ ~(Operators[i].tone /\ Operators[i].corrects)
           /\ \A r \in DOMAIN Inputs : IsSaved(r) => plan.saved[r] \subseteq Positions
           /\ plan.preflight \in BOOLEAN
           /\ Len(Inputs) \in Nat \ {0} /\ DOMAIN Inputs = 1 .. Len(Inputs)
  <1>1. /\ Operators # <<>> /\ Operators \in Seq(Range(Operators)) /\ plan.preflight \in BOOLEAN
        /\ \A r \in DOMAIN Inputs : IsSaved(r) => plan.saved[r] \subseteq Positions
        /\ \A op \in Range(Operators) :
               {op.llm, op.tone, op.corrects} \subseteq BOOLEAN /\ ~(op.tone /\ op.corrects)
    BY PlansAreSelections DEF IsSaved, Operators, Positions
  <1>2. Len(Operators) \in Nat \ {0} /\ Positions = 1 .. Len(Operators)
    <2>1. Positions = DOMAIN Operators
      BY DEF Operators, Positions
    <2> QED BY <1>1, <2>1, LenProperties, EmptySeq
  <1>3. \A i \in Positions : Operators[i] \in Range(Operators)
    BY DEF Range, Operators, Positions
  <1>4. Len(Inputs) \in Nat \ {0} /\ DOMAIN Inputs = 1 .. Len(Inputs)
    BY RecordsAreGiven, LenProperties, EmptySeq
  <1> QED BY <1>1, <1>2, <1>3, <1>4

LEMMA Counting ==
    ASSUME NEW n \in Nat, NEW P \in SUBSET (1 .. n)
    PROVE  IsFiniteSet(P) /\ Cardinality(P) \in Nat /\ Cardinality(P) <= n
  <1>1. IsFiniteSet(1 .. n) /\ Cardinality(1 .. n) = n
    BY FS_Interval
  <1> QED BY <1>1, FS_Subset, FS_CardinalityType

LEMMA Larger ==
    ASSUME NEW n \in Nat, NEW P \in SUBSET (1 .. n), NEW Q \in SUBSET P
    PROVE  Cardinality(Q) <= Cardinality(P)
  BY Counting, FS_Subset

LEMMA OneMore ==
    ASSUME NEW n \in Nat, NEW P \in SUBSET (1 .. n)
    PROVE  Cardinality(P \cup {n + 1}) = Cardinality(P) + 1
  <1>1. n + 1 \notin P
    OBVIOUS
  <1> QED BY <1>1, Counting, FS_AddElement

LEMMA LlmFacts ==
    ASSUME plan \in Plans, NEW n \in 0 .. Len(Operators)
    PROVE  /\ LlmUpTo(n) \in SUBSET (1 .. n) /\ Cardinality(LlmUpTo(n)) \in Nat
           /\ \A m \in 0 .. n : Cardinality(LlmUpTo(m)) <= Cardinality(LlmUpTo(n))
           /\ n > 0 /\ Operators[n].llm =>
                  Cardinality(LlmUpTo(n)) = Cardinality(LlmUpTo(n - 1)) + 1
  <1>0. n \in Nat
    BY PlanFacts
  <1>1. \A m \in 0 .. n : LlmUpTo(m) \in SUBSET (1 .. m) /\ LlmUpTo(m) \in SUBSET LlmUpTo(n)
    BY <1>0 DEF LlmUpTo
  <1>2. LlmUpTo(n) \in SUBSET (1 .. n) /\ Cardinality(LlmUpTo(n)) \in Nat
    BY <1>0, <1>1, Counting
  <1>3. ASSUME NEW m \in 0 .. n PROVE Cardinality(LlmUpTo(m)) <= Cardinality(LlmUpTo(n))
    BY <1>0, <1>1, <1>2, Larger
  <1>4. ASSUME n > 0, Operators[n].llm
        PROVE  Cardinality(LlmUpTo(n)) = Cardinality(LlmUpTo(n - 1)) + 1
    <2>1. PICK m \in 0 .. n : n = m + 1 /\ m = n - 1
      BY <1>0, <1>4
    <2>2. LlmUpTo(n) = LlmUpTo(m) \cup {m + 1}
      BY <1>0, <1>4, <2>1 DEF LlmUpTo
    <2>3. m \in Nat /\ LlmUpTo(m) \in SUBSET (1 .. m)
      BY <1>1
    <2> QED BY <2>1, <2>2, <2>3, OneMore
  <1> QED BY <1>2, <1>3, <1>4

(* What a place bounds grows to a share.                                   *)
LEMMA UsedFacts ==
    ASSUME plan \in Plans, NEW k \in Work, NEW st \in Stages, NEW op \in Positions
    PROVE  Used(k, st, op) \in Nat /\ Share(k) \in Nat /\ Used(k, st, op) <= Share(k)
  <1>0. Len(Operators) \in Nat /\ op \in 1 .. Len(Operators)
    BY PlanFacts
  <1>1. CASE k = "source"
    BY <1>1 DEF Used, Share, Early
  <1>2. Past(k, st, op) \in 0 .. Len(Operators) /\ Past(k, "ended", 1) = Len(Operators)
    <2>1. Past(k, st, op) \in {0, Len(Operators), op - 1, op}
      BY DEF Past
    <2>2. {0, Len(Operators), op - 1, op} \subseteq 0 .. Len(Operators)
      BY <1>0
    <2>3. Past(k, "ended", 1) = Len(Operators)
      BY DEF Past, Early, Late
    <2> QED BY <2>1, <2>2, <2>3
  <1>3. CASE k \in {"candidate", "verify"}
    BY <1>0, <1>2, <1>3 DEF Used, Share
  <1>4. CASE k \in {"generation", "retries"}
    <2>1. /\ Used(k, st, op) = Cardinality(LlmUpTo(Past(k, st, op)))
          /\ Share(k) = Cardinality(LlmUpTo(Len(Operators)))
      BY <1>2, <1>4 DEF Used, Share
    <2>2. \A n \in 0 .. Len(Operators) :
              /\ Cardinality(LlmUpTo(n)) \in Nat
              /\ Cardinality(LlmUpTo(n)) <= Cardinality(LlmUpTo(Len(Operators)))
      <3>1. Len(Operators) \in 0 .. Len(Operators)
        BY <1>0
      <3> QED BY <3>1, LlmFacts
    <2>3. Len(Operators) \in 0 .. Len(Operators)
      BY <1>0
    <2> QED BY <1>2, <2>1, <2>2, <2>3
  <1> QED BY <1>1, <1>3, <1>4 DEF Work

LEMMA FreshFacts ==
    ASSUME plan \in Plans, NEW n \in Nat
    PROVE  /\ FreshUpTo(n) \in SUBSET (1 .. n) /\ Cardinality(FreshUpTo(n)) \in Nat
           /\ n > 0 => Cardinality(FreshUpTo(n)) = Cardinality(FreshUpTo(n - 1))
                                                   + (IF IsSaved(n) THEN 0 ELSE 1)
  <1>1. \A m \in Nat : FreshUpTo(m) \in SUBSET (1 .. m)
    BY DEF FreshUpTo
  <1>2. \A m \in Nat : Cardinality(FreshUpTo(m)) \in Nat
    BY <1>1, Counting
  <1>3. ASSUME n > 0 PROVE Cardinality(FreshUpTo(n)) = Cardinality(FreshUpTo(n - 1))
                                                   + (IF IsSaved(n) THEN 0 ELSE 1)
    <2>1. PICK m \in Nat : n = m + 1 /\ m = n - 1
      BY <1>3
    <2>2. CASE IsSaved(n)
      <3>1. FreshUpTo(n) = FreshUpTo(m)
        BY <2>1, <2>2 DEF FreshUpTo
      <3> QED BY <1>2, <2>1, <2>2, <3>1
    <2>3. CASE ~IsSaved(n)
      <3>1. FreshUpTo(n) = FreshUpTo(m) \cup {m + 1}
        BY <2>1, <2>3 DEF FreshUpTo
      <3> QED BY <1>1, <2>1, <2>3, <3>1, OneMore
    <2> QED BY <2>2, <2>3
  <1> QED BY <1>1, <1>2, <1>3

LEMMA OneShareMore ==
    ASSUME NEW n \in Nat, NEW share \in Nat
    PROVE  (n + 1) * share = n * share + share /\ n * share \in Nat
  OBVIOUS

(* How far the variations of the first records may go.                     *)
LEMMA VariationsFacts ==
    ASSUME plan \in Plans, NEW n \in DOMAIN Inputs
    PROVE  /\ PlannedVariations(n) \in Nat /\ VariationsUpTo(n) \in Nat
           /\ VariationsUpTo(n - 1) \in Nat
           /\ VariationsUpTo(n) = VariationsUpTo(n - 1) + PlannedVariations(n)
           /\ PassedOperators = plan.saved[n] /\ IsSaved(n) =>
                  Cardinality(PassedOperators) <= PlannedVariations(n)
  <1>0. n \in Nat /\ n > 0 /\ n <= Len(Inputs) /\ Len(Inputs) \in Nat /\ DOMAIN Inputs = 1 .. Len(Inputs)
    BY PlanFacts
  <1>1. \A r \in DOMAIN Inputs : PlannedVariations(r) \in Nat
    <2> SUFFICES ASSUME NEW r \in DOMAIN Inputs PROVE PlannedVariations(r) \in Nat
      OBVIOUS
    <2>1. IsSaved(r) => plan.saved[r] \in SUBSET (1 .. Len(Operators))
      BY PlanFacts
    <2>2. Len(Operators) \in Nat
      BY PlanFacts
    <2> QED BY <2>1, <2>2, Counting DEF PlannedVariations
  <1> DEFINE upTo(m) == [r \in 1 .. m |-> PlannedVariations(r)]
  <1>2. ASSUME NEW m \in 0 .. Len(Inputs)
        PROVE  /\ Len(upTo(m)) = m /\ \A r \in 1 .. m : upTo(m)[r] = PlannedVariations(r)
               /\ VariationsUpTo(m) = Total(upTo(m)) /\ Total(upTo(m)) \in Nat
    <2>1. m \in Nat /\ \A r \in 1 .. m : PlannedVariations(r) \in Nat
      BY <1>0, <1>1
    <2>2. upTo(m) \in [1 .. m -> Nat]
      BY <2>1
    <2>3. upTo(m) \in Seq(Nat) /\ Len(upTo(m)) = m
      <3> HIDE DEF upTo
      <3> QED BY <2>1, <2>2, LenProperties
    <2>4. \A r \in 1 .. m : upTo(m)[r] = PlannedVariations(r)
      OBVIOUS
    <2>5. VariationsUpTo(m) = Total(upTo(m))
      BY DEF VariationsUpTo
    <2> HIDE DEF upTo
    <2>6. Total(upTo(m)) \in Nat
      BY <2>1, <2>3, <2>4, TotalIsNat
    <2> QED BY <2>3, <2>4, <2>5, <2>6
  <1> DEFINE one == <<PlannedVariations(n)>>
  <1>3. Len(one) = 1 /\ one[1] = PlannedVariations(n)
    OBVIOUS
  <1>4. n \in 0 .. Len(Inputs) /\ n - 1 \in 0 .. Len(Inputs) /\ n = n - 1 + 1
    BY <1>0
  <1> HIDE DEF one, upTo
  <1>5. Total(one) = PlannedVariations(n)
    BY <1>1, <1>3, TotalOfOne
  <1>6. Total(upTo(n)) = Total(upTo(n - 1)) + Total(one)
    <2>1. /\ Len(upTo(n)) = n /\ Len(upTo(n - 1)) = n - 1
          /\ \A r \in 1 .. n : upTo(n)[r] = PlannedVariations(r)
          /\ \A r \in 1 .. n - 1 : upTo(n - 1)[r] = PlannedVariations(r)
      BY <1>2, <1>4
    <2>2. \A r \in 1 .. n : PlannedVariations(r) \in Nat
      BY <1>0, <1>1
    <2>3. /\ \A i \in 1 .. Len(upTo(n - 1)) : upTo(n)[i] = upTo(n - 1)[i]
          /\ \A i \in 1 .. Len(upTo(n - 1)) : upTo(n - 1)[i] \in Nat
      BY <1>0, <2>1, <2>2
    <2>4. \A i \in 1 .. Len(one) : upTo(n)[Len(upTo(n - 1)) + i] = one[i] /\ one[i] \in Nat
      BY <1>0, <1>3, <2>1, <2>2
    <2>5. Len(upTo(n)) = Len(upTo(n - 1)) + Len(one) /\ Len(upTo(n - 1)) \in Nat /\ Len(one) \in Nat
      BY <1>0, <1>3, <2>1
    <2> QED BY <2>3, <2>4, <2>5, TotalSplits
  <1>7. /\ VariationsUpTo(n) = Total(upTo(n)) /\ Total(upTo(n)) \in Nat
        /\ VariationsUpTo(n - 1) = Total(upTo(n - 1)) /\ Total(upTo(n - 1)) \in Nat
    BY <1>2, <1>4
  <1>8. PassedOperators = plan.saved[n] /\ IsSaved(n) =>
            Cardinality(PassedOperators) <= PlannedVariations(n)
    BY <1>1 DEF PlannedVariations
  <1> QED BY <1>1, <1>5, <1>6, <1>7, <1>8

(***************************************************************************)
(* How the calls follow the place.                                         *)
(***************************************************************************)
Cost(k, kind) == IF k = kind THEN 1 ELSE 0
\* At most one call was made, of that kind.
Spent(kind) == made' = made \/ (kind \in Work /\ made' = [made EXCEPT ![kind] = @ + 1])

LEMMA Frames0 ==
    ASSUME plan' = plan
    PROVE  /\ \A k : Used(k, stage, operator)' = Used(k, stage', operator') /\ Share(k)' = Share(k)
           /\ FreshUpTo(record - 1)' = FreshUpTo(record' - 1)
           /\ IsSaved(record)' <=> IsSaved(record')
           /\ Planned' = Planned
           /\ VariationsUpTo(record)' = VariationsUpTo(record')
           /\ VariationsUpTo(record - 1)' = VariationsUpTo(record' - 1)
           /\ Operators' = Operators /\ Positions' = Positions
  <1>1. \A k : Used(k, stage, operator)' = Used(k, stage', operator')
    BY DEF Used, Past, LlmUpTo, Operators
  <1>2. \A k : Share(k)' = Share(k)
    BY DEF Share, Used, Past, LlmUpTo, Operators
  <1>3. FreshUpTo(record - 1)' = FreshUpTo(record' - 1)
    BY DEF FreshUpTo, IsSaved
  <1>4. IsSaved(record)' <=> IsSaved(record')
    BY DEF IsSaved
  <1>5. Planned' = Planned
    BY DEF Planned, Fresh, Count, PlannedVariations, IsSaved, Operators, Positions
  <1>6. VariationsUpTo(record)' = VariationsUpTo(record')
    BY DEF VariationsUpTo, PlannedVariations, IsSaved, Operators
  <1>7. VariationsUpTo(record - 1)' = VariationsUpTo(record' - 1)
    BY DEF VariationsUpTo, PlannedVariations, IsSaved, Operators
  <1>8. Operators' = Operators /\ Positions' = Positions
    BY DEF Operators, Positions
  <1> QED BY <1>1, <1>2, <1>3, <1>4, <1>5, <1>6, <1>7, <1>8

LEMMA WorkMoves ==
    ASSUME PlaceOK, WorkOK, plan' = plan, NEW kind, Spent(kind), stage' \in Stages,
           operator' \in Positions, kind \in Work => ~IsSaved(record),
           \/ /\ record' = record
              /\ IsSaved(record) \/ \A k \in Work : Used(k, stage, operator) + Cost(k, kind)
                                                     <= Used(k, stage', operator')
           \/ /\ record' = record + 1 /\ stage' = "source"
              /\ IsSaved(record) \/ \A k \in Work : Used(k, stage, operator) + Cost(k, kind)
                                                     <= Share(k)
    PROVE  WorkOK'
  <1>0. record \in Nat /\ record + 1 # record
    BY PlanFacts DEF PlaceOK
  <1>1. SUFFICES ASSUME NEW k \in Work
                 PROVE  made'[k] <= Cardinality(FreshUpTo(record' - 1)) * Share(k)
                                    + (IF IsSaved(record') THEN 0 ELSE Used(k, stage', operator'))
    BY Frames0 DEF WorkOK
  <1>2. PICK before \in Nat, after \in Nat, share \in Nat, n \in Nat :
            /\ before = Used(k, stage, operator) /\ after = Used(k, stage', operator')
            /\ share = Share(k) /\ n = Cardinality(FreshUpTo(record - 1))
    <2>1. Used(k, stage, operator) \in Nat /\ Share(k) \in Nat
      BY UsedFacts DEF PlaceOK, Stages
    <2>2. Used(k, stage', operator') \in Nat
      BY UsedFacts DEF PlaceOK
    <2>3. Cardinality(FreshUpTo(record - 1)) \in Nat
      <3>1. record - 1 \in Nat
        BY PlanFacts DEF PlaceOK
      <3> QED BY <3>1, FreshFacts DEF PlaceOK
    <2> QED BY <2>1, <2>2, <2>3
  <1>3. made[k] \in Nat /\ made'[k] <= made[k] + Cost(k, kind) /\ Cost(k, kind) \in {0, 1}
    BY DEF PlaceOK, Spent, Cost, Work, Kinds
  <1>4. made[k] <= n * share + (IF IsSaved(record) THEN 0 ELSE before)
    BY <1>2 DEF WorkOK
  <1>5. IsSaved(record) => made'[k] <= made[k]
    <2>1. IsSaved(record) => made' = made
      BY DEF Spent
    <2> QED BY <1>3, <2>1
  <1>6. n * share \in Nat /\ (n + 1) * share = n * share + share
    BY OneShareMore
  <1>7. made'[k] \in Nat
    <2>1. CASE made' = made
      BY <1>3, <2>1
    <2>2. CASE made' = [made EXCEPT ![kind] = @ + 1] /\ kind \in Work
      BY <1>3, <2>2 DEF PlaceOK, Work, Kinds
    <2> QED BY <2>1, <2>2 DEF Spent
  <1>8. CASE record' = record
    <2>1. ~IsSaved(record) => before + Cost(k, kind) <= after
      BY <1>0, <1>2, <1>8
    <2> QED BY <1>2, <1>3, <1>4, <1>5, <1>6, <1>7, <1>8, <2>1
  <1>9. CASE record' = record + 1 /\ stage' = "source"
    <2>1. ~IsSaved(record) => before + Cost(k, kind) <= share
      BY <1>0, <1>2, <1>9
    <2>2. Cardinality(FreshUpTo(record)) = n + (IF IsSaved(record) THEN 0 ELSE 1)
      <3>1. record \in Nat /\ record > 0
        BY PlanFacts DEF PlaceOK
      <3> QED BY <1>2, <3>1, FreshFacts DEF PlaceOK
    <2>3. made'[k] <= Cardinality(FreshUpTo(record)) * share
      <3>1. CASE IsSaved(record)
        BY <1>3, <1>4, <1>5, <1>6, <1>7, <2>2, <3>1
      <3>2. CASE ~IsSaved(record)
        BY <1>2, <1>3, <1>4, <1>6, <1>7, <2>1, <2>2, <3>2
      <3> QED BY <3>1, <3>2
    <2>4. record' - 1 = record /\ after \in Nat
      BY <1>9, PlanFacts DEF PlaceOK
    <2>5. Cardinality(FreshUpTo(record)) * share \in Nat
      <3>1. Cardinality(FreshUpTo(record)) \in Nat
        BY <2>2
      <3> QED BY <3>1, OneShareMore
    <2> QED BY <1>2, <1>7, <2>3, <2>4, <2>5
  <1> QED BY <1>8, <1>9

(***************************************************************************)
(* The same for the judge's calls, and for those of the preflight.         *)
(***************************************************************************)
LEMMA TestedArePlanned ==
    ASSUME PipelineInv
    PROVE  /\ Cardinality(tested) \in Nat /\ Cardinality(tested) <= PlannedVariations(record)
           /\ PassedOperators \subseteq Positions /\ IsFiniteSet(PassedOperators)
           /\ Cardinality(PassedOperators) \in Nat
           /\ Cardinality(PassedOperators) <= PlannedVariations(record)
           /\ IsFiniteSet(tested)
  <1>0. /\ plan \in Plans /\ record \in DOMAIN Inputs /\ tested \subseteq PassedOperators
        /\ Len(Operators) \in Nat /\ Positions = 1 .. Len(Operators)
    BY PlanFacts DEF PipelineInv, PlaceOK, TrialsOK
  <1>1. PassedOperators \subseteq Positions
    <2>1. IsSaved(record) => plan.saved[record] \subseteq Positions
      BY <1>0, PlanFacts
    <2>2. {c.operator : c \in {d \in Range(candidates) : d.passed}} \subseteq Positions
      BY DEF PipelineInv, CandidatesOK, IsEarned, Range
    <2> QED BY <2>1, <2>2 DEF PassedOperators
  <1>2. IsFiniteSet(PassedOperators) /\ Cardinality(PassedOperators) \in Nat
        /\ Cardinality(PassedOperators) <= Len(Operators)
    BY <1>0, <1>1, Counting
  <1>3. Cardinality(PassedOperators) <= PlannedVariations(record)
    <2>1. CASE IsSaved(record)
      <3>1. PlannedVariations(record) = Cardinality(PassedOperators)
        BY <2>1 DEF PlannedVariations, PassedOperators
      <3> QED BY <1>2, <3>1
    <2>2. CASE ~IsSaved(record)
      BY <1>2, <2>2 DEF PlannedVariations
    <2> QED BY <2>1, <2>2
  <1>4. IsFiniteSet(tested) /\ Cardinality(tested) \in Nat
        /\ Cardinality(tested) <= Cardinality(PassedOperators)
    BY <1>0, <1>2, FS_Subset, FS_CardinalityType
  <1>5. PlannedVariations(record) \in Nat
    BY <1>0, VariationsFacts
  <1> QED BY <1>1, <1>2, <1>3, <1>4, <1>5

LEMMA MaterialityMoves ==
    ASSUME PipelineInv, plan' = plan, made'.materiality = made.materiality,
           \/ record' = record /\ stage # "ended" /\ stage' # "ended" /\ tested' = tested
           \/ record' = record /\ stage' = "ended" /\ stage # "ended"
           \/ record' = record + 1 /\ stage' # "ended" /\ stage # "ended" /\ tested' = {}
    PROVE  MaterialityOK'
  <1>1. /\ VariationsUpTo(record) \in Nat /\ VariationsUpTo(record - 1) \in Nat
        /\ VariationsUpTo(record) = VariationsUpTo(record - 1) + PlannedVariations(record)
        /\ PlannedVariations(record) \in Nat
    BY VariationsFacts DEF PipelineInv, PlaceOK
  <1>2. Cardinality(tested) \in Nat /\ Cardinality(tested) <= PlannedVariations(record)
    BY TestedArePlanned
  <1>3. made.materiality <= VariationsUpTo(record - 1) + Cardinality(tested) /\ made.materiality \in Nat
    BY DEF PipelineInv, CallsOK, MaterialityOK, PlaceOK, Kinds
  <1>4. /\ VariationsUpTo(record)' = VariationsUpTo(record')
        /\ VariationsUpTo(record - 1)' = VariationsUpTo(record' - 1)
    BY Frames0
  <1>5. Cardinality(tested)' = Cardinality(tested') /\ Cardinality({}) = 0
    BY FS_EmptySet
  <1>6. CASE record' = record /\ stage' # "ended" /\ tested' = tested
    BY <1>3, <1>4, <1>6 DEF MaterialityOK
  <1>7. CASE record' = record /\ stage' = "ended"
    BY <1>1, <1>2, <1>3, <1>4, <1>7 DEF MaterialityOK
  <1>8. CASE record' = record + 1 /\ stage' # "ended" /\ tested' = {}
    <2>1. record' - 1 = record
      BY <1>8, PlanFacts DEF PipelineInv, PlaceOK
    <2>2. made'.materiality <= VariationsUpTo(record) + 0
      BY <1>1, <1>2, <1>3
    <2> QED BY <1>4, <1>5, <1>8, <2>1, <2>2 DEF MaterialityOK
  <1> QED BY <1>6, <1>7, <1>8

LEMMA PreflightStays ==
    ASSUME PipelineInv, plan' = plan, made'.preflight = made.preflight, stage' # "preflight"
    PROVE  PreflightOK'
  BY Frames0 DEF PipelineInv, CallsOK, PreflightOK

LEMMA SpentFacts ==
    ASSUME PipelineInv, NEW kind, Spent(kind)
    PROVE  /\ made' \in [Kinds -> Nat]
           /\ made'.preflight = made.preflight /\ made'.materiality = made.materiality
  <1>1. CASE made' = made
    BY <1>1 DEF PipelineInv, PlaceOK
  <1>2. CASE kind \in Work /\ made' = [made EXCEPT ![kind] = @ + 1]
    BY <1>2 DEF PipelineInv, PlaceOK, Work, Kinds
  <1> QED BY <1>1, <1>2 DEF Spent

(***************************************************************************)
(* The ways on.                                                            *)
(***************************************************************************)
LEMMA NoCandidates == IsEarned(<<>>) /\ OperatorsOf(<<>>) = {}
  <1>1. <<>> \in Seq({}) /\ DOMAIN <<>> = {}
    BY EmptySeq
  <1> QED BY <1>1 DEF IsEarned, OperatorsOf

LEMMA NextRecordKeeps ==
    ASSUME PipelineInv, NextRecord, plan' = plan, CacheOK', NEW kind, Spent(kind),
           kind \in Work => ~IsSaved(record), stage \notin {"preflight", "ended"},
           IsSaved(record) \/ \A k \in Work : Used(k, stage, operator) + Cost(k, kind) <= Share(k)
    PROVE  PipelineInv'
  <1>1. /\ plan \in Plans /\ record \in 1 .. Len(Inputs) /\ Len(Inputs) \in Nat
        /\ DOMAIN Inputs = 1 .. Len(Inputs) /\ 1 \in Positions /\ stage \in Stages
    BY PlanFacts DEF PipelineInv, PlaceOK, Stages
  <1>2. /\ operator' = 1 /\ draft' = NoDraft /\ candidates' = <<>> /\ skips' = {}
        /\ original' = <<>> /\ tested' = {} /\ case' = NoCase
        /\ \/ record' = record /\ stage' = "ended"
           \/ record' = record + 1 /\ record' \in DOMAIN Inputs /\ stage' = "source"
    <2>1. CASE record = Len(Inputs)
      BY <2>1 DEF NextRecord
    <2>2. CASE record # Len(Inputs)
      <3>1. record + 1 \in DOMAIN Inputs
        <4>1. record + 1 \in 1 .. Len(Inputs)
          <5>1. record \in 1 .. Len(Inputs) /\ Len(Inputs) \in Nat
            BY <1>1
          <5> QED BY <2>2, <5>1
        <4> QED BY <1>1, <4>1
      <3>2. record' = record + 1 /\ stage' = "source"
        BY <2>2 DEF NextRecord
      <3> QED BY <3>1, <3>2 DEF NextRecord
    <2> QED BY <2>1, <2>2
  <1>3. made' \in [Kinds -> Nat] /\ made'.preflight = made.preflight
        /\ made'.materiality = made.materiality
    BY SpentFacts
  <1>4. stage' \in Stages /\ stage' \notin Writing /\ stage' \notin {"preflight", "retry", "verify"}
    BY <1>2 DEF Stages, Early, Writing, Late
  <1>5. PlaceOK'
    <2>1. record' \in DOMAIN Inputs /\ operator' \in Positions'
      BY <1>1, <1>2, Frames0
    <2>2. draft' = [text |-> draft'.text, frame |-> draft'.frame, reasons |-> draft'.reasons]
      BY <1>2 DEF NoDraft
    <2>3. operator' = 1
      BY <1>2
    <2> QED BY <1>1, <1>3, <1>4, <2>1, <2>3, <2>2 DEF PlaceOK, Stages
  <1>6. WorkOK'
    <2>1. \A k : Used(k, "ended", 1) = Share(k)
      BY DEF Share
    <2>2. operator' \in Positions
      BY <1>1, <1>2
    <2>3. PlaceOK /\ WorkOK
      BY DEF PipelineInv, CallsOK
    <2>4. CASE record' = record /\ stage' = "ended"
      <3>1. IsSaved(record) \/ \A k \in Work : Used(k, stage, operator) + Cost(k, kind)
                                               <= Used(k, stage', operator')
        BY <1>2, <2>1, <2>4
      <3> QED BY <1>4, <2>2, <2>3, <2>4, <3>1, WorkMoves
    <2>5. CASE record' = record + 1 /\ stage' = "source"
      BY <1>4, <2>2, <2>3, <2>5, WorkMoves
    <2> QED BY <1>2, <2>4, <2>5
  <1>7. PreflightOK' /\ MaterialityOK'
    <2>1. stage' # "preflight"
      BY <1>4
    <2> QED BY <1>2, <1>3, <2>1, PreflightStays, MaterialityMoves
  <1>8. CandidatesOK'
    <2>1. IsEarned(candidates)'
      <3>1. <<>> \in Seq({}) /\ DOMAIN <<>> = {}
        BY EmptySeq
      <3> QED BY <1>2, <3>1 DEF IsEarned
    <2>2. stage' \notin {"original", "variations"}
      BY <1>2
    <2> QED BY <1>2, <1>4, <2>1, <2>2 DEF CandidatesOK
  <1>9. TrialsOK'
    BY <1>2 DEF TrialsOK
  <1> QED BY <1>5, <1>6, <1>7, <1>8, <1>9 DEF PipelineInv, CallsOK

\* An action that changes nothing but the place.
LEMMA EndedKeeps ==
    ASSUME PipelineInv, stage' = "ended", UNCHANGED <<plan, record, operator, draft, results, trials>>,
           CacheOK', NEW kind, Spent(kind), kind \in Work => ~IsSaved(record),
           stage \notin {"ended", "variations"},
           IsSaved(record) \/ \A k \in Work : Used(k, stage, operator) + Cost(k, kind) <= Share(k)
    PROVE  PipelineInv'
  <1>1. UNCHANGED <<plan, record, operator, draft, candidates, skips, original, tested, case>>
    BY DEF results, trials
  <1>2. made' \in [Kinds -> Nat] /\ made'.preflight = made.preflight
        /\ made'.materiality = made.materiality
    BY SpentFacts
  <1>3. stage' \in Stages /\ stage' \notin Writing /\ stage' \notin Early
        /\ stage' \notin {"retry", "verify", "original", "variations", "preflight"}
    BY DEF Stages, Early, Writing, Late
  <1>4. PlaceOK /\ WorkOK /\ PreflightOK /\ MaterialityOK /\ CandidatesOK /\ TrialsOK
    BY DEF PipelineInv, CallsOK
  <1>5. PlaceOK'
    BY <1>1, <1>2, <1>3, <1>4, Frames0 DEF PlaceOK, Stages
  <1>6. WorkOK'
    <2>1. \A k : Used(k, "ended", operator) = Share(k)
      BY DEF Share, Used, Past, Early, Late
    <2>2. operator' \in Positions
      BY <1>1, <1>4 DEF PlaceOK
    <2>3. IsSaved(record) \/ \A k \in Work : Used(k, stage, operator) + Cost(k, kind)
                                             <= Used(k, stage', operator')
      BY <1>1, <2>1
    <2> QED BY <1>1, <1>3, <1>4, <2>2, <2>3, WorkMoves
  <1>7. PreflightOK' /\ MaterialityOK'
    BY <1>1, <1>2, <1>3, PreflightStays, MaterialityMoves
  <1>8. CandidatesOK'
    <2>1. IsEarned(candidates)'
      BY <1>1, <1>4, Frames0 DEF CandidatesOK, IsEarned, PassedIsEarned, Input
    <2> QED BY <1>1, <1>3, <1>4, <2>1, Frames0 DEF CandidatesOK
  <1>9. TrialsOK'
    <2>1. original = <<>> /\ tested = {} /\ case = NoCase
      BY <1>4 DEF TrialsOK
    <2> QED BY <1>1, <1>3, <2>1 DEF TrialsOK
  <1> QED BY <1>5, <1>6, <1>7, <1>8, <1>9 DEF PipelineInv, CallsOK

LEMMA FailKeeps ==
    ASSUME PipelineInv, NEW answer, Fail(answer), plan' = plan, CacheOK', NEW kind, Spent(kind),
           kind \in Work => ~IsSaved(record), stage \in {"source"} \cup Writing,
           IsSaved(record) \/ \A k \in Work : Used(k, stage, operator) + Cost(k, kind) <= Share(k)
    PROVE  PipelineInv'
  <1>1. stage \notin {"preflight", "ended", "variations"}
    BY DEF Writing
  <1> QED BY <1>1, NextRecordKeeps, EndedKeeps DEF Fail

-----------------------------------------------------------------------------
(***************************************************************************)
(* The first states, and the preflight.                                    *)
(***************************************************************************)
LEMMA PreflightFacts ==
    ASSUME plan \in Plans
    PROVE  /\ Cardinality(Profiles) \in Nat \ {0}
           /\ Planned.preflight = IF plan.preflight THEN Cardinality(Profiles) ELSE 0
  <1>1. IsFiniteSet(Profiles) /\ Profiles # {}
    <2>1. Profiles = {Signature[role] : role \in DOMAIN Signature}
      BY DEF Profiles
    <2>2. IsFiniteSet({Signature[role] : role \in DOMAIN Signature})
      <3> DEFINE f == [role \in DOMAIN Signature |-> Signature[role]]
      <3>1. f \in Surjection(DOMAIN Signature, {Signature[role] : role \in DOMAIN Signature})
        BY DEF Surjection
      <3> HIDE DEF f
      <3> QED BY <3>1, ProfilesAreFew, FS_Surjection
    <2> QED BY <2>1, <2>2, ProfilesAreFew
  <1>2. Cardinality(Profiles) \in Nat /\ Cardinality(Profiles) # 0
    BY <1>1, FS_CardinalityType, FS_EmptySet
  <1> QED BY <1>2 DEF Planned

LEMMA InitHolds == Init => PipelineInv
  <1> SUFFICES ASSUME Init PROVE PipelineInv
    OBVIOUS
  <1>1. /\ plan \in Plans /\ stage = "preflight" /\ record = 1 /\ operator = 1
        /\ cache = <<>> /\ bytes = 0 /\ draft = NoDraft /\ candidates = <<>> /\ skips = {}
        /\ original = <<>> /\ tested = {} /\ case = NoCase /\ made = [k \in Kinds |-> 0]
    BY DEF Init
  <1>2. record \in DOMAIN Inputs /\ operator \in Positions /\ record \in Nat
    BY <1>1, PlanFacts
  <1>3. made \in [Kinds -> Nat] /\ \A k \in Kinds : made[k] = 0
    BY <1>1
  <1>4. PlaceOK
    BY <1>1, <1>2, <1>3 DEF PlaceOK, Early, Writing, NoDraft
  <1>5. WorkOK
    <2> SUFFICES ASSUME NEW k \in Work
                 PROVE  made[k] <= Cardinality(FreshUpTo(record - 1)) * Share(k)
                                   + (IF IsSaved(record) THEN 0 ELSE Used(k, stage, operator))
      BY DEF WorkOK
    <2>1. Used(k, stage, operator) \in Nat /\ Share(k) \in Nat
      BY <1>1, <1>2, UsedFacts DEF Stages, Early
    <2>2. Cardinality(FreshUpTo(record - 1)) \in Nat
      <3>1. record - 1 \in Nat
        BY <1>1
      <3> QED BY <1>1, <3>1, FreshFacts
    <2>3. Cardinality(FreshUpTo(record - 1)) * Share(k) \in Nat
      BY <2>1, <2>2, OneShareMore
    <2>4. made[k] = 0
      BY <1>3 DEF Work, Kinds
    <2> QED BY <2>1, <2>3, <2>4
  <1>6. PreflightOK
    <2>1. made.preflight = 0
      BY <1>3 DEF Kinds
    <2> QED BY <1>1, <2>1, PreflightFacts DEF PreflightOK
  <1>7. MaterialityOK
    <2>1. made.materiality = 0 /\ Cardinality(tested) = 0
      BY <1>1, <1>3, FS_EmptySet DEF Kinds
    <2>2. VariationsUpTo(record - 1) \in Nat
      BY <1>1, <1>2, VariationsFacts
    <2> QED BY <1>1, <2>1, <2>2 DEF MaterialityOK
  <1>8. CacheOK
    <2>1. <<>> \in Seq([key : {}, answer : {}, size : Nat]) /\ DOMAIN <<>> = {} /\ Len(<<>>) = 0
      BY EmptySeq
    <2>2. IsCache(<<>>)
      BY <2>1 DEF IsCache
    <2>3. SumOfSizes(<<>>) = 0
      <3>1. SizesOf(<<>>) = <<>>
        BY DEF SizesOf
      <3> QED BY <3>1, TotalOfNone DEF SumOfSizes, SizesOf
    <2> QED BY <1>1, <2>1, <2>2, <2>3, Limits DEF CacheOK
  <1>9. CandidatesOK
    BY <1>1, NoCandidates DEF CandidatesOK, Writing
  <1>10. TrialsOK
    BY <1>1 DEF TrialsOK
  <1> QED BY <1>4, <1>5, <1>6, <1>7, <1>8, <1>9, <1>10 DEF PipelineInv, CallsOK

\* A step that leaves the cache alone.
LEMMA CacheStays == CacheOK /\ UNCHANGED memory => CacheOK'
  <1> SUFFICES ASSUME CacheOK, UNCHANGED <<cache, bytes>> PROVE CacheOK'
    BY DEF memory
  <1> QED BY DEF CacheOK

\* What the verdict of a case depends on.
LEMMA CandidatesStay ==
    ASSUME PipelineInv, UNCHANGED <<plan, record, candidates>>
    PROVE  IsEarned(candidates)' /\ OperatorsOf(candidates)' = OperatorsOf(candidates)
           /\ PassedOperators' = PassedOperators
  <1>1. IsEarned(candidates)'
    BY Frames0 DEF PipelineInv, CandidatesOK, IsEarned, PassedIsEarned, Input
  <1>2. PassedOperators' = PassedOperators
    BY DEF PassedOperators, IsSaved
  <1> QED BY <1>1, <1>2 DEF OperatorsOf

\* A step from one stage of a record to another.
LEMMA WithinRecord ==
    ASSUME PipelineInv, UNCHANGED <<plan, record, tested>>, operator' \in Positions,
           stage' \in Stages \ {"preflight", "ended"}, stage # "ended",
           NEW kind, Spent(kind), kind \in Work => ~IsSaved(record),
           \A k \in Work : Used(k, stage, operator) + Cost(k, kind) <= Used(k, stage', operator'),
           stage' \in Early => operator' = 1, stage' \in Writing => ~IsSaved(record),
           stage' = "retry" => Operators[operator'].llm,
           stage' = "verify" => ~Operators[operator'].corrects
                                /\ draft'.frame \in {"none"} \cup Frames,
           draft' = [text |-> draft'.text, frame |-> draft'.frame, reasons |-> draft'.reasons]
    PROVE  PlaceOK' /\ CallsOK'
  <1>1. made' \in [Kinds -> Nat] /\ made'.preflight = made.preflight
        /\ made'.materiality = made.materiality
    BY SpentFacts
  <1>2. WorkOK'
    <2>1. PlaceOK /\ WorkOK /\ stage' \in Stages
      BY DEF PipelineInv, CallsOK
    <2> QED BY <2>1, WorkMoves
  <1>3. PreflightOK' /\ MaterialityOK'
    <2>1. stage' # "preflight" /\ stage' # "ended"
      OBVIOUS
    <2> QED BY <1>1, <2>1, PreflightStays, MaterialityMoves
  <1>4. PlaceOK'
    <2>1. Operators' = Operators /\ Positions' = Positions /\ (IsSaved(record)' <=> IsSaved(record))
      BY Frames0
    <2>2. Op' = Operators[operator']
      BY <2>1 DEF Op
    <2> QED BY <1>1, <2>1, <2>2 DEF PlaceOK, PipelineInv, Stages
  <1> QED BY <1>2, <1>3, <1>4 DEF CallsOK

LEMMA ReusePreflightKeeps == PipelineInv /\ ReusePreflight => PipelineInv'
  <1> SUFFICES ASSUME PipelineInv, ReusePreflight PROVE PipelineInv'
    OBVIOUS
  <1>1. /\ stage = "preflight" /\ stage' = "source"
        /\ UNCHANGED <<plan, record, operator, cache, bytes, draft, candidates, skips,
                       original, tested, case, made>>
    BY DEF ReusePreflight, memory, results, trials
  <1>2. PlaceOK' /\ CallsOK'
    <2>1. Spent("none") /\ "none" \notin Work
      BY <1>1 DEF Spent, Work
    <2>2. \A k \in Work : Used(k, stage, operator) + Cost(k, "none") <= Used(k, stage', operator')
      <3> SUFFICES ASSUME NEW k \in Work
                   PROVE  Used(k, stage, operator) + Cost(k, "none") <= Used(k, stage', operator')
        OBVIOUS
      <3>1. Used(k, stage, operator) = Used(k, stage', operator') /\ Cost(k, "none") = 0
        BY <1>1 DEF Used, Past, Early, Cost, Work
      <3>2. Used(k, stage, operator) \in Nat
        BY UsedFacts DEF PipelineInv, PlaceOK, Stages
      <3> QED BY <3>1, <3>2
    <2>3. stage' \in Stages \ {"preflight", "ended"} /\ stage' \notin Writing
      BY <1>1 DEF Stages, Early, Writing
    <2>4. operator' \in Positions /\ operator' = 1
          /\ draft' = [text |-> draft'.text, frame |-> draft'.frame, reasons |-> draft'.reasons]
      BY <1>1 DEF PipelineInv, PlaceOK, Early
    <2> QED BY <1>1, <2>1, <2>2, <2>3, <2>4, WithinRecord
  <1>3. CacheOK'
    BY <1>1, CacheStays DEF PipelineInv, memory
  <1>4. CandidatesOK'
    <2>1. IsEarned(candidates)' /\ Positions' = Positions
      BY <1>1, CandidatesStay, Frames0
    <2>2. stage \in Early /\ stage' \notin Writing
      BY <1>1 DEF Early, Writing
    <2> QED BY <1>1, <2>1, <2>2 DEF PipelineInv, CandidatesOK
  <1>5. TrialsOK'
    BY <1>1 DEF PipelineInv, TrialsOK
  <1> QED BY <1>2, <1>3, <1>4, <1>5 DEF PipelineInv

LEMMA PreflightKeeps == PipelineInv /\ Preflight => PipelineInv'
  <1> SUFFICES ASSUME PipelineInv, Preflight PROVE PipelineInv'
    OBVIOUS
  <1>1. /\ stage = "preflight" /\ plan.preflight
        /\ stage' \in {"ended", "source", "preflight"}
        /\ stage' = "preflight" => made.preflight + 1 # Cardinality(Profiles)
        /\ made' = [made EXCEPT !.preflight = @ + 1]
        /\ UNCHANGED <<plan, record, operator, cache, bytes, draft, candidates, skips,
                       original, tested, case>>
    BY DEF Preflight, memory, results, trials
  <1>2. /\ made \in [Kinds -> Nat] /\ made' \in [Kinds -> Nat]
        /\ \A k \in Work : made'[k] = made[k]
        /\ made'.preflight = made.preflight + 1 /\ made'.materiality = made.materiality
    BY <1>1 DEF PipelineInv, PlaceOK, Kinds, Work
  <1>3. /\ plan \in Plans /\ stage' \in Stages /\ stage' \notin Writing /\ operator \in Positions
        /\ stage \in Early /\ stage \in Stages
    BY <1>1 DEF PipelineInv, PlaceOK, Stages, Early, Writing, Late
  <1>4. PlaceOK'
    <2>1. Operators' = Operators /\ Positions' = Positions
      BY <1>1, Frames0
    <2>2. stage' \notin {"retry", "verify"}
      BY <1>1
    <2> QED BY <1>1, <1>2, <1>3, <2>1, <2>2 DEF PlaceOK, PipelineInv, Stages
  <1>5. WorkOK'
    <2> SUFFICES ASSUME NEW k \in Work
                 PROVE  made'[k] <= Cardinality(FreshUpTo(record' - 1)) * Share(k)
                                    + (IF IsSaved(record') THEN 0 ELSE Used(k, stage', operator'))
      BY <1>1, Frames0 DEF WorkOK
    <2>1. made[k] <= Cardinality(FreshUpTo(record - 1)) * Share(k)
                     + (IF IsSaved(record) THEN 0 ELSE Used(k, stage, operator))
      BY DEF PipelineInv, CallsOK, WorkOK
    <2>2. Used(k, stage, operator) = 0 /\ made'[k] = made[k] /\ made[k] \in Nat
      <3>1. Past(k, stage, operator) = 0 /\ stage \in Early
        BY <1>3 DEF Past
      <3>2. LlmUpTo(0) = {} /\ Cardinality({}) = 0
        <4>1. 1 .. 0 = {}
          OBVIOUS
        <4> QED BY <4>1, FS_EmptySet DEF LlmUpTo
      <3>3. Used(k, stage, operator) = 0
        BY <3>1, <3>2 DEF Used
      <3>4. made'[k] = made[k] /\ made[k] \in Nat
        BY <1>2 DEF Work, Kinds
      <3> QED BY <3>3, <3>4
    <2>3. Used(k, stage', operator) \in Nat /\ Share(k) \in Nat
      BY <1>3, UsedFacts
    <2>4. Cardinality(FreshUpTo(record - 1)) \in Nat
      <3>1. record - 1 \in Nat
        BY <1>3, PlanFacts DEF PipelineInv, PlaceOK
      <3> QED BY <1>3, <3>1, FreshFacts
    <2>5. Cardinality(FreshUpTo(record - 1)) * Share(k) \in Nat
      BY <2>3, <2>4, OneShareMore
    <2> QED BY <1>1, <2>1, <2>2, <2>3, <2>5
  <1>6. PreflightOK'
    <2>1. Planned' = Planned /\ plan' = plan
      BY <1>1, Frames0
    <2>2. made.preflight < Cardinality(Profiles) /\ Planned.preflight = Cardinality(Profiles)
          /\ Cardinality(Profiles) \in Nat
      BY <1>1, <1>3, PreflightFacts DEF PipelineInv, CallsOK, PreflightOK
    <2>3. made.preflight \in Nat
      BY <1>2 DEF Kinds
    <2> QED BY <1>1, <1>2, <2>1, <2>2, <2>3 DEF PreflightOK
  <1>7. MaterialityOK'
    <2>1. record' = record /\ tested' = tested /\ stage # "ended"
      BY <1>1
    <2> QED BY <1>1, <1>2, <2>1, MaterialityMoves
  <1>8. CacheOK'
    BY <1>1, CacheStays DEF PipelineInv, memory
  <1>9. CandidatesOK'
    <2>1. IsEarned(candidates)' /\ Positions' = Positions
      BY <1>1, CandidatesStay, Frames0
    <2>2. stage' \notin {"original", "variations"}
      BY <1>1
    <2> QED BY <1>1, <1>3, <2>1, <2>2 DEF PipelineInv, CandidatesOK
  <1>10. TrialsOK'
    BY <1>1 DEF PipelineInv, TrialsOK
  <1> QED BY <1>4, <1>5, <1>6, <1>7, <1>8, <1>9, <1>10 DEF PipelineInv, CallsOK

-----------------------------------------------------------------------------
(***************************************************************************)
(* The writing of candidates.                                              *)
(***************************************************************************)
\* What a record may have cost when its first operators are done with.
Turned(kind, op) ==
    IF kind = "source" THEN 1
    ELSE IF kind \in {"candidate", "verify"} THEN op ELSE Cardinality(LlmUpTo(op))

LEMMA Bounds ==
    ASSUME plan \in Plans, NEW op \in Positions
    PROVE  /\ \A k \in Work : Used(k, "source", op) = 0
           /\ \A st \in Writing :
                  /\ Used("source", st, op) = 1 /\ Used("verify", st, op) = op - 1
                  /\ Used("candidate", st, op) = IF st = "verify" THEN op ELSE op - 1
                  /\ Used("generation", st, op) =
                         Cardinality(LlmUpTo(IF st = "operator" THEN op - 1 ELSE op))
                  /\ Used("retries", st, op) =
                         Cardinality(LlmUpTo(IF st \in {"operator", "retry"} THEN op - 1 ELSE op))
  <1>1. ASSUME NEW k \in Work PROVE Used(k, "source", op) = 0
    <2>1. Past(k, "source", op) = 0 /\ "source" \in Early
      BY DEF Past, Early
    <2>2. LlmUpTo(0) = {} /\ Cardinality({}) = 0
      <3>1. 1 .. 0 = {}
        OBVIOUS
      <3> QED BY <3>1, FS_EmptySet DEF LlmUpTo
    <2> QED BY <2>1, <2>2 DEF Used
  <1>2. ASSUME NEW st \in Writing
        PROVE  /\ Used("source", st, op) = 1 /\ Used("verify", st, op) = op - 1
               /\ Used("candidate", st, op) = IF st = "verify" THEN op ELSE op - 1
               /\ Used("generation", st, op) =
                      Cardinality(LlmUpTo(IF st = "operator" THEN op - 1 ELSE op))
               /\ Used("retries", st, op) =
                      Cardinality(LlmUpTo(IF st \in {"operator", "retry"} THEN op - 1 ELSE op))
    <2>1. st \notin Early /\ st \notin Late
      BY DEF Writing, Early, Late
    <2>2. /\ Past("verify", st, op) = op - 1
          /\ Past("candidate", st, op) = IF st = "verify" THEN op ELSE op - 1
          /\ Past("generation", st, op) = IF st = "operator" THEN op - 1 ELSE op
          /\ Past("retries", st, op) = IF st \in {"operator", "retry"} THEN op - 1 ELSE op
      BY <2>1 DEF Past, Before, Writing
    <2>3. Used("source", st, op) = 1
      BY <2>1 DEF Used
    <2> HIDE DEF Past
    <2> QED BY <2>2, <2>3 DEF Used
  <1> QED BY <1>1, <1>2

LEMMA Turning ==
    ASSUME plan \in Plans, NEW k \in Work, NEW op \in Positions
    PROVE  /\ Turned(k, op) \in Nat /\ Turned(k, op) <= Share(k)
           /\ op + 1 \in Positions => Used(k, "operator", op + 1) = Turned(k, op)
           /\ op = Len(Operators) => Turned(k, op) = Share(k)
           /\ \A n : Used(k, "original", n) = Share(k)
  <1>1. Len(Operators) \in Nat \ {0} /\ op \in Nat /\ op \in 1 .. Len(Operators)
    BY PlanFacts
  <1>2. /\ Share(k) = IF k = "source" THEN 1 ELSE IF k \in {"candidate", "verify"}
                      THEN Len(Operators) ELSE Cardinality(LlmUpTo(Len(Operators)))
        /\ \A n : Used(k, "original", n) = Share(k)
    BY DEF Share, Used, Past, Early, Late
  <1>3. Cardinality(LlmUpTo(op)) \in Nat
        /\ Cardinality(LlmUpTo(op)) <= Cardinality(LlmUpTo(Len(Operators)))
    <2>1. op \in 0 .. Len(Operators) /\ Len(Operators) \in 0 .. Len(Operators)
      BY <1>1
    <2> QED BY <2>1, LlmFacts
  <1>4. Turned(k, op) \in Nat /\ Turned(k, op) <= Share(k)
    BY <1>1, <1>2, <1>3 DEF Turned
  <1>5. op = Len(Operators) => Turned(k, op) = Share(k)
    BY <1>2 DEF Turned
  <1>6. ASSUME op + 1 \in Positions PROVE Used(k, "operator", op + 1) = Turned(k, op)
    <2>1. PICK m \in Positions : m = op + 1 /\ m - 1 = op
      BY <1>1, <1>6
    <2>2. /\ Used("source", "operator", m) = 1 /\ Used("verify", "operator", m) = m - 1
          /\ Used("candidate", "operator", m) = m - 1
          /\ Used("generation", "operator", m) = Cardinality(LlmUpTo(m - 1))
          /\ Used("retries", "operator", m) = Cardinality(LlmUpTo(m - 1))
      BY Bounds DEF Writing
    <2> QED BY <2>1, <2>2 DEF Turned, Work
  <1> QED BY <1>2, <1>4, <1>5, <1>6

LEMMA GoOnKeeps ==
    ASSUME PipelineInv, NEW produced, NEW skipped, GoOn(produced, skipped), plan' = plan, CacheOK',
           NEW kind, Spent(kind), stage \in Writing,
           IsEarned(produced), skipped \subseteq Positions,
           skipped \cup OperatorsOf(produced) = 1 .. operator,
           \A k \in Work : Used(k, stage, operator) + Cost(k, kind) <= Turned(k, operator)
    PROVE  PipelineInv'
  <1>1. /\ plan \in Plans /\ operator \in Positions /\ ~IsSaved(record) /\ stage \in Stages
        /\ operator \in Nat /\ Len(Operators) \in Nat /\ operator <= Len(Operators)
        /\ Positions = 1 .. Len(Operators) /\ 1 \in Positions
    <2>1. plan \in Plans /\ operator \in Positions /\ ~IsSaved(record) /\ stage \in Stages
      BY DEF PipelineInv, PlaceOK, Stages
    <2>2. Len(Operators) \in Nat \ {0} /\ Positions = 1 .. Len(Operators)
      BY <2>1, PlanFacts
    <2> QED BY <2>1, <2>2
  <1>2. /\ original = <<>> /\ tested = {} /\ case = NoCase
        /\ stage \notin {"preflight", "ended", "original", "variations", "source"}
    BY DEF PipelineInv, TrialsOK, Writing
  <1>3. \A k \in Work : Used(k, stage, operator) + Cost(k, kind) <= Share(k)
    <2> SUFFICES ASSUME NEW k \in Work PROVE Used(k, stage, operator) + Cost(k, kind) <= Share(k)
      OBVIOUS
    <2>1. Turned(k, operator) \in Nat /\ Turned(k, operator) <= Share(k)
      BY <1>1, Turning
    <2>2. Used(k, stage, operator) \in Nat /\ Share(k) \in Nat /\ Cost(k, kind) \in Nat
      BY <1>1, UsedFacts DEF Cost
    <2> QED BY <2>1, <2>2
  <1>4. CASE operator < Len(Operators)
    <2>1. /\ stage' = "operator" /\ operator' = operator + 1
          /\ candidates' = produced /\ skips' = skipped /\ draft' = NoDraft
          /\ UNCHANGED <<record, original, tested, case>>
      BY <1>4 DEF GoOn, trials
    <2>2. operator' \in Positions /\ operator + 1 \in Positions
      BY <1>1, <1>4, <2>1
    <2>3. \A k \in Work : Used(k, stage, operator) + Cost(k, kind) <= Used(k, stage', operator')
      BY <1>1, <2>1, <2>2, Turning
    <2>4. stage' \in Stages \ {"preflight", "ended"} /\ stage' \notin {"retry", "verify", "variations"}
          /\ stage' \notin Early /\ stage' \notin {"original", "variations"}
      BY <2>1 DEF Stages, Early, Writing
    <2>5. draft' = [text |-> draft'.text, frame |-> draft'.frame, reasons |-> draft'.reasons]
      BY <2>1 DEF NoDraft
    <2>6. PlaceOK' /\ CallsOK'
      BY <1>1, <1>2, <2>1, <2>2, <2>3, <2>4, <2>5, WithinRecord
    <2>7. CandidatesOK'
      <3>1. IsEarned(candidates)'
        BY <2>1, Frames0 DEF IsEarned, PassedIsEarned, Input
      <3>2. OperatorsOf(candidates)' = OperatorsOf(produced)
        BY <2>1 DEF OperatorsOf
      <3>3. 1 .. operator' - 1 = 1 .. operator
        BY <1>1, <2>1
      <3>4. Positions' = Positions
        BY Frames0
      <3> QED BY <2>1, <2>4, <3>1, <3>2, <3>3, <3>4 DEF CandidatesOK
    <2>8. TrialsOK'
      BY <1>2, <2>1 DEF TrialsOK
    <2> QED BY <2>6, <2>7, <2>8 DEF PipelineInv
  <1>5. CASE ~(operator < Len(Operators)) /\ AugmentationIsValid(produced)
    <2>1. /\ stage' = "original" /\ operator' = 1
          /\ candidates' = produced /\ skips' = skipped /\ draft' = NoDraft
          /\ UNCHANGED <<record, original, tested, case>>
      BY <1>5 DEF GoOn, trials
    <2>2. operator' \in Positions
      BY <1>1, <2>1
    <2>3. \A k \in Work : Used(k, stage, operator) + Cost(k, kind) <= Used(k, stage', operator')
      BY <1>1, <1>3, <2>1, Turning
    <2>4. stage' \in Stages \ {"preflight", "ended"} /\ stage' \notin {"retry", "verify", "variations"}
          /\ stage' \notin Early /\ stage' \notin Writing
      BY <2>1 DEF Stages, Early, Writing, Late
    <2>5. draft' = [text |-> draft'.text, frame |-> draft'.frame, reasons |-> draft'.reasons]
      BY <2>1 DEF NoDraft
    <2>6. PlaceOK' /\ CallsOK'
      BY <1>1, <1>2, <2>1, <2>2, <2>3, <2>4, <2>5, WithinRecord
    <2>7. CandidatesOK'
      <3>1. IsEarned(candidates)'
        BY <2>1, Frames0 DEF IsEarned, PassedIsEarned, Input
      <3>2. OperatorsOf(candidates)' = OperatorsOf(produced)
        BY <2>1 DEF OperatorsOf
      <3>3. skipped \cup OperatorsOf(produced) = Positions
        BY <1>1, <1>5
      <3>4. Positions' = Positions
        BY Frames0
      <3>5. \A i \in DOMAIN produced : produced[i].passed => produced[i].frame # "none"
        BY <1>5 DEF AugmentationIsValid, Range
      <3> QED BY <2>1, <2>4, <3>1, <3>2, <3>3, <3>4, <3>5 DEF CandidatesOK
    <2>8. TrialsOK'
      BY <1>2, <2>1 DEF TrialsOK
    <2> QED BY <2>6, <2>7, <2>8 DEF PipelineInv
  <1>6. CASE ~(operator < Len(Operators)) /\ ~AugmentationIsValid(produced)
    <2>1. NextRecord
      BY <1>6 DEF GoOn
    <2> QED BY <1>1, <1>2, <1>3, <2>1, NextRecordKeeps
  <1> QED BY <1>4, <1>5, <1>6

\* Where a call is made, and where none is.
LEMMA Behind ==
    ASSUME plan \in Plans, NEW op \in Positions
    PROVE  /\ \A k \in Work :
                  /\ Used(k, "operator", op) \in Nat
                  /\ Used(k, "operator", op) <= Turned(k, op)
                  /\ Used(k, "operator", op) <= Used(k, "reparse", op)
                  /\ Operators[op].llm =>
                         /\ Used(k, "operator", op) + Cost(k, "generation") <= Used(k, "retry", op)
                         /\ Used(k, "retry", op) + Cost(k, "retries") <= Used(k, "reparse", op)
                  /\ Used(k, "retry", op) \in Nat /\ Used(k, "retry", op) <= Used(k, "reparse", op)
                  /\ Used(k, "reparse", op) + Cost(k, "candidate") <= Used(k, "verify", op)
                  /\ Used(k, "verify", op) + Cost(k, "verify") <= Turned(k, op)
                  /\ Used(k, "verify", op) \in Nat /\ Used(k, "verify", op) <= Turned(k, op)
                  /\ Used(k, "reparse", op) \in Nat
  <1>1. /\ op \in Nat /\ op > 0 /\ op - 1 \in 0 .. Len(Operators) /\ op \in 0 .. Len(Operators)
        /\ op - 1 \in Nat /\ op - 1 \in 0 .. op /\ op - 1 + 1 = op
    BY PlanFacts
  <1>2. PICK fewer \in Nat, more \in Nat :
            /\ fewer = Cardinality(LlmUpTo(op - 1)) /\ more = Cardinality(LlmUpTo(op))
            /\ fewer <= more /\ (Operators[op].llm => more = fewer + 1)
    <2>1. Cardinality(LlmUpTo(op - 1)) \in Nat /\ Cardinality(LlmUpTo(op)) \in Nat
      BY <1>1, LlmFacts
    <2>2. Cardinality(LlmUpTo(op - 1)) <= Cardinality(LlmUpTo(op))
          /\ (Operators[op].llm => Cardinality(LlmUpTo(op)) = Cardinality(LlmUpTo(op - 1)) + 1)
      BY <1>1, LlmFacts
    <2> QED BY <2>1, <2>2
  <1>3. \A st \in Writing :
            /\ Used("source", st, op) = 1 /\ Used("verify", st, op) = op - 1
            /\ Used("candidate", st, op) = (IF st = "verify" THEN op ELSE op - 1)
            /\ Used("generation", st, op) = (IF st = "operator" THEN fewer ELSE more)
            /\ Used("retries", st, op) = (IF st \in {"operator", "retry"} THEN fewer ELSE more)
    BY <1>2, Bounds
  <1>4. /\ Turned("source", op) = 1 /\ Turned("verify", op) = op /\ Turned("candidate", op) = op
        /\ Turned("generation", op) = more /\ Turned("retries", op) = more
    BY <1>2 DEF Turned
  <1>5. {"operator", "retry", "reparse", "verify"} \subseteq Writing
    BY DEF Writing
  <1> SUFFICES ASSUME NEW k \in Work
               PROVE  /\ Used(k, "operator", op) \in Nat
                      /\ Used(k, "operator", op) <= Turned(k, op)
                      /\ Used(k, "operator", op) <= Used(k, "reparse", op)
                      /\ Operators[op].llm =>
                             /\ Used(k, "operator", op) + Cost(k, "generation")
                                    <= Used(k, "retry", op)
                             /\ Used(k, "retry", op) + Cost(k, "retries")
                                    <= Used(k, "reparse", op)
                      /\ Used(k, "retry", op) \in Nat
                      /\ Used(k, "retry", op) <= Used(k, "reparse", op)
                      /\ Used(k, "reparse", op) + Cost(k, "candidate") <= Used(k, "verify", op)
                      /\ Used(k, "verify", op) + Cost(k, "verify") <= Turned(k, op)
                      /\ Used(k, "verify", op) \in Nat
                      /\ Used(k, "verify", op) <= Turned(k, op)
                      /\ Used(k, "reparse", op) \in Nat
    OBVIOUS
  <1>6. CASE k = "source"
    BY <1>3, <1>4, <1>5, <1>6 DEF Cost
  <1>7. CASE k = "candidate"
    BY <1>1, <1>3, <1>4, <1>5, <1>7 DEF Cost
  <1>8. CASE k = "verify"
    BY <1>1, <1>3, <1>4, <1>5, <1>8 DEF Cost
  <1>9. CASE k = "generation"
    BY <1>2, <1>3, <1>4, <1>5, <1>9 DEF Cost
  <1>10. CASE k = "retries"
    BY <1>2, <1>3, <1>4, <1>5, <1>10 DEF Cost
  <1> QED BY <1>6, <1>7, <1>8, <1>9, <1>10 DEF Work

LEMMA TurnedIsShared ==
    ASSUME plan \in Plans, operator \in Positions, stage \in Stages, NEW kind,
           \A k \in Work : Used(k, stage, operator) + Cost(k, kind) <= Turned(k, operator)
    PROVE  \A k \in Work : Used(k, stage, operator) + Cost(k, kind) <= Share(k)
  <1> SUFFICES ASSUME NEW k \in Work PROVE Used(k, stage, operator) + Cost(k, kind) <= Share(k)
    OBVIOUS
  <1>1. Turned(k, operator) \in Nat /\ Turned(k, operator) <= Share(k)
    BY Turning
  <1>2. Used(k, stage, operator) \in Nat /\ Share(k) \in Nat /\ Cost(k, kind) \in Nat
    BY UsedFacts DEF Cost
  <1> QED BY <1>1, <1>2

LEMMA UseSavedAugmentationKeeps == PipelineInv /\ UseSavedAugmentation => PipelineInv'
  <1> SUFFICES ASSUME PipelineInv, UseSavedAugmentation PROVE PipelineInv'
    OBVIOUS
  <1>1. /\ stage = "source" /\ IsSaved(record) /\ stage' = "original"
        /\ UNCHANGED <<plan, record, operator, cache, bytes, draft, candidates, skips,
                       original, tested, case, made>>
    BY DEF UseSavedAugmentation, memory, results, trials
  <1>2. /\ plan \in Plans /\ operator \in Positions /\ stage \in Stages
        /\ draft = [text |-> draft.text, frame |-> draft.frame, reasons |-> draft.reasons]
    BY DEF PipelineInv, PlaceOK, Stages
  <1>3. PlaceOK' /\ CallsOK'
    <2>1. Spent("none") /\ "none" \notin Work
      BY <1>1 DEF Spent, Work
    <2>2. \A k \in Work : Used(k, stage, operator) + Cost(k, "none") <= Used(k, stage', operator')
      <3> SUFFICES ASSUME NEW k \in Work
                   PROVE  Used(k, stage, operator) + Cost(k, "none") <= Used(k, stage', operator')
        OBVIOUS
      <3>1. Used(k, stage, operator) = 0 /\ Cost(k, "none") = 0
        BY <1>1, <1>2, Bounds DEF Cost, Work
      <3>2. Used(k, stage', operator') = Share(k) /\ Share(k) \in Nat
        BY <1>1, <1>2, Turning, UsedFacts
      <3> QED BY <3>1, <3>2
    <2>3. stage' \in Stages \ {"preflight", "ended"} /\ stage' \notin Writing
          /\ stage' \notin {"retry", "verify"} /\ stage # "ended" /\ stage' \notin Early
      BY <1>1 DEF Stages, Late, Writing, Early
    <2> QED BY <1>1, <1>2, <2>1, <2>2, <2>3, WithinRecord
  <1>4. CacheOK'
    BY <1>1, CacheStays DEF PipelineInv, memory
  <1>5. CandidatesOK'
    <2>1. IsEarned(candidates)' /\ Positions' = Positions /\ IsSaved(record)'
      BY <1>1, CandidatesStay, Frames0
    <2>2. stage' \notin Early /\ stage' \notin Writing
      BY <1>1 DEF Early, Writing
    <2> QED BY <1>1, <2>1, <2>2 DEF PipelineInv, CandidatesOK
  <1>6. TrialsOK'
    <2>1. original = <<>> /\ tested = {} /\ case = NoCase
      BY <1>1 DEF PipelineInv, TrialsOK
    <2> QED BY <1>1, <2>1 DEF TrialsOK
  <1> QED BY <1>3, <1>4, <1>5, <1>6 DEF PipelineInv

LEMMA DeconstructSourceKeeps == PipelineInv /\ DeconstructSource => PipelineInv'
  <1> SUFFICES ASSUME PipelineInv, DeconstructSource PROVE PipelineInv'
    OBVIOUS
  <1>1. /\ stage = "source" /\ ~IsSaved(record) /\ plan' = plan
    BY DEF DeconstructSource
  <1>2. PICK answer \in Failures \cup Unusable \cup {"usable"} :
            /\ Ask("source", <<"deconstruct", Input, "no reference">>,
                   Unusable \cup {"usable"}, answer)
            /\ IF answer \in Failures THEN Fail(answer)
               ELSE /\ stage' = IF answer = "usable" THEN "operator" ELSE "original"
                    /\ skips' = IF answer = "usable" THEN {} ELSE Positions
                    /\ UNCHANGED <<record, operator, draft, candidates, trials>>
    BY DEF DeconstructSource
  <1>3. /\ plan \in Plans /\ operator \in Positions /\ made \in [Kinds -> Nat] /\ CacheOK
        /\ draft = [text |-> draft.text, frame |-> draft.frame, reasons |-> draft.reasons]
        /\ candidates = <<>> /\ skips = {} /\ stage \in Stages
        /\ original = <<>> /\ tested = {} /\ case = NoCase
    BY <1>1 DEF PipelineInv, PlaceOK, Stages, CandidatesOK, TrialsOK, Early
  <1>4. CacheOK' /\ Spent("source")
    <2>1. PICK key : key = <<"deconstruct", Input, "no reference">>
      OBVIOUS
    <2>2. Size[key[1]] \in Nat /\ "source" \in Kinds /\ "source" \in Work
      BY <2>1, SizesAreNat DEF Kinds, Work
    <2>3. PICK proper : proper = Unusable \cup {"usable"}
      OBVIOUS
    <2>4. Ask("source", key, proper, answer)
      BY <1>2, <2>1, <2>3
    <2> QED BY <1>3, <2>2, <2>4, AskKeeps DEF Spent
  <1>5. \A k \in Work : Used(k, stage, operator) + Cost(k, "source") <= Turned(k, operator)
                        /\ Used(k, stage, operator) = 0 /\ Cost(k, "source") \in {0, 1}
                        /\ (k # "source" => Cost(k, "source") = 0)
    <2> SUFFICES ASSUME NEW k \in Work
                 PROVE  /\ Used(k, stage, operator) + Cost(k, "source") <= Turned(k, operator)
                        /\ Used(k, stage, operator) = 0 /\ Cost(k, "source") \in {0, 1}
                        /\ (k # "source" => Cost(k, "source") = 0)
      OBVIOUS
    <2>1. Used(k, stage, operator) = 0
      BY <1>1, <1>3, Bounds
    <2>2. Turned(k, operator) \in Nat /\ (k = "source" => Turned(k, operator) = 1)
      BY <1>3, Turning DEF Turned
    <2>3. Cost(k, "source") \in {0, 1} /\ (k # "source" => Cost(k, "source") = 0)
      BY DEF Cost
    <2> QED BY <2>1, <2>2, <2>3
  <1>6. \A k \in Work : Used(k, stage, operator) + Cost(k, "source") <= Share(k)
    <2> SUFFICES ASSUME NEW k \in Work
                 PROVE  Used(k, stage, operator) + Cost(k, "source") <= Share(k)
      OBVIOUS
    <2>1. Turned(k, operator) \in Nat /\ Share(k) \in Nat /\ Turned(k, operator) <= Share(k)
      <3>1. Share(k) \in Nat
        BY <1>3, UsedFacts
      <3> QED BY <1>3, <3>1, Turning
    <2>2. Used(k, stage, operator) + Cost(k, "source") \in Nat
      BY <1>5
    <2> QED BY <1>5, <2>1, <2>2
  <1>7. CASE answer \in Failures
    <2>1. Fail(answer) /\ stage \in {"source"} \cup Writing
      BY <1>1, <1>2, <1>7
    <2> QED BY <1>1, <1>4, <1>6, <2>1, FailKeeps
  <1>8. CASE answer \notin Failures
    <2>1. /\ stage' \in {"operator", "original"}
          /\ skips' = IF stage' = "operator" THEN {} ELSE Positions
          /\ UNCHANGED <<record, operator, draft, candidates, original, tested, case>>
      <3>1. /\ stage' = IF answer = "usable" THEN "operator" ELSE "original"
            /\ skips' = IF answer = "usable" THEN {} ELSE Positions
            /\ UNCHANGED <<record, operator, draft, candidates, trials>>
        BY <1>2, <1>8
      <3> QED BY <3>1 DEF trials
    <2>2. operator = 1 /\ stage \in Early
      BY <1>1 DEF PipelineInv, PlaceOK, Early
    <2>3. /\ stage' \in Stages \ {"preflight", "ended"} /\ stage' \notin {"retry", "verify"}
          /\ stage # "ended" /\ stage' \notin Early /\ stage' # "variations"
          /\ (stage' \in Writing => stage' = "operator")
      BY <1>1, <2>1 DEF Stages, Writing, Late, Early
    <2>4. \A k \in Work : Used(k, stage, operator) + Cost(k, "source") <= Used(k, stage', operator')
      <3> SUFFICES ASSUME NEW k \in Work
                   PROVE  Used(k, stage, operator) + Cost(k, "source") <= Used(k, stage', operator')
        OBVIOUS
      <3>1. CASE stage' = "original"
        BY <1>3, <1>6, <2>1, <3>1, Turning
      <3>2. CASE stage' = "operator"
        <4>1. Used(k, stage', operator') \in Nat
          BY <1>3, <2>1, <2>3, UsedFacts
        <4>2. k = "source" => Used(k, stage', operator') = 1
          BY <1>3, <2>1, <3>2, Bounds DEF Writing
        <4> QED BY <1>5, <4>1, <4>2
      <3> QED BY <2>1, <3>1, <3>2
    <2>5. PlaceOK' /\ CallsOK'
      BY <1>1, <1>3, <1>4, <2>1, <2>2, <2>3, <2>4, WithinRecord
    <2>6. CandidatesOK'
      <3>1. IsEarned(candidates)' /\ Positions' = Positions /\ OperatorsOf(candidates)' = {}
        <4>1. IsEarned(candidates)' /\ OperatorsOf(candidates)' = OperatorsOf(candidates)
          BY <1>1, <2>1, CandidatesStay
        <4> QED BY <1>1, <1>3, <4>1, Frames0, NoCandidates
      <3>2. DOMAIN candidates' = {}
        BY <1>3, <2>1
      <3>3. stage' = "operator" => 1 .. operator' - 1 = {}
        <4>1. 1 .. 1 - 1 = {}
          OBVIOUS
        <4> QED BY <2>1, <2>2, <4>1
      <3> QED BY <2>1, <2>3, <3>1, <3>2, <3>3 DEF CandidatesOK
    <2>7. TrialsOK'
      BY <1>3, <2>1 DEF TrialsOK
    <2> QED BY <1>4, <2>5, <2>6, <2>7 DEF PipelineInv
  <1> QED BY <1>7, <1>8

LEMMA NotApplicableKeeps == PipelineInv /\ NotApplicable => PipelineInv'
  <1> SUFFICES ASSUME PipelineInv, NotApplicable PROVE PipelineInv'
    OBVIOUS
  <1>1. PICK produced, skipped :
            /\ produced = candidates /\ skipped = skips \cup {operator}
            /\ GoOn(produced, skipped)
    BY DEF NotApplicable
  <1>2. stage = "operator" /\ stage \in Writing /\ UNCHANGED <<plan, memory, made>>
    BY DEF NotApplicable, Writing
  <1>3. /\ plan \in Plans /\ operator \in Positions /\ Positions = 1 .. Len(Operators)
        /\ Len(Operators) \in Nat
    BY PlanFacts DEF PipelineInv, PlaceOK
  <1>4. CacheOK' /\ Spent("none")
    BY <1>2, CacheStays DEF PipelineInv, Spent
  <1>5. IsEarned(produced) /\ skips \cup OperatorsOf(produced) = 1 .. operator - 1
        /\ skipped \subseteq Positions
    BY <1>1, <1>2, <1>3 DEF PipelineInv, CandidatesOK
  <1>6. skipped \cup OperatorsOf(produced) = 1 .. operator
    <2>1. (1 .. operator - 1) \cup {operator} = 1 .. operator
      BY <1>3
    <2> QED BY <1>1, <1>5, <2>1
  <1>7. \A k \in Work : Used(k, stage, operator) + Cost(k, "none") <= Turned(k, operator)
    <2> SUFFICES ASSUME NEW k \in Work
                 PROVE  Used(k, stage, operator) + Cost(k, "none") <= Turned(k, operator)
      OBVIOUS
    <2>1. Cost(k, "none") = 0 /\ Used(k, stage, operator) <= Turned(k, operator)
          /\ Used(k, stage, operator) \in Nat
      BY <1>2, <1>3, Behind DEF Cost, Work
    <2> QED BY <2>1
  <1>8. "none" \notin Work
    BY DEF Work
  <1> QED BY <1>1, <1>2, <1>4, <1>5, <1>6, <1>7, <1>8, GoOnKeeps

\* A step from one stage of writing to another.
LEMMA WritingKeeps ==
    ASSUME PipelineInv, UNCHANGED <<plan, record, operator, candidates, skips, original, tested, case>>,
           CacheOK', NEW kind, Spent(kind), stage \in Writing, stage' \in Writing,
           stage' = "retry" => Op.llm,
           stage' = "verify" => ~Op.corrects /\ draft'.frame \in {"none"} \cup Frames,
           draft' = [text |-> draft'.text, frame |-> draft'.frame, reasons |-> draft'.reasons],
           \A k \in Work : Used(k, stage, operator) + Cost(k, kind) <= Used(k, stage', operator)
    PROVE  PipelineInv'
  <1>1. plan \in Plans /\ operator \in Positions /\ ~IsSaved(record)
    BY DEF PipelineInv, PlaceOK
  <1>2. /\ stage' \in Stages \ {"preflight", "ended"} /\ stage' \notin Early
        /\ stage # "ended" /\ stage' \notin {"original", "variations"}
        /\ stage # "variations"
    BY DEF Stages, Early, Writing
  <1>3. PlaceOK' /\ CallsOK'
    <2>1. operator' \in Positions
      BY <1>1
    <2>2. stage' = "retry" => Operators[operator'].llm
      BY DEF Op
    <2>3. stage' = "verify" => ~Operators[operator'].corrects
                               /\ draft'.frame \in {"none"} \cup Frames
      BY DEF Op
    <2>4. \A k \in Work : Used(k, stage, operator) + Cost(k, kind) <= Used(k, stage', operator')
      OBVIOUS
    <2> QED BY <1>1, <1>2, <2>1, <2>2, <2>3, <2>4, WithinRecord
  <1>4. CandidatesOK'
    <2>1. IsEarned(candidates)' /\ OperatorsOf(candidates)' = OperatorsOf(candidates)
          /\ Positions' = Positions
      BY CandidatesStay, Frames0
    <2> QED BY <1>2, <2>1 DEF PipelineInv, CandidatesOK
  <1>5. TrialsOK'
    BY <1>2 DEF PipelineInv, TrialsOK
  <1> QED BY <1>3, <1>4, <1>5 DEF PipelineInv

LEMMA WriteKeeps == PipelineInv /\ Write => PipelineInv'
  <1> SUFFICES ASSUME PipelineInv, Write PROVE PipelineInv'
    OBVIOUS
  <1>1. PICK text \in Op.writes : draft' = [draft EXCEPT !.text = text]
    BY DEF Write
  <1>2. /\ stage = "operator" /\ stage' = "reparse" /\ {stage, stage'} \subseteq Writing
        /\ UNCHANGED <<plan, record, operator, cache, bytes, candidates, skips,
                       original, tested, case, made>>
    BY DEF Write, memory, results, trials, Writing
  <1>3. plan \in Plans /\ operator \in Positions
        /\ draft = [text |-> draft.text, frame |-> draft.frame, reasons |-> draft.reasons]
    BY DEF PipelineInv, PlaceOK
  <1>4. CacheOK' /\ Spent("none")
    BY <1>2, CacheStays DEF PipelineInv, Spent, memory
  <1>5. \A k \in Work : Used(k, stage, operator) + Cost(k, "none") <= Used(k, stage', operator)
    <2> SUFFICES ASSUME NEW k \in Work
                 PROVE  Used(k, stage, operator) + Cost(k, "none") <= Used(k, stage', operator)
      OBVIOUS
    <2>1. Cost(k, "none") = 0 /\ Used(k, stage, operator) <= Used(k, stage', operator)
          /\ Used(k, stage, operator) \in Nat
      BY <1>2, <1>3, Behind DEF Cost, Work
    <2> QED BY <2>1
  <1>6. draft' = [text |-> draft'.text, frame |-> draft'.frame, reasons |-> draft'.reasons]
    <2>1. draft' = [text |-> text, frame |-> draft.frame, reasons |-> draft.reasons]
      BY <1>1, <1>3
    <2> QED BY <2>1
  <1>7. stage' \notin {"retry", "verify"}
    BY <1>2
  <1> QED BY <1>2, <1>4, <1>5, <1>6, <1>7, WritingKeeps

LEMMA RenderedKeeps ==
    ASSUME PipelineInv, NEW kind, kind \in {"generation", "retries"}, NEW key, key[1] = "render",
           NEW onwards, onwards \in [Texts -> {"retry", "reparse"}],
           Rendered(kind, key, onwards),
           stage \in Writing, Op.llm,
           \A k \in Work : Used(k, stage, operator) + Cost(k, kind) <= Turned(k, operator),
           \A t \in Texts, k \in Work :
               Used(k, stage, operator) + Cost(k, kind) <= Used(k, onwards[t], operator)
    PROVE  PipelineInv'
  <1>1. PICK answer \in Failures \cup Unidentified \cup Texts :
            /\ Ask(kind, key, Unidentified \cup Texts, answer)
            /\ IF EndsInvocation(answer) \/ IsValueError(answer) THEN Fail(answer)
               ELSE /\ stage' = onwards[answer]
                    /\ draft' = [draft EXCEPT !.text = answer,
                           !.reasons = IF stage' = "retry" THEN RetryReasons(answer) ELSE {}]
                    /\ UNCHANGED <<record, operator, results, trials>>
    BY DEF Rendered
  <1>2. plan' = plan
    BY DEF Rendered
  <1>3. /\ plan \in Plans /\ operator \in Positions /\ made \in [Kinds -> Nat] /\ CacheOK
        /\ draft = [text |-> draft.text, frame |-> draft.frame, reasons |-> draft.reasons]
        /\ ~IsSaved(record) /\ stage \in Stages
    BY DEF PipelineInv, PlaceOK, Stages
  <1>4. CacheOK' /\ Spent(kind) /\ kind \in Work
    <2>1. kind \in Kinds /\ kind \in Work /\ Size[key[1]] \in Nat
      BY SizesAreNat DEF Kinds, Work
    <2>2. PICK proper : proper = Unidentified \cup Texts
      OBVIOUS
    <2>3. Ask(kind, key, proper, answer)
      BY <1>1, <2>2
    <2> QED BY <1>3, <2>1, <2>3, AskKeeps DEF Spent
  <1>5. CASE EndsInvocation(answer) \/ IsValueError(answer)
    <2>1. Fail(answer) /\ stage \in {"source"} \cup Writing
      BY <1>1, <1>5
    <2>2. \A k \in Work : Used(k, stage, operator) + Cost(k, kind) <= Share(k)
      BY <1>3, TurnedIsShared
    <2> QED BY <1>2, <1>3, <1>4, <2>1, <2>2, FailKeeps
  <1>6. CASE ~(EndsInvocation(answer) \/ IsValueError(answer))
    <2>1. /\ stage' = onwards[answer]
          /\ draft' = [draft EXCEPT !.text = answer,
                 !.reasons = IF stage' = "retry" THEN RetryReasons(answer) ELSE {}]
          /\ UNCHANGED <<record, operator, candidates, skips, original, tested, case>>
      BY <1>1, <1>6 DEF results, trials
    <2>2. answer \in Texts
      BY <1>6 DEF Failures, Unanswered, Discardable, Unidentified, EndsInvocation, IsValueError
    <2>3. stage' \in {"retry", "reparse"} /\ stage' \in Writing /\ stage' # "verify"
      BY <2>1, <2>2 DEF Writing
    <2>4. draft' = [text |-> draft'.text, frame |-> draft'.frame, reasons |-> draft'.reasons]
      <3>1. PICK why : why = IF stage' = "retry" THEN RetryReasons(answer) ELSE {}
        OBVIOUS
      <3>2. draft' = [draft EXCEPT !.text = answer, !.reasons = why]
        BY <2>1, <3>1
      <3>3. draft' = [text |-> answer, frame |-> draft.frame, reasons |-> why]
        BY <1>3, <3>2
      <3> QED BY <3>3
    <2>5. \A k \in Work : Used(k, stage, operator) + Cost(k, kind) <= Used(k, stage', operator)
      BY <2>1, <2>2
    <2> QED BY <1>2, <1>3, <1>4, <2>1, <2>3, <2>4, <2>5, WritingKeeps
  <1> QED BY <1>5, <1>6

LEMMA RenderKeeps == PipelineInv /\ Render => PipelineInv'
  <1> SUFFICES ASSUME PipelineInv, Render PROVE PipelineInv'
    OBVIOUS
  <1>1. PICK key, onwards :
            /\ key = <<"render", Input, Op.name, {}>>
            /\ onwards = [text \in Texts |-> StageAfterRender(text)]
            /\ Rendered("generation", key, onwards)
    BY DEF Render
  <1>2. stage = "operator" /\ stage \in Writing /\ Op.llm /\ key[1] = "render"
    BY <1>1 DEF Render, Writing
  <1>3. onwards \in [Texts -> {"retry", "reparse"}]
    BY <1>1 DEF StageAfterRender
  <1>4. plan \in Plans /\ operator \in Positions /\ Operators[operator].llm
    BY <1>2 DEF PipelineInv, PlaceOK, Op
  <1>5. ASSUME NEW k \in Work
        PROVE  /\ Used(k, stage, operator) + Cost(k, "generation") <= Used(k, "retry", operator)
               /\ Used(k, stage, operator) + Cost(k, "generation") <= Used(k, "reparse", operator)
               /\ Used(k, stage, operator) + Cost(k, "generation") <= Turned(k, operator)
    <2>1. /\ Used(k, stage, operator) + Cost(k, "generation") <= Used(k, "retry", operator)
          /\ Used(k, "retry", operator) <= Used(k, "reparse", operator)
          /\ Used(k, "reparse", operator) + Cost(k, "candidate") <= Used(k, "verify", operator)
          /\ Used(k, "verify", operator) <= Turned(k, operator)
      BY <1>2, <1>4, Behind
    <2>2. /\ Used(k, stage, operator) \in Nat /\ Used(k, "retry", operator) \in Nat
          /\ Used(k, "reparse", operator) \in Nat /\ Used(k, "verify", operator) \in Nat
      BY <1>2, <1>4, Behind
    <2>3. Turned(k, operator) \in Nat
      BY <1>4, Turning
    <2>4. Cost(k, "generation") \in Nat /\ Cost(k, "candidate") \in Nat
      BY DEF Cost
    <2> QED BY <2>1, <2>2, <2>3, <2>4
  <1>6. \A t \in Texts, k \in Work :
            Used(k, stage, operator) + Cost(k, "generation") <= Used(k, onwards[t], operator)
    BY <1>3, <1>5
  <1> QED BY <1>1, <1>2, <1>3, <1>5, <1>6, RenderedKeeps

LEMMA RetryKeeps == PipelineInv /\ Retry => PipelineInv'
  <1> SUFFICES ASSUME PipelineInv, Retry PROVE PipelineInv'
    OBVIOUS
  <1>1. PICK key, onwards :
            /\ key = <<"render", Input, Op.name, draft.reasons>>
            /\ onwards = [text \in Texts |-> StageAfterRetry(text)]
            /\ Rendered("retries", key, onwards)
    BY DEF Retry
  <1>2. stage = "retry" /\ stage \in Writing /\ Op.llm /\ key[1] = "render"
    BY <1>1 DEF Retry, Writing, PipelineInv, PlaceOK
  <1>3. onwards \in [Texts -> {"retry", "reparse"}] /\ \A t \in Texts : onwards[t] = "reparse"
    BY <1>1 DEF StageAfterRetry
  <1>4. plan \in Plans /\ operator \in Positions /\ Operators[operator].llm
    BY <1>2 DEF PipelineInv, PlaceOK, Op
  <1>5. ASSUME NEW k \in Work
        PROVE  /\ Used(k, stage, operator) + Cost(k, "retries") <= Used(k, "reparse", operator)
               /\ Used(k, stage, operator) + Cost(k, "retries") <= Turned(k, operator)
    <2>1. /\ Used(k, stage, operator) + Cost(k, "retries") <= Used(k, "reparse", operator)
          /\ Used(k, "reparse", operator) + Cost(k, "candidate") <= Used(k, "verify", operator)
          /\ Used(k, "verify", operator) <= Turned(k, operator)
      BY <1>2, <1>4, Behind
    <2>2. /\ Used(k, stage, operator) \in Nat /\ Used(k, "reparse", operator) \in Nat
          /\ Used(k, "verify", operator) \in Nat
      BY <1>2, <1>4, Behind
    <2>3. Turned(k, operator) \in Nat
      BY <1>4, Turning
    <2>4. Cost(k, "retries") \in Nat /\ Cost(k, "candidate") \in Nat
      BY DEF Cost
    <2> QED BY <2>1, <2>2, <2>3, <2>4
  <1>6. \A t \in Texts, k \in Work :
            Used(k, stage, operator) + Cost(k, "retries") <= Used(k, onwards[t], operator)
    BY <1>3, <1>5
  <1> QED BY <1>1, <1>2, <1>3, <1>5, <1>6, RenderedKeeps

LEMMA RangeOfFirst ==
    ASSUME NEW C, NEW s \in Seq(C), NEW n \in 0 .. Len(s)
    PROVE  Range(SubSeq(s, 1, n)) = {s[j] : j \in 1 .. n}
  <1>1. n \in Nat /\ Len(s) \in Nat
    BY LenProperties
  <1>2. PICK t \in Seq(C) : t = SubSeq(s, 1, n) /\ Len(t) = n /\ \A j \in 1 .. n : t[j] = s[j]
    <2>1. /\ SubSeq(s, 1, n) \in Seq(C)
          /\ Len(SubSeq(s, 1, n)) = IF 1 <= n THEN n - 1 + 1 ELSE 0
          /\ \A j \in 1 .. n - 1 + 1 : SubSeq(s, 1, n)[j] = s[1 + j - 1]
      <3>1. 1 \in 1 .. Len(s) + 1 /\ n \in 1 - 1 .. Len(s)
        BY <1>1
      <3> QED BY <3>1, SubSeqProperties
    <2>2. n - 1 + 1 = n /\ (IF 1 <= n THEN n - 1 + 1 ELSE 0) = n
          /\ \A j \in 1 .. n : 1 + j - 1 = j
      BY <1>1
    <2> QED BY <2>1, <2>2
  <1>3. DOMAIN t = 1 .. n
    BY <1>2, LenProperties
  <1>4. Range(t) = {s[j] : j \in 1 .. n}
    BY <1>2, <1>3 DEF Range
  <1> QED BY <1>2, <1>4

\* What came before a candidate stays when another is added.
LEMMA OneCandidateMore ==
    ASSUME NEW C, NEW s \in Seq(C), NEW c
    PROVE  /\ Append(s, c) \in Seq(C \cup {c}) /\ DOMAIN Append(s, c) = 1 .. Len(s) + 1
           /\ Len(s) \in Nat /\ DOMAIN s = 1 .. Len(s)
           /\ \A i \in 1 .. Len(s) : Append(s, c)[i] = s[i]
           /\ Append(s, c)[Len(s) + 1] = c
           /\ Range(SubSeq(Append(s, c), 1, Len(s) + 1 - 1)) = Range(s)
  <1>0. Len(s) \in Nat /\ DOMAIN s = 1 .. Len(s) /\ Len(s) + 1 - 1 = Len(s)
    BY LenProperties
  <1>1. PICK t \in Seq(C \cup {c}) : t = Append(s, c)
    <2>1. s \in Seq(C \cup {c}) /\ c \in C \cup {c}
      OBVIOUS
    <2> QED BY <2>1, AppendProperties
  <1>2. /\ Len(t) = Len(s) + 1 /\ DOMAIN t = 1 .. Len(s) + 1
        /\ \A i \in 1 .. Len(s) : t[i] = s[i]
        /\ t[Len(s) + 1] = c
    BY <1>0, <1>1, AppendProperties
  <1>4. Range(SubSeq(t, 1, Len(s))) = Range(s)
    <2>1. PICK n \in 0 .. Len(t) : n = Len(s)
      <3>1. Len(s) \in 0 .. Len(t)
        <4>1. Len(t) = Len(s) + 1 /\ Len(s) \in Nat
          BY <1>0, <1>2
        <4> QED BY <4>1
      <3> QED BY <3>1
    <2>2. Range(SubSeq(t, 1, n)) = {t[j] : j \in 1 .. n}
      <3>1. PICK D : t \in Seq(D)
        BY <1>1
      <3> QED BY <3>1, RangeOfFirst
    <2>3. Range(s) = {s[j] : j \in 1 .. n}
      BY <1>0, <2>1 DEF Range
    <2> QED BY <1>2, <2>1, <2>2, <2>3
  <1> QED BY <1>0, <1>1, <1>2, <1>4

LEMMA FirstsStay ==
    ASSUME NEW C, NEW s \in Seq(C), NEW c, NEW i \in 1 .. Len(s)
    PROVE  Range(SubSeq(Append(s, c), 1, i - 1)) = Range(SubSeq(s, 1, i - 1))
  <1>1. PICK t : t = Append(s, c)
    OBVIOUS
  <1>2. /\ t \in Seq(C \cup {c}) /\ Len(t) = Len(s) + 1 /\ Len(s) \in Nat
        /\ \A j \in 1 .. Len(s) : t[j] = s[j]
    <2>1. t \in Seq(C \cup {c}) /\ DOMAIN t = 1 .. Len(s) + 1 /\ Len(s) \in Nat
          /\ \A j \in 1 .. Len(s) : t[j] = s[j]
      BY <1>1, OneCandidateMore
    <2> QED BY <2>1, LenProperties
  <1>3. PICK n \in 0 .. Len(s) : n = i - 1 /\ n \in 0 .. Len(t)
    BY <1>2
  <1>4. Range(SubSeq(t, 1, n)) = {t[j] : j \in 1 .. n}
    <2>1. PICK D : t \in Seq(D)
      BY <1>2
    <2> QED BY <1>3, <2>1, RangeOfFirst
  <1>5. Range(SubSeq(s, 1, n)) = {s[j] : j \in 1 .. n}
    BY RangeOfFirst
  <1>6. {t[j] : j \in 1 .. n} = {s[j] : j \in 1 .. n}
    BY <1>2, <1>3
  <1> QED BY <1>1, <1>3, <1>4, <1>5, <1>6

LEMMA EarnsAnother ==
    ASSUME plan \in Plans, NEW s, IsEarned(s), NEW c, c.operator \in Positions,
           c.passed => PassedIsEarned(c, Operators[c.operator], Range(s))
    PROVE  IsEarned(Append(s, c)) /\ OperatorsOf(Append(s, c)) = OperatorsOf(s) \cup {c.operator}
  <1>1. PICK C : s \in Seq(C)
    BY DEF IsEarned
  <1>2. PICK t : t = Append(s, c)
    OBVIOUS
  <1>3. /\ t \in Seq(C \cup {c}) /\ DOMAIN t = 1 .. Len(s) + 1
        /\ Len(s) \in Nat /\ DOMAIN s = 1 .. Len(s)
        /\ \A i \in 1 .. Len(s) : t[i] = s[i]
        /\ t[Len(s) + 1] = c
        /\ \A i \in 1 .. Len(s) : Range(SubSeq(t, 1, i - 1)) = Range(SubSeq(s, 1, i - 1))
        /\ Range(SubSeq(t, 1, Len(s) + 1 - 1)) = Range(s)
    <2>1. /\ Append(s, c) \in Seq(C \cup {c}) /\ DOMAIN Append(s, c) = 1 .. Len(s) + 1
          /\ Len(s) \in Nat /\ DOMAIN s = 1 .. Len(s)
      BY <1>1, OneCandidateMore
    <2>2. /\ \A i \in 1 .. Len(s) : Append(s, c)[i] = s[i]
          /\ Append(s, c)[Len(s) + 1] = c
      BY <1>1, OneCandidateMore
    <2>3. \A i \in 1 .. Len(s) :
              Range(SubSeq(Append(s, c), 1, i - 1)) = Range(SubSeq(s, 1, i - 1))
      BY <1>1, FirstsStay
    <2>4. Range(SubSeq(Append(s, c), 1, Len(s) + 1 - 1)) = Range(s)
      BY <1>1, OneCandidateMore, Zenon
    <2> QED BY <1>2, <2>1, <2>2, <2>3, <2>4
  <1>4. ASSUME NEW i \in DOMAIN t
        PROVE  /\ t[i].operator \in Positions
               /\ t[i].passed => PassedIsEarned(t[i], Operators[t[i].operator],
                                                Range(SubSeq(t, 1, i - 1)))
    <2>1. CASE i \in 1 .. Len(s)
      <3>1. t[i] = s[i] /\ Range(SubSeq(t, 1, i - 1)) = Range(SubSeq(s, 1, i - 1)) /\ i \in DOMAIN s
        BY <1>3, <2>1
      <3> QED BY <3>1 DEF IsEarned
    <2>2. CASE i = Len(s) + 1
      <3>1. t[i] = c /\ Range(SubSeq(t, 1, i - 1)) = Range(s)
        BY <1>3, <2>2
      <3> QED BY <3>1
    <2>3. i \in 1 .. Len(s) \/ i = Len(s) + 1
      BY <1>3
    <2> QED BY <2>1, <2>2, <2>3
  <1>5. IsEarned(t)
    BY <1>3, <1>4 DEF IsEarned
  <1>6. OperatorsOf(t) = OperatorsOf(s) \cup {c.operator}
    <2>1. 1 .. Len(s) + 1 = (1 .. Len(s)) \cup {Len(s) + 1}
      BY <1>3
    <2>2. \A o : o \in OperatorsOf(t) <=> o \in OperatorsOf(s) \cup {c.operator}
      BY <1>3, <2>1 DEF OperatorsOf
    <2> QED BY <2>2
  <1> QED BY <1>2, <1>5, <1>6

LEMMA OneOperatorMore ==
    ASSUME plan \in Plans, NEW op \in Positions
    PROVE  (1 .. op - 1) \cup {op} = 1 .. op
  <1>1. op \in Nat /\ op > 0
    BY PlanFacts
  <1> QED BY <1>1

LEMMA ConcludeKeeps ==
    ASSUME PipelineInv, NEW frame, NEW verified, NEW reasons, Conclude(frame, verified, reasons),
           plan' = plan, CacheOK', NEW kind, Spent(kind), stage \in Writing,
           \A k \in Work : Used(k, stage, operator) + Cost(k, kind) <= Turned(k, operator),
           reasons = {} => /\ Op.tone => verified = "equivalent"
                           /\ Op.corrects => verified = "not asked"
                                             /\ (IsAmbiguous(frame) \/ frame = "corrected")
                           /\ frame \in {"none", "other"} => verified = "equivalent"
    PROVE  PipelineInv'
  <1>1. PICK c : c = [operator |-> operator, text |-> draft.text, frame |-> frame,
                      verified |-> verified, passed |-> reasons \cup LateReasons(frame) = {}]
    OBVIOUS
  <1>2. PICK produced, skipped : /\ produced = Append(candidates, c) /\ skipped = skips
                                 /\ GoOn(produced, skipped)
    BY <1>1 DEF Conclude
  <1>3. /\ c.operator = operator /\ c.text = draft.text /\ c.frame = frame
        /\ c.verified = verified
    BY <1>1
  <1>4. /\ plan \in Plans /\ operator \in Positions /\ IsEarned(candidates)
        /\ skips \subseteq Positions
        /\ skips \cup OperatorsOf(candidates) = 1 .. operator - 1
    BY DEF PipelineInv, PlaceOK, CandidatesOK
  <1>5. ASSUME c.passed PROVE PassedIsEarned(c, Operators[c.operator], Range(candidates))
    <2>1. reasons \cup LateReasons(frame) = {}
      BY <1>1, <1>5
    <2>2. /\ "ambiguous" \notin LateReasons(frame) /\ "unchanged" \notin LateReasons(frame)
          /\ "duplicate" \notin LateReasons(frame) /\ reasons = {}
      BY <2>1
    <2>3. /\ ~IsAmbiguous(frame) /\ draft.text # Input
          /\ ~\E d \in Range(candidates) : TextKey[d.text] = TextKey[draft.text]
      BY <2>2 DEF LateReasons
    <2>4. Operators[c.operator] = Op
      BY <1>3 DEF Op
    <2> QED BY <1>3, <2>2, <2>3, <2>4 DEF PassedIsEarned
  <1>6. IsEarned(produced) /\ OperatorsOf(produced) = OperatorsOf(candidates) \cup {operator}
    <2>1. PICK s : s = candidates
      OBVIOUS
    <2> QED BY <1>2, <1>3, <1>4, <1>5, <2>1, EarnsAnother
  <1>7. skipped \cup OperatorsOf(produced) = 1 .. operator
    <2>1. (1 .. operator - 1) \cup {operator} = 1 .. operator
      BY <1>4, OneOperatorMore
    <2> QED BY <1>2, <1>4, <1>6, <2>1
  <1>8. skipped \subseteq Positions
    BY <1>2, <1>4
  <1> QED BY <1>2, <1>6, <1>7, <1>8, GoOnKeeps

LEMMA ReparseKeeps == PipelineInv /\ Reparse => PipelineInv'
  <1> SUFFICES ASSUME PipelineInv, Reparse PROVE PipelineInv'
    OBVIOUS
  <1>0. PICK answer \in Failures \cup Frames :
            /\ Ask("candidate", <<"deconstruct", draft.text, Input>>, Frames, answer)
            /\ LET frame == IF IsValueError(answer) THEN "none" ELSE answer
                   reasons == IF frame = "none" THEN {"unparsed"}
                              ELSE IF Agrees(frame) THEN {} ELSE {"meaning"}
               IN IF EndsInvocation(answer) THEN Fail(answer)
                  ELSE IF NeedsVerification(reasons)
                  THEN /\ stage' = "verify"
                       /\ draft' = [draft EXCEPT !.frame = frame, !.reasons = reasons]
                       /\ UNCHANGED <<record, operator, results, trials>>
                  ELSE Conclude(frame, "not asked", reasons)
    BY DEF Reparse
  <1>1. PICK frame, reasons :
            /\ Ask("candidate", <<"deconstruct", draft.text, Input>>, Frames, answer)
            /\ frame = IF IsValueError(answer) THEN "none" ELSE answer
            /\ reasons = IF frame = "none" THEN {"unparsed"}
                         ELSE IF Agrees(frame) THEN {} ELSE {"meaning"}
            /\ IF EndsInvocation(answer) THEN Fail(answer)
               ELSE IF NeedsVerification(reasons)
               THEN /\ stage' = "verify"
                    /\ draft' = [draft EXCEPT !.frame = frame, !.reasons = reasons]
                    /\ UNCHANGED <<record, operator, results, trials>>
               ELSE Conclude(frame, "not asked", reasons)
    BY <1>0
  <1>2. stage = "reparse" /\ stage \in Writing /\ plan' = plan
    BY DEF Reparse, Writing
  <1>3. /\ plan \in Plans /\ operator \in Positions /\ made \in [Kinds -> Nat] /\ CacheOK
        /\ draft = [text |-> draft.text, frame |-> draft.frame, reasons |-> draft.reasons]
        /\ ~IsSaved(record) /\ stage \in Stages
    BY <1>2 DEF PipelineInv, PlaceOK, Stages
  <1>4. CacheOK' /\ Spent("candidate")
    <2>1. "candidate" \in Kinds /\ "candidate" \in Work
      BY DEF Kinds, Work
    <2>2. PICK key : key = <<"deconstruct", draft.text, Input>>
      OBVIOUS
    <2>3. Size[key[1]] \in Nat
      BY <2>2, SizesAreNat
    <2>4. Ask("candidate", key, Frames, answer)
      BY <1>1, <2>2
    <2> QED BY <1>3, <2>1, <2>3, <2>4, AskKeeps DEF Spent
  <1>5. \A k \in Work : Used(k, stage, operator) + Cost(k, "candidate") <= Used(k, "verify", operator)
    BY <1>2, <1>3, Behind
  <1>6. \A k \in Work : Used(k, stage, operator) + Cost(k, "candidate") <= Turned(k, operator)
    <2> SUFFICES ASSUME NEW k \in Work
                 PROVE  Used(k, stage, operator) + Cost(k, "candidate") <= Turned(k, operator)
      OBVIOUS
    <2>1. /\ Used(k, "verify", operator) <= Turned(k, operator)
          /\ Used(k, "verify", operator) \in Nat /\ Used(k, stage, operator) \in Nat
      BY <1>2, <1>3, Behind
    <2>2. Turned(k, operator) \in Nat /\ Cost(k, "candidate") \in Nat
      BY <1>3, Turning DEF Cost
    <2> QED BY <1>5, <2>1, <2>2
  <1>7. CASE EndsInvocation(answer)
    <2>1. Fail(answer) /\ stage \in {"source"} \cup Writing
      BY <1>1, <1>2, <1>7
    <2>2. \A k \in Work : Used(k, stage, operator) + Cost(k, "candidate") <= Share(k)
      BY <1>3, <1>6, TurnedIsShared
    <2> QED BY <1>2, <1>3, <1>4, <2>1, <2>2, FailKeeps
  <1>8. ASSUME ~EndsInvocation(answer) PROVE frame \in {"none"} \cup Frames
    BY <1>1, <1>8 DEF EndsInvocation, IsValueError, Failures, Unanswered, Discardable
  <1>9. CASE ~EndsInvocation(answer) /\ NeedsVerification(reasons)
    <2>1. /\ stage' = "verify"
          /\ draft' = [draft EXCEPT !.frame = frame, !.reasons = reasons]
          /\ UNCHANGED <<record, operator, candidates, skips, original, tested, case>>
      BY <1>1, <1>9 DEF results, trials
    <2>2. draft' = [text |-> draft.text, frame |-> frame, reasons |-> reasons]
      BY <1>3, <2>1
    <2>3. /\ draft' = [text |-> draft'.text, frame |-> draft'.frame, reasons |-> draft'.reasons]
          /\ draft'.frame = frame
      BY <2>2
    <2>4. stage' = "verify" => ~Op.corrects /\ draft'.frame \in {"none"} \cup Frames
      BY <1>8, <1>9, <2>3 DEF NeedsVerification
    <2>5. stage' \in Writing /\ stage' # "retry"
      BY <2>1 DEF Writing
    <2>6. \A k \in Work : Used(k, stage, operator) + Cost(k, "candidate") <= Used(k, stage', operator)
      BY <1>5, <2>1
    <2> QED BY <1>2, <1>4, <2>1, <2>3, <2>4, <2>5, <2>6, WritingKeeps
  <1>10. CASE ~EndsInvocation(answer) /\ ~NeedsVerification(reasons)
    <2>1. PICK verified : verified = "not asked" /\ Conclude(frame, verified, reasons)
      BY <1>1, <1>10
    <2>2. Op.corrects \in BOOLEAN /\ Op.tone \in BOOLEAN /\ ~(Op.tone /\ Op.corrects)
      BY <1>3, PlanFacts DEF Op
    <2>3. ASSUME reasons = {}
          PROVE  /\ ~Op.tone
                 /\ Op.corrects => IsAmbiguous(frame) \/ frame = "corrected"
                 /\ frame \notin {"none", "other"}
      <3>1. ~Op.tone
        BY <1>10, <2>2, <2>3 DEF NeedsVerification
      <3>2. frame # "none" /\ Agrees(frame)
        BY <1>1, <2>3
      <3>3. Op.corrects => IsAmbiguous(frame) \/ frame = "corrected"
        BY <3>2 DEF Agrees, AddsThePlannedCorrection
      <3>4. frame # "other"
        BY <3>2 DEF Agrees, AddsThePlannedCorrection, KeepsTaskMeaning, IsAmbiguous
      <3> QED BY <3>1, <3>2, <3>3, <3>4
    <2>4. reasons = {} => /\ Op.tone => verified = "equivalent"
                          /\ Op.corrects => verified = "not asked"
                                            /\ (IsAmbiguous(frame) \/ frame = "corrected")
                          /\ frame \in {"none", "other"} => verified = "equivalent"
      BY <2>1, <2>3
    <2> QED BY <1>2, <1>4, <1>6, <2>1, <2>4, ConcludeKeeps
  <1> QED BY <1>7, <1>9, <1>10

LEMMA VerifyKeeps == PipelineInv /\ Verify => PipelineInv'
  <1> SUFFICES ASSUME PipelineInv, Verify PROVE PipelineInv'
    OBVIOUS
  <1>1. PICK answer \in Failures \cup {"equivalent", "different"} :
            /\ Ask("verify", <<"verify", Input, draft.text, Op.allows>>,
                   {"equivalent", "different"}, answer)
            /\ IF EndsInvocation(answer) THEN Fail(answer)
               ELSE Conclude(draft.frame, answer,
                             IF answer = "equivalent" THEN {} ELSE {"meaning"})
    BY DEF Verify
  <1>2. stage = "verify" /\ stage \in Writing /\ plan' = plan
    BY DEF Verify, Writing
  <1>3. /\ plan \in Plans /\ operator \in Positions /\ made \in [Kinds -> Nat] /\ CacheOK
        /\ ~IsSaved(record) /\ stage \in Stages /\ ~Op.corrects
    BY <1>2 DEF PipelineInv, PlaceOK, Stages
  <1>4. CacheOK' /\ Spent("verify")
    <2>1. "verify" \in Kinds /\ "verify" \in Work
      BY DEF Kinds, Work
    <2>2. PICK key : key = <<"verify", Input, draft.text, Op.allows>>
      OBVIOUS
    <2>3. Size[key[1]] \in Nat
      BY <2>2, SizesAreNat
    <2>4. PICK proper : proper = {"equivalent", "different"}
      OBVIOUS
    <2>5. Ask("verify", key, proper, answer)
      BY <1>1, <2>2, <2>4
    <2> QED BY <1>3, <2>1, <2>3, <2>5, AskKeeps DEF Spent
  <1>5. \A k \in Work : Used(k, stage, operator) + Cost(k, "verify") <= Turned(k, operator)
    BY <1>2, <1>3, Behind
  <1>6. CASE EndsInvocation(answer)
    <2>1. Fail(answer) /\ stage \in {"source"} \cup Writing
      BY <1>1, <1>2, <1>6
    <2>2. \A k \in Work : Used(k, stage, operator) + Cost(k, "verify") <= Share(k)
      BY <1>3, <1>5, TurnedIsShared
    <2> QED BY <1>2, <1>3, <1>4, <2>1, <2>2, FailKeeps
  <1>7. CASE ~EndsInvocation(answer)
    <2>1. PICK frame, reasons : /\ frame = draft.frame
                                /\ reasons = IF answer = "equivalent" THEN {} ELSE {"meaning"}
                                /\ Conclude(frame, answer, reasons)
      BY <1>1, <1>7
    <2>2. reasons = {} => /\ Op.tone => answer = "equivalent"
                          /\ Op.corrects => answer = "not asked"
                                            /\ (IsAmbiguous(frame) \/ frame = "corrected")
                          /\ frame \in {"none", "other"} => answer = "equivalent"
      BY <1>3, <2>1
    <2> QED BY <1>2, <1>4, <1>5, <2>1, <2>2, ConcludeKeeps
  <1> QED BY <1>6, <1>7

-----------------------------------------------------------------------------
(***************************************************************************)
(* Trials and verdicts.                                                    *)
(***************************************************************************)
\* After its augmentation a record costs no call but the judge's.
LEMMA AllIsSpent ==
    ASSUME PipelineInv, stage \in {"original", "variations"}
    PROVE  \A k \in Work : /\ Used(k, stage, operator) + Cost(k, "none") <= Share(k)
                           /\ Used(k, stage, operator) + Cost(k, "none")
                                  <= Used(k, "variations", operator)
  <1> SUFFICES ASSUME NEW k \in Work
               PROVE  /\ Used(k, stage, operator) + Cost(k, "none") <= Share(k)
                      /\ Used(k, stage, operator) + Cost(k, "none")
                             <= Used(k, "variations", operator)
    OBVIOUS
  <1>1. Used(k, stage, operator) = Share(k) /\ Used(k, "variations", operator) = Share(k)
    BY DEF Used, Share, Past, Early, Late
  <1>2. Share(k) \in Nat /\ Cost(k, "none") = 0
    <2>1. plan \in Plans /\ operator \in Positions /\ stage \in Stages
      BY DEF PipelineInv, PlaceOK, Stages
    <2> QED BY <2>1, UsedFacts DEF Cost, Work
  <1> QED BY <1>1, <1>2

LEMMA LeavesRecord ==
    ASSUME PipelineInv, NextRecord, UNCHANGED <<plan, memory, made>>,
           stage \in {"original", "variations"}
    PROVE  PipelineInv'
  <1>1. CacheOK' /\ Spent("none") /\ "none" \notin Work
    BY CacheStays DEF PipelineInv, Spent, Work
  <1>2. stage \notin {"preflight", "ended"}
    OBVIOUS
  <1> QED BY <1>1, <1>2, AllIsSpent, NextRecordKeeps

LEMMA SkipOriginalKeeps == PipelineInv /\ SkipOriginal => PipelineInv'
  BY LeavesRecord DEF SkipOriginal

LEMMA EndRecordKeeps == PipelineInv /\ EndRecord => PipelineInv'
  BY LeavesRecord DEF EndRecord

LEMMA OriginalTrialsKeeps == PipelineInv /\ OriginalTrials => PipelineInv'
  <1> SUFFICES ASSUME PipelineInv, OriginalTrials PROVE PipelineInv'
    OBVIOUS
  <1>1. /\ stage = "original" /\ stage' = "variations" /\ original' \in TrialSets
        /\ UNCHANGED <<plan, record, operator, cache, bytes, draft, candidates, skips,
                       tested, case, made>>
    BY DEF OriginalTrials, memory, results
  <1>2. /\ operator \in Positions /\ tested = {} /\ case = NoCase
        /\ draft = [text |-> draft.text, frame |-> draft.frame, reasons |-> draft.reasons]
    BY <1>1 DEF PipelineInv, PlaceOK, TrialsOK
  <1>3. PlaceOK' /\ CallsOK'
    <2>1. Spent("none") /\ "none" \notin Work
      BY <1>1 DEF Spent, Work
    <2>2. \A k \in Work : Used(k, stage, operator) + Cost(k, "none") <= Used(k, stage', operator')
      BY <1>1, AllIsSpent
    <2>3. /\ stage' \in Stages \ {"preflight", "ended"} /\ stage' \notin {"retry", "verify"}
          /\ stage' \notin Early /\ stage' \notin Writing /\ stage # "ended"
      BY <1>1 DEF Stages, Early, Writing, Late
    <2> QED BY <1>1, <1>2, <2>1, <2>2, <2>3, WithinRecord
  <1>4. CacheOK'
    BY <1>1, CacheStays DEF PipelineInv, memory
  <1>5. CandidatesOK'
    <2>1. IsEarned(candidates)' /\ OperatorsOf(candidates)' = OperatorsOf(candidates)
          /\ Positions' = Positions /\ (IsSaved(record)' <=> IsSaved(record))
      BY <1>1, CandidatesStay, Frames0
    <2>2. stage' \notin Early /\ stage' \notin Writing
      BY <1>1 DEF Early, Writing
    <2> QED BY <1>1, <2>1, <2>2 DEF PipelineInv, CandidatesOK
  <1>6. TrialsOK'
    BY <1>1, <1>2 DEF TrialsOK
  <1> QED BY <1>3, <1>4, <1>5, <1>6 DEF PipelineInv

\* A stable arm has one outcome.
LEMMA StableArms ==
    ASSUME NEW o \in TrialSets
    PROVE  /\ o[1] \in Range(o)
           /\ Stability(o) = "stable" => Inconclusive \notin Range(o) /\ Range(o) = {o[1]}
           /\ Stability(o) = "unstable" => Inconclusive \notin Range(o)
                                           /\ \A a : \E b \in Range(o) : b # a
           /\ Inconclusive \in Range(o) => Stability(o) = "inconclusive"
           /\ Stability(o) \in {"stable", "unstable", "inconclusive"}
  <1>1. o[1] \in Range(o)
    <2>1. o # <<>> /\ o \in Seq(Range(o))
      BY ArmsAreTried
    <2>2. DOMAIN o = 1 .. Len(o) /\ Len(o) \in Nat /\ Len(o) # 0
      BY <2>1, LenProperties, EmptySeq
    <2> QED BY <2>2 DEF Range
  <1>2. PICK R : R = Range(o)
    OBVIOUS
  <1>3. ASSUME Cardinality(R) = 1 PROVE R = {o[1]}
    <2>1. IsFiniteSet(R)
      <3>1. o \in Seq(R)
        BY <1>2, ArmsAreTried
      <3>2. IsFiniteSet(DOMAIN o)
        <4>1. DOMAIN o = 1 .. Len(o) /\ Len(o) \in Nat
          BY <3>1, LenProperties
        <4> QED BY <4>1, FS_Interval
      <3>3. o \in Surjection(DOMAIN o, R)
        BY <1>2, <3>1 DEF Surjection, Range
      <3> QED BY <3>2, <3>3, FS_Surjection
    <2>2. PICK x : R = {x}
      BY <1>3, <2>1, FS_Singleton
    <2> QED BY <1>1, <1>2, <2>2
  <1>4. ASSUME Cardinality(R) # 1, NEW a PROVE \E b \in R : b # a
    <2>1. R # {a}
      BY <1>4, FS_Singleton
    <2> QED BY <1>1, <1>2, <2>1
  <1> QED BY <1>1, <1>2, <1>3, <1>4 DEF Stability, Inconclusive

LEMMA VerdictsAreEarned ==
    ASSUME NEW o \in TrialSets, NEW v \in TrialSets, NEW m \in Materiality(Findings(o, v)),
           original' = o, case'.outcomes = v, case'.materiality = m,
           case'.verdict = Verdict(o, v)
    PROVE  VerdictIsEarned'
  <1>1. /\ o[1] \in Range(o) /\ v[1] \in Range(v)
        /\ Stability(o) \in {"stable", "unstable", "inconclusive"}
        /\ Stability(v) \in {"stable", "unstable", "inconclusive"}
        /\ Stability(o) = "stable" => Inconclusive \notin Range(o) /\ Range(o) = {o[1]}
        /\ Stability(v) = "stable" => Inconclusive \notin Range(v) /\ Range(v) = {v[1]}
        /\ Stability(v) = "unstable" => Inconclusive \notin Range(v)
                                        /\ \A a : \E b \in Range(v) : b # a
        /\ Inconclusive \in Range(o) => Stability(o) = "inconclusive"
        /\ Inconclusive \in Range(v) => Stability(v) = "inconclusive"
    BY StableArms
  <1> DEFINE all == Range(o) \cup Range(v)
  <1>2. Verdict(o, v) = "no_divergence" =>
            Inconclusive \notin all /\ \A a, b \in all : Alike(a, b)
    <2> SUFFICES ASSUME Verdict(o, v) = "no_divergence"
                 PROVE  Inconclusive \notin all /\ \A a, b \in all : Alike(a, b)
      OBVIOUS
    <2>1. Stability(o) = "stable" /\ Stability(v) = "stable" /\ ~Findings(o, v)
      BY <1>1 DEF Verdict
    <2>2. Alike(o[1], v[1])
      BY <2>1 DEF Findings
    <2>3. all = {o[1], v[1]} /\ Inconclusive \notin all
      BY <1>1, <2>1
    <2> QED BY <2>2, <2>3 DEF Alike
  <1>3. Verdict(o, v) = "divergence_needs_review" =>
            /\ Inconclusive \notin all /\ Cardinality(Range(o)) = 1
            /\ \E a \in Range(v) : a # o[1]
    <2> SUFFICES ASSUME Verdict(o, v) = "divergence_needs_review"
                 PROVE  /\ Inconclusive \notin all /\ Cardinality(Range(o)) = 1
                        /\ \E a \in Range(v) : a # o[1]
      OBVIOUS
    <2>1. Stability(o) = "stable" /\ (Stability(v) = "unstable" \/ Findings(o, v))
      BY <1>1 DEF Verdict
    <2>2. Cardinality(Range(o)) = 1
      BY <1>1, <2>1, FS_Singleton
    <2>3. CASE Stability(v) = "unstable"
      BY <1>1, <2>1, <2>2, <2>3
    <2>4. CASE Findings(o, v)
      <3>1. Stability(v) = "stable" /\ v[1] # o[1]
        BY <2>4 DEF Findings, Alike
      <3> QED BY <1>1, <2>1, <2>2, <3>1
    <2> QED BY <2>1, <2>3, <2>4
  <1>4. Inconclusive \in all => Verdict(o, v) = "inconclusive"
    BY <1>1 DEF Verdict
  <1>5. m # "none" => Verdict(o, v) = "divergence_needs_review"
    <2>1. m # "none" => Findings(o, v)
      BY DEF Materiality
    <2>2. Findings(o, v) => Verdict(o, v) = "divergence_needs_review"
      BY DEF Findings, Verdict
    <2> QED BY <2>1, <2>2
  <1> QED BY <1>2, <1>3, <1>4, <1>5 DEF VerdictIsEarned

LEMMA VariationTrialsKeeps == PipelineInv /\ VariationTrials => PipelineInv'
  <1> SUFFICES ASSUME PipelineInv, VariationTrials PROVE PipelineInv'
    OBVIOUS
  <1>0. PICK i : i = Min(PassedOperators \ tested)
    OBVIOUS
  <1>1. PICK outcomes \in TrialSets :
            \E materiality \in Materiality(Findings(original, outcomes)),
               judged \in JudgeIsAsked(Findings(original, outcomes)) :
                   /\ made' = [made EXCEPT !.materiality = IF judged THEN @ + 1 ELSE @]
                   /\ tested' = tested \cup {i}
                   /\ case' = [operator |-> i, outcomes |-> outcomes,
                               materiality |-> materiality,
                               verdict |-> Verdict(original, outcomes)]
    BY <1>0 DEF VariationTrials
  <1>2. PICK materiality \in Materiality(Findings(original, outcomes)), judged \in BOOLEAN :
            /\ made' = [made EXCEPT !.materiality = IF judged THEN @ + 1 ELSE @]
            /\ tested' = tested \cup {i}
            /\ case' = [operator |-> i, outcomes |-> outcomes, materiality |-> materiality,
                        verdict |-> Verdict(original, outcomes)]
    <2>1. JudgeIsAsked(Findings(original, outcomes)) \subseteq BOOLEAN
      BY DEF JudgeIsAsked
    <2> QED BY <1>1, <2>1, Zenon
  <1>3. /\ stage = "variations" /\ tested # PassedOperators /\ stage' = stage
        /\ UNCHANGED <<plan, record, operator, cache, bytes, draft, candidates, skips, original>>
    BY DEF VariationTrials, place, memory, results
  <1>4. i \in PassedOperators \ tested
    <2>1. tested \subseteq PassedOperators /\ PassedOperators \subseteq Positions
      BY TestedArePlanned DEF PipelineInv, TrialsOK
    <2>2. Positions \subseteq Nat
      BY PlanFacts DEF PipelineInv, PlaceOK
    <2>3. PICK rest : rest = PassedOperators \ tested
      OBVIOUS
    <2>4. rest \in SUBSET Nat /\ rest # {}
      BY <1>3, <2>1, <2>2, <2>3
    <2>5. Min(rest) \in rest
      BY <2>4, MinIsLeast
    <2> QED BY <1>0, <2>3, <2>5
  <1>5. /\ made \in [Kinds -> Nat] /\ made' \in [Kinds -> Nat]
        /\ \A k \in Work : made'[k] = made[k]
        /\ made'.preflight = made.preflight
        /\ made'.materiality \in Nat /\ made'.materiality <= made.materiality + 1
    BY <1>2 DEF PipelineInv, PlaceOK, Kinds, Work
  <1>6. PlaceOK'
    <2>1. Operators' = Operators /\ Positions' = Positions /\ (IsSaved(record)' <=> IsSaved(record))
      BY <1>3, Frames0
    <2> QED BY <1>3, <1>5, <2>1 DEF PlaceOK, PipelineInv, Writing, Early
  <1>7. WorkOK'
    <2> SUFFICES ASSUME NEW k \in Work
                 PROVE  made'[k] <= Cardinality(FreshUpTo(record' - 1)) * Share(k)
                                    + (IF IsSaved(record') THEN 0 ELSE Used(k, stage', operator'))
      BY <1>3, Frames0 DEF WorkOK
    <2>1. made[k] <= Cardinality(FreshUpTo(record - 1)) * Share(k)
                     + (IF IsSaved(record) THEN 0 ELSE Used(k, stage, operator))
      BY DEF PipelineInv, CallsOK, WorkOK
    <2> QED BY <1>3, <1>5, <2>1
  <1>8. PreflightOK'
    BY <1>3, <1>5, PreflightStays
  <1>9. MaterialityOK'
    <2>1. made.materiality <= VariationsUpTo(record - 1) + Cardinality(tested)
      BY <1>3 DEF PipelineInv, CallsOK, MaterialityOK
    <2>2. IsFiniteSet(tested) /\ Cardinality(tested) \in Nat
      BY TestedArePlanned
    <2>3. Cardinality(tested') = Cardinality(tested) + 1
      BY <1>2, <1>4, <2>2, FS_AddElement
    <2>4. VariationsUpTo(record - 1) \in Nat /\ made.materiality \in Nat
      BY <1>5, VariationsFacts DEF PipelineInv, PlaceOK, Kinds
    <2>5. made'.materiality <= VariationsUpTo(record - 1) + Cardinality(tested')
      BY <1>5, <2>1, <2>2, <2>3, <2>4
    <2>6. VariationsUpTo(record - 1)' = VariationsUpTo(record - 1)
          /\ Cardinality(tested)' = Cardinality(tested')
      BY <1>3, Frames0
    <2> QED BY <1>3, <2>5, <2>6 DEF MaterialityOK
  <1>10. CacheOK'
    BY <1>3, CacheStays DEF PipelineInv, memory
  <1>11. CandidatesOK'
    <2>1. IsEarned(candidates)' /\ OperatorsOf(candidates)' = OperatorsOf(candidates)
          /\ Positions' = Positions /\ (IsSaved(record)' <=> IsSaved(record))
      BY <1>3, CandidatesStay, Frames0
    <2> QED BY <1>3, <2>1 DEF PipelineInv, CandidatesOK, Early, Writing
  <1>12. TrialsOK'
    <2>1. original \in TrialSets /\ tested \subseteq PassedOperators
      BY <1>3 DEF PipelineInv, TrialsOK
    <2>2. PassedOperators' = PassedOperators
      BY <1>3, CandidatesStay
    <2>3. case'.outcomes = outcomes /\ case'.materiality = materiality
          /\ case'.verdict = Verdict(original, outcomes)
      BY <1>2
    <2>4. VerdictIsEarned'
      <3>1. PICK o \in TrialSets : o = original
        BY <2>1
      <3>2. original' = o /\ case'.verdict = Verdict(o, outcomes)
            /\ materiality \in Materiality(Findings(o, outcomes))
        BY <1>3, <2>3, <3>1
      <3> QED BY <2>3, <3>2, VerdictsAreEarned
    <2> QED BY <1>2, <1>3, <1>4, <2>1, <2>2, <2>4 DEF TrialsOK
  <1> QED BY <1>6, <1>7, <1>8, <1>9, <1>10, <1>11, <1>12 DEF PipelineInv, CallsOK

-----------------------------------------------------------------------------
(***************************************************************************)
(* The invariant, and what follows from it.                                *)
(***************************************************************************)
LEMMA StutteringKeeps == PipelineInv /\ UNCHANGED vars => PipelineInv'
  <1> SUFFICES ASSUME PipelineInv, UNCHANGED vars PROVE PipelineInv'
    OBVIOUS
  <1>1. UNCHANGED <<plan, stage, record, operator, cache, bytes, draft, candidates, skips,
                    original, tested, case, made>>
    BY DEF vars, place, memory, results, trials
  <1>2. PlaceOK'
    BY <1>1 DEF PipelineInv, PlaceOK, Positions, Op, Operators, IsSaved
  <1>3. WorkOK'
    <2>1. /\ \A k : Used(k, stage, operator)' = Used(k, stage, operator) /\ Share(k)' = Share(k)
          /\ FreshUpTo(record - 1)' = FreshUpTo(record - 1)
          /\ (IsSaved(record)' <=> IsSaved(record))
      BY <1>1, Frames0
    <2> QED BY <1>1, <2>1 DEF PipelineInv, CallsOK, WorkOK
  <1>4. PreflightOK' /\ MaterialityOK'
    <2>1. /\ Planned' = Planned /\ VariationsUpTo(record)' = VariationsUpTo(record)
          /\ VariationsUpTo(record - 1)' = VariationsUpTo(record - 1)
      BY <1>1, Frames0
    <2> QED BY <1>1, <2>1 DEF PipelineInv, CallsOK, PreflightOK, MaterialityOK
  <1>5. CacheOK'
    BY <1>1, CacheStays DEF PipelineInv, memory
  <1>6. CandidatesOK' /\ TrialsOK'
    <2>1. /\ IsEarned(candidates)' /\ OperatorsOf(candidates)' = OperatorsOf(candidates)
          /\ Positions' = Positions /\ (IsSaved(record)' <=> IsSaved(record))
          /\ PassedOperators' = PassedOperators
      BY <1>1, CandidatesStay, Frames0
    <2> QED BY <1>1, <2>1 DEF PipelineInv, CandidatesOK, TrialsOK, VerdictIsEarned
  <1> QED BY <1>2, <1>3, <1>4, <1>5, <1>6 DEF PipelineInv, CallsOK

LEMMA NextKeeps == PipelineInv /\ [Next]_vars => PipelineInv'
  BY PreflightKeeps, ReusePreflightKeeps, UseSavedAugmentationKeeps, DeconstructSourceKeeps,
     NotApplicableKeeps, WriteKeeps, RenderKeeps, RetryKeeps, ReparseKeeps, VerifyKeeps,
     SkipOriginalKeeps, OriginalTrialsKeeps, VariationTrialsKeeps, EndRecordKeeps,
     StutteringKeeps DEF Next

\* What holds throughout an invocation: where it stands and the calls that can
\* have cost, the cache, the candidates of the record at hand and its last case.
THEOREM PipelineInvariance == Spec => []PipelineInv
  BY InitHolds, NextKeeps, PTL DEF Spec

LEMMA AllFresh ==
    ASSUME plan \in Plans
    PROVE  Fresh = Cardinality(FreshUpTo(Len(Inputs))) /\ Fresh \in Nat
  <1>1. DOMAIN Inputs = 1 .. Len(Inputs) /\ Len(Inputs) \in Nat
    BY PlanFacts
  <1>2. {r \in DOMAIN Inputs : ~IsSaved(r)} = FreshUpTo(Len(Inputs))
    BY <1>1 DEF FreshUpTo
  <1> QED BY <1>1, <1>2, FreshFacts DEF Fresh

\* The plan has a share for every fresh record, and for the record at hand.
LEMMA SharesArePlanned ==
    ASSUME PipelineInv, NEW k \in Work
    PROVE  made[k] <= Fresh * Share(k) /\ Fresh * Share(k) \in Nat /\ made[k] \in Nat
  <1>1. /\ plan \in Plans /\ record \in Nat /\ record > 0 /\ record <= Len(Inputs)
        /\ Len(Inputs) \in Nat /\ record - 1 \in Nat /\ record - 1 + 1 = record
    BY PlanFacts DEF PipelineInv, PlaceOK
  <1>2. PICK n \in Nat, used \in Nat, share \in Nat :
            /\ n = Cardinality(FreshUpTo(record - 1)) /\ used = Used(k, stage, operator)
            /\ share = Share(k) /\ used <= share
    <2>1. Cardinality(FreshUpTo(record - 1)) \in Nat
      BY <1>1, FreshFacts
    <2>2. /\ Used(k, stage, operator) \in Nat /\ Share(k) \in Nat
          /\ Used(k, stage, operator) <= Share(k)
      BY UsedFacts DEF PipelineInv, PlaceOK, Stages
    <2> QED BY <2>1, <2>2
  <1>3. made[k] \in Nat /\ made[k] <= n * share + (IF IsSaved(record) THEN 0 ELSE used)
    BY <1>2 DEF PipelineInv, CallsOK, WorkOK, PlaceOK, Work, Kinds
  <1>4. PICK m \in Nat : m = Cardinality(FreshUpTo(record))
                         /\ m = n + (IF IsSaved(record) THEN 0 ELSE 1)
    <2>1. Cardinality(FreshUpTo(record)) \in Nat
          /\ Cardinality(FreshUpTo(record)) = Cardinality(FreshUpTo(record - 1))
                                              + (IF IsSaved(record) THEN 0 ELSE 1)
      BY <1>1, FreshFacts
    <2> QED BY <1>2, <2>1
  <1>5. m <= Fresh /\ Fresh \in Nat
    <2>1. FreshUpTo(record) \in SUBSET FreshUpTo(Len(Inputs))
      BY <1>1 DEF FreshUpTo
    <2>2. FreshUpTo(Len(Inputs)) \in SUBSET (1 .. Len(Inputs))
      BY <1>1, FreshFacts
    <2>3. Cardinality(FreshUpTo(record)) <= Cardinality(FreshUpTo(Len(Inputs)))
      BY <1>1, <2>1, <2>2, Larger
    <2> QED BY <1>1, <1>4, <2>3, AllFresh
  <1>6. made[k] <= m * share
    <2>1. n * share \in Nat /\ (n + 1) * share = n * share + share
      BY OneShareMore
    <2>2. CASE IsSaved(record)
      BY <1>3, <1>4, <2>1, <2>2
    <2>3. CASE ~IsSaved(record)
      BY <1>2, <1>3, <1>4, <2>1, <2>3
    <2> QED BY <2>2, <2>3
  <1>7. m * share <= Fresh * share /\ Fresh * share \in Nat /\ m * share \in Nat
    <2>1. PICK d \in Nat : Fresh = m + d
      <3>1. Fresh - m \in Nat /\ Fresh = m + (Fresh - m)
        BY <1>5
      <3> QED BY <3>1
    <2>2. (m + d) * share = m * share + d * share /\ m * share \in Nat /\ d * share \in Nat
      OBVIOUS
    <2> QED BY <2>1, <2>2
  <1> QED BY <1>2, <1>3, <1>6, <1>7

LEMMA VariationsArePlanned ==
    ASSUME PipelineInv
    PROVE  made.materiality <= Planned.materiality
  <1>1. /\ plan \in Plans /\ record \in 1 .. Len(Inputs) /\ Len(Inputs) \in Nat
        /\ DOMAIN Inputs = 1 .. Len(Inputs)
    BY PlanFacts DEF PipelineInv, PlaceOK
  <1>2. Planned.materiality = VariationsUpTo(Len(Inputs))
    BY <1>1 DEF Planned, VariationsUpTo
  <1>3. VariationsUpTo(record) <= VariationsUpTo(Len(Inputs))
    <2> DEFINE S == {d \in Nat : record + d <= Len(Inputs) =>
                                     VariationsUpTo(record) <= VariationsUpTo(record + d)}
    <2>1. PICK far \in Nat : Len(Inputs) = record + far
      <3>1. Len(Inputs) - record \in Nat /\ Len(Inputs) = record + (Len(Inputs) - record)
        BY <1>1
      <3> QED BY <3>1
    <2>2. 0 \in S
      <3>1. record + 0 = record /\ VariationsUpTo(record) \in Nat
        BY <1>1, VariationsFacts
      <3> QED BY <3>1
    <2>3. ASSUME NEW d \in 0 .. far, d \in S, d < far PROVE d + 1 \in S
      <3>1. PICK p \in DOMAIN Inputs, q \in DOMAIN Inputs :
                p = record + d /\ q = record + (d + 1) /\ p = q - 1
        BY <1>1, <2>1, <2>3
      <3>2. /\ VariationsUpTo(q) = VariationsUpTo(q - 1) + PlannedVariations(q)
            /\ VariationsUpTo(q - 1) \in Nat /\ PlannedVariations(q) \in Nat
        BY <1>1, VariationsFacts
      <3>3. VariationsUpTo(record) \in Nat
        BY <1>1, VariationsFacts
      <3>4. VariationsUpTo(record) <= VariationsUpTo(p)
        BY <1>1, <2>3, <3>1
      <3>5. VariationsUpTo(record) <= VariationsUpTo(q)
        BY <3>1, <3>2, <3>3, <3>4
      <3> QED BY <3>1, <3>5
    <2> HIDE DEF S
    <2>4. far \in S
      BY <2>2, <2>3, Climbing
    <2> QED BY <2>1, <2>4 DEF S
  <1>4. made.materiality <= VariationsUpTo(record) /\ made.materiality \in Nat
        /\ VariationsUpTo(record) \in Nat
    <2>1. /\ VariationsUpTo(record) \in Nat /\ VariationsUpTo(record - 1) \in Nat
          /\ VariationsUpTo(record) = VariationsUpTo(record - 1) + PlannedVariations(record)
          /\ PlannedVariations(record) \in Nat
      BY <1>1, VariationsFacts
    <2>2. Cardinality(tested) \in Nat /\ Cardinality(tested) <= PlannedVariations(record)
      BY TestedArePlanned
    <2>3. made.materiality \in Nat
      BY DEF PipelineInv, PlaceOK, Kinds
    <2>4. made.materiality <= IF stage = "ended" THEN VariationsUpTo(record)
                              ELSE VariationsUpTo(record - 1) + Cardinality(tested)
      BY DEF PipelineInv, CallsOK, MaterialityOK
    <2> QED BY <2>1, <2>2, <2>3, <2>4
  <1>5. VariationsUpTo(Len(Inputs)) \in Nat
    <2>1. Len(Inputs) \in DOMAIN Inputs
      BY <1>1
    <2> QED BY <1>1, <2>1, VariationsFacts
  <1> QED BY <1>2, <1>3, <1>4, <1>5

\* No kind of call exceeds its share of the plan shown before the campaign starts,
\* whatever the cache forgets, the renderer returns and the model refuses.
THEOREM PlannedCalls == Spec => []CallsStayInPlan
  <1>1. ASSUME PipelineInv PROVE CallsStayInPlan
    <2> SUFFICES ASSUME NEW k \in Kinds PROVE made[k] <= Planned[k]
      BY DEF CallsStayInPlan
    <2>1. plan \in Plans
      BY <1>1 DEF PipelineInv, PlaceOK
    <2>2. CASE k = "preflight"
      BY <1>1, <2>2 DEF PipelineInv, CallsOK, PreflightOK
    <2>3. CASE k = "materiality"
      BY <1>1, <2>3, VariationsArePlanned
    <2>4. CASE k \in Work
      <3>1. made[k] <= Fresh * Share(k) /\ Fresh * Share(k) \in Nat /\ made[k] \in Nat
        BY <1>1, <2>4, SharesArePlanned
      <3>2. Fresh \in Nat /\ Len(Operators) \in Nat
        BY <2>1, AllFresh, PlanFacts
      <3>3. CASE k = "source"
        BY <3>1, <3>2, <3>3 DEF Planned, Share, Used, Early
      <3>4. CASE k = "candidate"
        BY <3>1, <3>2, <3>4 DEF Planned, Share, Used, Past, Early, Late
      <3>5. CASE k = "verify"
        <4>1. PICK toned \in Nat : toned = Count(LAMBDA op : op.tone)
          <5>1. {i \in Positions : Operators[i].tone} \in SUBSET (1 .. Len(Operators))
            BY <2>1, PlanFacts
          <5>2. Count(LAMBDA op : op.tone) = Cardinality({i \in Positions : Operators[i].tone})
            BY DEF Count
          <5> QED BY <3>2, <5>1, <5>2, Counting
        <4>2. Planned.verify = Fresh * (Len(Operators) + toned)
          BY <4>1 DEF Planned
        <4>3. Share(k) = Len(Operators)
          BY <3>5 DEF Share, Used, Past, Early, Late
        <4>4. Fresh * (Len(Operators) + toned) = Fresh * Len(Operators) + Fresh * toned
              /\ Fresh * toned \in Nat
          BY <3>2
        <4> QED BY <3>1, <3>5, <4>2, <4>3, <4>4
      <3>6. CASE k \in {"generation", "retries"}
        <4>1. Share(k) = Cardinality(LlmUpTo(Len(Operators)))
          BY <3>6 DEF Share, Used, Past, Early, Late
        <4>2. LlmUpTo(Len(Operators)) = {i \in Positions : Operators[i].llm}
          BY <2>1, PlanFacts DEF LlmUpTo
        <4>3. Count(LAMBDA op : op.llm) = Cardinality({i \in Positions : Operators[i].llm})
          BY DEF Count
        <4>4. Planned[k] = Fresh * Share(k)
          BY <3>6, <4>1, <4>2, <4>3 DEF Planned
        <4> QED BY <3>1, <4>4
      <3> QED BY <2>4, <3>3, <3>4, <3>5, <3>6 DEF Work
    <2> QED BY <2>2, <2>3, <2>4 DEF Kinds, Work
  <1> QED BY <1>1, PipelineInvariance, PTL

LEMMA Typed == PipelineInv => TypeOK
  <1> SUFFICES ASSUME PipelineInv PROVE TypeOK
    OBVIOUS
  <1>1. \A e \in Range(cache) : DOMAIN e = {"key", "answer", "size"}
    <2>1. PICK K, A : cache \in Seq([key : K, answer : A, size : Nat])
      BY DEF PipelineInv, CacheOK, IsCache
    <2>2. \A i \in DOMAIN cache : cache[i] \in [key : K, answer : A, size : Nat]
      BY <2>1, ElementOfSeq, LenProperties
    <2>3. \A e \in [key : K, answer : A, size : Nat] : DOMAIN e = {"key", "answer", "size"}
      OBVIOUS
    <2> QED BY <2>2, <2>3 DEF Range
  <1>2. bytes \in Nat
    <2>1. PICK K, A : cache \in Seq([key : K, answer : A, size : Nat])
      BY DEF PipelineInv, CacheOK, IsCache
    <2>2. PICK E : E = [key : K, answer : A, size : Nat]
      OBVIOUS
    <2>3. AreSized(E) /\ cache \in Seq(E)
      BY <2>1, <2>2 DEF AreSized
    <2>4. SumOfSizes(cache) \in Nat
      BY <2>3, SizesAreNumbers
    <2> QED BY <2>4 DEF PipelineInv, CacheOK
  <1>3. skips \subseteq Positions /\ tested \subseteq Positions
    BY TestedArePlanned DEF PipelineInv, CandidatesOK, TrialsOK
  <1>4. stage \in {"preflight", "source", "operator", "retry", "reparse", "verify",
                   "original", "variations", "ended"}
    BY DEF PipelineInv, PlaceOK, Early, Writing, Late
  <1> QED BY <1>1, <1>2, <1>3, <1>4 DEF TypeOK, PipelineInv, PlaceOK

\* The cache's running total is the sum of its entries, both limits hold, no request
\* has two answers and what was refused is not kept, however completions are stored,
\* found, evicted and discarded.
THEOREM SoundCache == Spec => []CacheIsSound
  <1>1. ASSUME PipelineInv PROVE CacheIsSound
    BY <1>1, Typed DEF PipelineInv, CacheOK, IsCache, CacheIsSound, Range
  <1> QED BY <1>1, PipelineInvariance, PTL

\* A candidate that passed has earned it, every operator left a candidate or a skip,
\* and a verdict says what the trials of both arms say.
THEOREM EarnedResults == Spec => []ResultsAreEarned
  <1>1. ASSUME PipelineInv PROVE ResultsAreEarned
    <2>1. \A i \in DOMAIN candidates :
              candidates[i].passed =>
                  PassedIsEarned(candidates[i], Operators[candidates[i].operator],
                                 Range(SubSeq(candidates, 1, i - 1)))
      BY <1>1 DEF PipelineInv, CandidatesOK, IsEarned
    <2>2. ASSUME stage = "original", ~IsSaved(record)
          PROVE  /\ skips \cup {c.operator : c \in Range(candidates)} = Positions
                 /\ \A c \in Range(candidates) : c.passed => c.frame # "none"
      <3>1. {c.operator : c \in Range(candidates)} = OperatorsOf(candidates)
        BY DEF OperatorsOf, Range
      <3>2. /\ skips \cup OperatorsOf(candidates) = Positions
            /\ \A i \in DOMAIN candidates : candidates[i].passed => candidates[i].frame # "none"
        BY <1>1, <2>2 DEF PipelineInv, CandidatesOK
      <3> QED BY <3>1, <3>2 DEF Range
    <2>3. case # NoCase => VerdictIsEarned
      BY <1>1 DEF PipelineInv, TrialsOK
    <2> QED BY <2>1, <2>2, <2>3 DEF ResultsAreEarned
  <1> QED BY <1>1, PipelineInvariance, PTL
-----------------------------------------------------------------------------
(***************************************************************************)
(*                        THE RECEIVER AND ITS STORE                       *)
(***************************************************************************)

(***************************************************************************)
(* What the store holds: versions of posted spans, marks of their names,   *)
(* and the log.                                                            *)
(***************************************************************************)
Posted == UNION {Range(payload) : payload \in Payloads}
Buffers == {Buffered(span, time) : span \in Posted, time \in Nat}
LogEntries == [span : Posted, at : Nat, accepted : BOOLEAN]
Names == {span.trace : span \in Posted} \cup {span.correlation : span \in Posted}
Marks == [name : Names, at : Nat]

IsIndex(index, all) ==
    /\ DOMAIN index = Identities(all)
    /\ \A i \in 1 .. Len(all) : index[Identity(all[i])] = i

AreSpans(all, time) ==
    /\ all \in Seq(Buffers)
    /\ Len(all) <= MaxSpans /\ SumOfSizes(all) <= MaxBufferBytes
    /\ \A i \in 1 .. Len(all) :
           all[i].at <= time /\ all[i].readable /\ all[i].size <= Budget

(* Every last version of an accepted span is there, too old, or was taken. *)
HoldsAll(all, entries, time, w) ==
    \A i \in 1 .. Len(entries) :
        LastAccepted(entries, i, Len(entries)) =>
            \/ Buffered(entries[i].span, entries[i].at) \in Range(all)
            \/ entries[i].at + Retention < time
            \/ \E q \in Observed(w) : TookIt(w, q, entries, i)

(* The marks are in the order of the last refusal of their names, and say  *)
(* when that was.                                                          *)
LastRefusal(entries, field, name, k) ==
    /\ k \in Refusals(entries, field, name, Len(entries))
    /\ \A j \in Refusals(entries, field, name, Len(entries)) : j <= k

Placed(marks, field, entries) ==
    /\ \A p \in 1 .. Len(marks) : \E k \in 1 .. Len(entries) :
           LastRefusal(entries, field, marks[p].name, k) /\ entries[k].at = marks[p].at
    /\ \A p, q \in 1 .. Len(marks) : p < q =>
           \E k \in Refusals(entries, field, marks[q].name, Len(entries)) :
               \A j \in Refusals(entries, field, marks[p].name, Len(entries)) : j < k

IsMarked(marks, name) == \E p \in 1 .. Len(marks) : marks[p].name = name

Remembers(marks, field, entries, time, w) ==
    \A i \in 1 .. Len(entries) :
        ~entries[i].accepted /\ NameIn(entries[i], field) # NoCorrelation =>
            \/ IsMarked(marks, NameIn(entries[i], field))
            \/ MayBeForgotten(entries, field, i, Len(entries), time, w, Observed(w))

AreMarks(marks, time) ==
    /\ marks \in Seq(Marks) /\ Len(marks) <= MaxSpans
    /\ \A p \in 1 .. Len(marks) : marks[p].at <= time /\ marks[p].name # NoCorrelation

MarksOK(marks, field, entries, time, w) ==
    /\ AreMarks(marks, time)
    /\ Placed(marks, field, entries) /\ Remembers(marks, field, entries, time, w)

IsStore(s) == s = [spans |-> s.spans, indexes |-> s.indexes, traces |-> s.traces,
                   correlations |-> s.correlations, log |-> s.log]

StoreOK(s, time, w) ==
    /\ IsStore(s) /\ s.log \in Seq(LogEntries)
    /\ AreSpans(s.spans, time) /\ IsIndex(s.indexes, s.spans)
    /\ HoldsAll(s.spans, s.log, time, w)
    /\ MarksOK(s.traces, "trace", s.log, time, w)
    /\ MarksOK(s.correlations, "correlation", s.log, time, w)

(***************************************************************************)
(* Who is served, and where the observations stand.                        *)
(***************************************************************************)
Thread == [at : {"reading", "closed"}] \cup [at : {"exporting"}, time : Nat]

IsThreads(threads, free, time) ==
    /\ threads \in Seq(Thread)
    /\ \A h \in DOMAIN threads : threads[h].at = "exporting" => threads[h].time <= time
    /\ free \in Nat
    /\ free + Cardinality({h \in DOMAIN threads : threads[h].at # "closed"}) = MaxHandlers

MatchedOK(r, w, entries) ==
    LET o == w[r] IN
    /\ o.matched \in Seq(Buffers) /\ o.matched # <<>>
    /\ \A i \in 1 .. Len(o.matched) : o.matched[i].size <= Budget
    /\ o.seen \in 0 .. Len(entries)
    /\ NothingIsLost(Requests[r], o.matched, entries, o.seen, o.time, w, Observed(w))

IsForgotten(r, w, entries, field, name) ==
    \A i \in Refusals(entries, field, name, w[r].taken) :
        MayBeForgotten(entries, field, i, w[r].taken, w[r].ended, w, Observed(w) \ {r})

ObservedOK(r, w, entries) ==
    LET o == w[r] IN
    /\ o.seen \in 0 .. Len(entries) /\ o.taken \in 0 .. Len(entries) /\ o.ended \in Nat
    /\ o.status = "complete" =>
           /\ NothingIsLost(Requests[r], o.got, entries, o.seen, o.time, w, Observed(w) \ {r})
           /\ \A t \in o.traces : IsForgotten(r, w, entries, "trace", t)
           /\ IsForgotten(r, w, entries, "correlation", Requests[r].correlation)

WatchOK(r, w, entries) ==
    /\ w[r].at \in Steps
    /\ w[r].at = "matched" => MatchedOK(r, w, entries)
    /\ r \in Observed(w) => ObservedOK(r, w, entries)

ReceiverInv ==
    /\ now \in 0 .. MaxTime
    /\ IsThreads(handlers, slots, now)
    /\ StoreOK(Contents, now, watch)
    /\ DOMAIN watch = Request /\ \A r \in Request : WatchOK(r, watch, log)
-----------------------------------------------------------------------------
(***************************************************************************)
(* What is left of a sequence, in its order.                               *)
(***************************************************************************)
IsOnly(f, all, keep, n) ==
    f = [m \in 0 .. n |->
            IF m = 0 THEN <<>> ELSE AppendIf(f[m - 1], all[m], keep)]

LEMMA OnlyExists ==
    ASSUME NEW N \in Nat, NEW all, NEW keep
    PROVE  \E f : IsOnly(f, all, keep, N)
  <1> DEFINE S == {m \in 0 .. N : \E f : IsOnly(f, all, keep, m)}
  <1>1. 0 \in S
    <2>1. IsOnly([n \in 0 .. 0 |-> <<>>], all, keep, 0)
      BY DEF IsOnly
    <2> QED BY <2>1
  <1>2. ASSUME NEW m \in 0 .. N, m \in S, m < N PROVE m + 1 \in S
    <2>1. PICK f : IsOnly(f, all, keep, m)
      BY <1>2
    <2> DEFINE g == [n \in 0 .. m + 1 |->
                        IF n = m + 1 THEN AppendIf(f[m], all[m + 1], keep) ELSE f[n]]
    <2>2. ASSUME NEW n \in 0 .. m + 1
          PROVE  g[n] = IF n = 0 THEN <<>> ELSE AppendIf(g[n - 1], all[n], keep)
      <3>1. CASE n = m + 1
        BY <3>1
      <3>2. CASE n \in 0 .. m
        BY <2>1, <3>2 DEF IsOnly
      <3> QED BY <3>1, <3>2
    <2>3. IsOnly(g, all, keep, m + 1)
      BY <2>2 DEF IsOnly
    <2> HIDE DEF g
    <2> QED BY <1>2, <2>3
  <1> HIDE DEF S
  <1>3. N \in S
    BY <1>1, <1>2, Climbing
  <1> QED BY <1>3 DEF S

LEMMA OnlyIs ==
    ASSUME NEW all, NEW keep, Len(all) \in Nat
    PROVE  \E f : IsOnly(f, all, keep, Len(all)) /\ Only(all, keep) = f[Len(all)]
  <1> DEFINE f == CHOOSE f : IsOnly(f, all, keep, Len(all))
  <1>1. Only(all, keep) = f[Len(all)]
    BY DEF Only, IsOnly
  <1>2. IsOnly(f, all, keep, Len(all))
    BY OnlyExists
  <1> QED BY <1>1, <1>2

(* places says where the elements of part are in the first n of all.       *)
IsPartOf(part, places, all, n) ==
    /\ places \in [1 .. Len(part) -> 1 .. n]
    /\ \A i \in 1 .. Len(part) : part[i] = all[places[i]]
    /\ \A i, j \in 1 .. Len(part) : i < j => places[i] < places[j]

IsWhatIsLeft(part, all, keep, n) ==
    /\ Len(part) <= n
    /\ \E places : IsPartOf(part, places, all, n)
    /\ \A i \in 1 .. Len(part) : part[i] \in keep
    /\ \A k \in 1 .. n : all[k] \in keep => \E i \in 1 .. Len(part) : part[i] = all[k]

LEMMA OneMoreIsLeft ==
    ASSUME NEW E, NEW all \in Seq(E), NEW keep, NEW n \in 0 .. Len(all), n < Len(all),
           NEW part \in Seq(E), IsWhatIsLeft(part, all, keep, n), all[n + 1] \in keep
    PROVE  /\ Append(part, all[n + 1]) \in Seq(E)
           /\ IsWhatIsLeft(Append(part, all[n + 1]), all, keep, n + 1)
  <1> DEFINE more == Append(part, all[n + 1])
  <1>1. /\ Len(all) \in Nat /\ all[n + 1] \in E /\ Len(part) \in Nat
        /\ more \in Seq(E) /\ Len(more) = Len(part) + 1
        /\ \A i \in 1 .. Len(part) : more[i] = part[i]
        /\ more[Len(part) + 1] = all[n + 1]
    <2>1. Len(all) \in Nat /\ Len(part) \in Nat /\ n + 1 \in 1 .. Len(all)
      BY LenProperties
    <2>2. all[n + 1] \in E
      BY <2>1, ElementOfSeq
    <2> QED BY <2>1, <2>2, AppendProperties
  <1>2. PICK places : IsPartOf(part, places, all, n)
    BY DEF IsWhatIsLeft
  <1> HIDE DEF more
  <1> DEFINE wider == [i \in 1 .. Len(part) + 1 |-> IF i = Len(part) + 1 THEN n + 1 ELSE places[i]]
  <1>3. wider \in [1 .. Len(more) -> 1 .. n + 1]
    BY <1>1, <1>2 DEF IsPartOf
  <1>4. \A i \in 1 .. Len(more) : more[i] = all[wider[i]]
    BY <1>1, <1>2 DEF IsPartOf
  <1>5. \A i, j \in 1 .. Len(more) : i < j => wider[i] < wider[j]
    <2> SUFFICES ASSUME NEW i \in 1 .. Len(part) + 1, NEW j \in 1 .. Len(part) + 1, i < j
                 PROVE  wider[i] < wider[j]
      BY <1>1
    <2>1. i \in 1 .. Len(part) /\ places[i] \in 1 .. n
      BY <1>1, <1>2 DEF IsPartOf
    <2>2. CASE j = Len(part) + 1
      BY <1>1, <2>1, <2>2
    <2>3. CASE j # Len(part) + 1
      BY <1>1, <1>2, <2>1, <2>3 DEF IsPartOf
    <2> QED BY <2>2, <2>3
  <1>6. IsPartOf(more, wider, all, n + 1)
    BY <1>3, <1>4, <1>5 DEF IsPartOf
  <1>7. Len(more) <= n + 1 /\ \A i \in 1 .. Len(more) : more[i] \in keep
    <2>1. Len(part) <= n /\ \A i \in 1 .. Len(part) : part[i] \in keep
      BY DEF IsWhatIsLeft
    <2>2. \A i \in 1 .. Len(part) + 1 : i \in 1 .. Len(part) \/ i = Len(part) + 1
      BY <1>1
    <2> QED BY <1>1, <2>1, <2>2
  <1>8. ASSUME NEW k \in 1 .. n + 1, all[k] \in keep
        PROVE  \E i \in 1 .. Len(more) : more[i] = all[k]
    <2>1. CASE k = n + 1
      <3>1. Len(part) + 1 \in 1 .. Len(more)
        BY <1>1
      <3> QED BY <1>1, <2>1, <3>1
    <2>2. CASE k # n + 1
      <3>1. k \in 1 .. n
        BY <2>2
      <3>2. PICK i \in 1 .. Len(part) : part[i] = all[k]
        BY <1>8, <3>1 DEF IsWhatIsLeft
      <3>3. i \in 1 .. Len(more)
        BY <1>1
      <3> QED BY <1>1, <3>2, <3>3
    <2> QED BY <2>1, <2>2
  <1>9. IsWhatIsLeft(more, all, keep, n + 1)
    <2> HIDE DEF wider
    <2> QED BY <1>6, <1>7, <1>8 DEF IsWhatIsLeft
  <1> QED BY <1>1, <1>9 DEF more

LEMMA OneLessIsLeft ==
    ASSUME NEW all, NEW keep, NEW n \in Nat, NEW part, Len(part) \in Nat,
           IsWhatIsLeft(part, all, keep, n), all[n + 1] \notin keep
    PROVE  IsWhatIsLeft(part, all, keep, n + 1)
  <1>1. PICK places : IsPartOf(part, places, all, n)
    BY DEF IsWhatIsLeft
  <1>2. IsPartOf(part, places, all, n + 1)
    BY <1>1 DEF IsPartOf
  <1>3. \A k \in 1 .. n + 1 : all[k] \in keep => k \in 1 .. n
    OBVIOUS
  <1> QED BY <1>2, <1>3 DEF IsWhatIsLeft

(* Only: a subsequence of exactly what is to be kept; also of its first n. *)
LEMMA OnlyKeeps ==
    ASSUME NEW E, NEW all \in Seq(E), NEW keep,
           NEW f, IsOnly(f, all, keep, Len(all)), NEW n \in 0 .. Len(all)
    PROVE  f[n] \in Seq(E) /\ IsWhatIsLeft(f[n], all, keep, n)
  <1>0. Len(all) \in Nat
    BY LenProperties
  <1> DEFINE S == {m \in 0 .. Len(all) : f[m] \in Seq(E) /\ IsWhatIsLeft(f[m], all, keep, m)}
  <1>1. 0 \in S
    <2>1. f[0] = <<>>
      BY <1>0 DEF IsOnly
    <2>2. <<>> \in Seq(E) /\ Len(<<>>) = 0
      OBVIOUS
    <2>3. IsPartOf(<<>>, [i \in 1 .. 0 |-> 0], all, 0)
      BY <2>2 DEF IsPartOf
    <2>4. IsWhatIsLeft(<<>>, all, keep, 0)
      BY <2>2, <2>3 DEF IsWhatIsLeft
    <2>5. f[0] \in Seq(E) /\ IsWhatIsLeft(f[0], all, keep, 0) /\ 0 \in 0 .. Len(all)
      BY <1>0, <2>1, <2>2, <2>4
    <2> QED BY <2>5
  <1>2. ASSUME NEW m \in 0 .. n, m \in S, m < n PROVE m + 1 \in S
    <2>1. f[m + 1] = AppendIf(f[m], all[m + 1], keep)
      <3>1. m + 1 \in 0 .. Len(all) /\ m + 1 # 0 /\ m + 1 - 1 = m
        BY <1>0, <1>2
      <3> QED BY <3>1 DEF IsOnly
    <2>2. m \in 0 .. Len(all) /\ m < Len(all) /\ f[m] \in Seq(E) /\ IsWhatIsLeft(f[m], all, keep, m)
      BY <1>0, <1>2
    <2> HIDE DEF S
    <2>3. CASE all[m + 1] \in keep
      <3>1. f[m + 1] \in Seq(E) /\ IsWhatIsLeft(f[m + 1], all, keep, m + 1)
        BY <2>1, <2>2, <2>3, OneMoreIsLeft DEF AppendIf
      <3> QED BY <1>0, <2>2, <3>1 DEF S
    <2>4. CASE all[m + 1] \notin keep
      <3>1. Len(f[m]) \in Nat
        BY <2>2, LenProperties
      <3>2. f[m + 1] \in Seq(E) /\ IsWhatIsLeft(f[m + 1], all, keep, m + 1)
        BY <2>1, <2>2, <2>4, <3>1, OneLessIsLeft DEF AppendIf
      <3> QED BY <1>0, <2>2, <3>2 DEF S
    <2> QED BY <2>3, <2>4
  <1> HIDE DEF S
  <1>3. n \in S
    BY <1>1, <1>2, Climbing
  <1> QED BY <1>3 DEF S

LEMMA OnlyIsLeft ==
    ASSUME NEW E, NEW all \in Seq(E), NEW keep
    PROVE  /\ Only(all, keep) \in Seq(E)
           /\ Len(Only(all, keep)) \in Nat /\ Len(all) \in Nat
           /\ IsWhatIsLeft(Only(all, keep), all, keep, Len(all))
  <1>1. Len(all) \in Nat
    BY LenProperties
  <1>2. PICK f : IsOnly(f, all, keep, Len(all)) /\ Only(all, keep) = f[Len(all)]
    BY <1>1, OnlyIs
  <1>3. Len(all) \in 0 .. Len(all)
    BY <1>1
  <1>4. f[Len(all)] \in Seq(E) /\ IsWhatIsLeft(f[Len(all)], all, keep, Len(all))
    BY <1>2, <1>3, OnlyKeeps
  <1> QED BY <1>1, <1>2, <1>4, LenProperties

(* What is left is not larger.                                             *)
LEMMA OnlyIsSmaller ==
    ASSUME NEW E, AreSized(E), NEW all \in Seq(E), NEW keep
    PROVE  SumOfSizes(Only(all, keep)) <= SumOfSizes(all)
  <1>0. Len(all) \in Nat
    BY LenProperties
  <1>1. PICK f : IsOnly(f, all, keep, Len(all)) /\ Only(all, keep) = f[Len(all)]
    BY <1>0, OnlyIs
  <1> DEFINE S == {m \in 0 .. Len(all) : SumOfSizes(f[m]) <= SumOfSizes(SubSeq(all, 1, m))}
  <1>2. 0 \in S
    <2>1. f[0] = <<>>
      BY <1>0, <1>1 DEF IsOnly
    <2>2. SubSeq(all, 1, 0) = <<>>
      <3>1. SubSeq(all, 1, 0) \in Seq(E) /\ Len(SubSeq(all, 1, 0)) = 0
        BY <1>0, SumOfParts
      <3> QED BY <3>1, EmptySeq
    <2>3. SumOfSizes(<<>>) \in Nat
      BY SizesAreNumbers, <<>> \in Seq(E)
    <2>4. f[0] = SubSeq(all, 1, 0) /\ SumOfSizes(f[0]) \in Nat /\ 0 \in 0 .. Len(all)
      BY <1>0, <2>1, <2>2, <2>3
    <2>5. SumOfSizes(SubSeq(all, 1, 0)) = SumOfSizes(f[0])
      BY <2>4
    <2>6. SumOfSizes(f[0]) <= SumOfSizes(SubSeq(all, 1, 0))
      BY <2>4, <2>5
    <2> QED BY <2>4, <2>6
  <1>3. ASSUME NEW m \in 0 .. Len(all), m \in S, m < Len(all) PROVE m + 1 \in S
    <2>1. f[m + 1] = AppendIf(f[m], all[m + 1], keep)
      <3>1. m + 1 \in 0 .. Len(all) /\ m + 1 # 0 /\ m + 1 - 1 = m
        BY <1>0, <1>3
      <3> QED BY <1>1, <3>1 DEF IsOnly
    <2>2. f[m] \in Seq(E)
      BY <1>1, OnlyKeeps
    <2>3. m + 1 \in 1 .. Len(all) /\ all[m + 1] \in E /\ all[m + 1].size \in Nat
      BY <1>0, <1>3, ElementOfSeq DEF AreSized
    <2>4. SubSeq(all, 1, m + 1) = Append(SubSeq(all, 1, m), all[m + 1])
      <3>1. m + 1 - 1 = m /\ 1 \in 1 .. m + 1
        BY <1>0
      <3> QED BY <1>0, <2>3, <3>1, SubSeqRecursiveSecond
    <2>5. SubSeq(all, 1, m) \in Seq(E)
      BY SumOfParts
    <2>6. SumOfSizes(SubSeq(all, 1, m + 1)) = SumOfSizes(SubSeq(all, 1, m)) + all[m + 1].size
      BY <2>3, <2>4, <2>5, SumOfAppend
    <2>7. SumOfSizes(f[m]) \in Nat /\ SumOfSizes(SubSeq(all, 1, m)) \in Nat
      BY <2>2, <2>5, SizesAreNumbers
    <2>8. SumOfSizes(Append(f[m], all[m + 1])) = SumOfSizes(f[m]) + all[m + 1].size
      BY <2>2, <2>3, SumOfAppend
    <2>9. SumOfSizes(f[m + 1]) <= SumOfSizes(SubSeq(all, 1, m + 1))
      BY <1>3, <2>1, <2>3, <2>6, <2>7, <2>8 DEF AppendIf
    <2> QED BY <1>0, <1>3, <2>9
  <1> HIDE DEF S
  <1>4. Len(all) \in S
    BY <1>0, <1>2, <1>3, Climbing
  <1>5. SubSeq(all, 1, Len(all)) = all
    BY SubSeqFull
  <1> QED BY <1>1, <1>4, <1>5 DEF S
-----------------------------------------------------------------------------
LEMMA LimitsOfTheReceiver ==
    /\ MaxSpans \in Nat /\ MaxBufferBytes \in Nat /\ Budget \in Nat
    /\ MaxPerObservation \in Nat \ {0} /\ Retention \in Nat /\ Settle \in Nat
    /\ Timeout \in Nat /\ MaxHandlers \in Nat /\ MaxTime \in Nat /\ MaxPosts \in Nat
  BY ReceiverLimits

(***************************************************************************)
(* Numbers and beginnings.                                                 *)
(***************************************************************************)
LEMMA MinIs ==
    ASSUME NEW S \in SUBSET Nat, S # {}
    PROVE  Min(S) \in S /\ \A k \in S : Min(S) <= k
  <1>1. PICK n \in S : TRUE
    OBVIOUS
  <1>2. PICK m \in S : m <= n /\ \A k \in 0 .. m - 1 : k \notin S
    BY <1>1, Least
  <1>3. \A k \in S : m <= k
    BY <1>2
  <1> QED BY <1>3 DEF Min

LEMMA MaxIs ==
    ASSUME NEW n \in Nat, NEW S \in SUBSET (0 .. n), S # {}
    PROVE  Max(S) \in S /\ \A k \in S : k <= Max(S)
  <1> DEFINE T == {i \in 0 .. n : n - i \in S}
  <1>1. PICK k \in S : TRUE
    OBVIOUS
  <1>2. n - k \in T /\ T \in SUBSET Nat
    OBVIOUS
  <1>3. PICK m \in T : m <= n - k /\ \A i \in 0 .. m - 1 : i \notin T
    <2> HIDE DEF T
    <2> QED BY <1>2, Least
  <1>4. \A j \in S : j <= n - m
    <2> SUFFICES ASSUME NEW j \in S, ~(j <= n - m) PROVE FALSE
      OBVIOUS
    <2>1. n - j \in 0 .. m - 1 /\ n - j \in T
      OBVIOUS
    <2> QED BY <1>3, <2>1
  <1>5. n - m \in S
    OBVIOUS
  <1> QED BY <1>4, <1>5 DEF Max

IsBeginningOf(entries, more) ==
    /\ entries \in Seq(LogEntries) /\ more \in Seq(LogEntries)
    /\ Len(entries) <= Len(more)
    /\ \A i \in 1 .. Len(entries) : more[i] = entries[i]

LEMMA AppendedBegins ==
    ASSUME NEW entries \in Seq(LogEntries), NEW e \in LogEntries
    PROVE  /\ IsBeginningOf(entries, Append(entries, e))
           /\ Len(Append(entries, e)) = Len(entries) + 1 /\ Len(entries) \in Nat
           /\ Append(entries, e)[Len(entries) + 1] = e
           /\ \A i \in 1 .. Len(entries) : Append(entries, e)[i] = entries[i]
  <1>1. Len(entries) \in Nat
    BY LenProperties
  <1>2. /\ Append(entries, e) \in Seq(LogEntries)
        /\ Len(Append(entries, e)) = Len(entries) + 1
        /\ \A i \in 1 .. Len(entries) : Append(entries, e)[i] = entries[i]
        /\ Append(entries, e)[Len(entries) + 1] = e
    BY AppendProperties
  <1> QED BY <1>1, <1>2 DEF IsBeginningOf

LEMMA BeginningsChain ==
    ASSUME NEW a, NEW b, NEW c, IsBeginningOf(a, b), IsBeginningOf(b, c)
    PROVE  IsBeginningOf(a, c)
  <1>1. Len(a) \in Nat /\ Len(b) \in Nat /\ Len(c) \in Nat
    BY LenProperties DEF IsBeginningOf
  <1> QED BY <1>1 DEF IsBeginningOf

LEMMA BeginsItself ==
    ASSUME NEW a \in Seq(LogEntries)
    PROVE  IsBeginningOf(a, a)
  <1>1. Len(a) \in Nat
    BY LenProperties
  <1> QED BY <1>1 DEF IsBeginningOf

LEMMA EntriesAre ==
    ASSUME NEW entries \in Seq(LogEntries), NEW i \in 1 .. Len(entries)
    PROVE  /\ Len(entries) \in Nat /\ entries[i] \in LogEntries
           /\ entries[i].span \in Posted /\ entries[i].at \in Nat
           /\ entries[i].accepted \in BOOLEAN
  <1>1. Len(entries) \in Nat /\ entries[i] \in LogEntries
    BY LenProperties, ElementOfSeq
  <1> QED BY <1>1 DEF LogEntries

(* What comes after the first n.                                           *)
LEMMA RestIsPart ==
    ASSUME NEW E, NEW all \in Seq(E), NEW n \in 0 .. Len(all)
    PROVE  /\ SubSeq(all, n + 1, Len(all)) \in Seq(E)
           /\ Len(all) \in Nat
           /\ Len(SubSeq(all, n + 1, Len(all))) = Len(all) - n
           /\ \A i \in 1 .. Len(all) - n : SubSeq(all, n + 1, Len(all))[i] = all[n + i]
           /\ \E places : IsPartOf(SubSeq(all, n + 1, Len(all)), places, all, Len(all))
  <1> DEFINE rest == SubSeq(all, n + 1, Len(all))
  <1>1. Len(all) \in Nat /\ \A i \in 1 .. Len(all) : all[i] \in E
    BY LenProperties, ElementOfSeq
  <1>2. /\ rest \in Seq(E)
        /\ Len(rest) = IF n + 1 <= Len(all) THEN Len(all) - (n + 1) + 1 ELSE 0
        /\ \A i \in 1 .. Len(all) - (n + 1) + 1 : rest[i] = all[n + 1 + i - 1]
    <2>1. n + 1 \in Int /\ Len(all) \in Int /\ \A i \in n + 1 .. Len(all) : all[i] \in E
      BY <1>1
    <2> QED BY <2>1, SubSeqProperties
  <1> HIDE DEF rest
  <1>3. Len(rest) = Len(all) - n /\ \A i \in 1 .. Len(all) - n : rest[i] = all[n + i]
    BY <1>1, <1>2
  <1>4. IsPartOf(rest, [i \in 1 .. Len(rest) |-> n + i], all, Len(all))
    BY <1>1, <1>3 DEF IsPartOf
  <1> QED BY <1>1, <1>2, <1>3, <1>4 DEF rest
-----------------------------------------------------------------------------
(***************************************************************************)
(* The names that were refused.                                            *)
(***************************************************************************)
LEMMA NamesAreFinite ==
    ASSUME NEW entries, NEW field, NEW i \in Nat, NEW n \in Nat, NEW without
    PROVE  /\ IsFiniteSet(NamesRefused(entries, field, i, n) \ without)
           /\ Cardinality(NamesRefused(entries, field, i, n) \ without) \in Nat
  <1> DEFINE D == {k \in i + 1 .. n : ~entries[k].accepted}
             T == {NameIn(entries[j], field) : j \in D}
             f == [j \in D |-> NameIn(entries[j], field)]
  <1>1. IsFiniteSet(D)
    <2>1. IsFiniteSet(i + 1 .. n) /\ D \in SUBSET (i + 1 .. n)
      BY FS_Interval
    <2> HIDE DEF D
    <2> QED BY <2>1, FS_Subset
  <1>2. f \in Surjection(D, T)
    <2> HIDE DEF D
    <2> QED BY DEF Surjection
  <1>3. IsFiniteSet(T)
    <2> HIDE DEF D, T, f
    <2> QED BY <1>1, <1>2, FS_Surjection
  <1>4. T = NamesRefused(entries, field, i, n)
    BY DEF NamesRefused
  <1>5. IsFiniteSet(T \ without)
    <2> HIDE DEF T
    <2>1. T \ without \in SUBSET T
      OBVIOUS
    <2> QED BY <1>3, <2>1, FS_Subset
  <1> QED BY <1>4, <1>5, FS_CardinalityType

LEMMA NamesGrow ==
    ASSUME NEW entries, NEW more, IsBeginningOf(entries, more), NEW field,
           NEW i \in Nat, NEW n \in 0 .. Len(entries), NEW m \in n .. Len(more), NEW without
    PROVE  Cardinality(NamesRefused(entries, field, i, n) \ without)
               <= Cardinality(NamesRefused(more, field, i, m) \ without)
  <1>0. Len(entries) \in Nat /\ Len(more) \in Nat
    BY LenProperties DEF IsBeginningOf
  <1>1. NamesRefused(entries, field, i, n) \ without \subseteq NamesRefused(more, field, i, m) \ without
    <2> SUFFICES ASSUME NEW k \in i + 1 .. n, ~entries[k].accepted
                 PROVE  /\ k \in i + 1 .. m /\ ~more[k].accepted
                        /\ NameIn(entries[k], field) = NameIn(more[k], field)
      BY DEF NamesRefused
    <2>1. more[k] = entries[k]
      BY <1>0 DEF IsBeginningOf
    <2> QED BY <1>0, <2>1
  <1>2. m \in Nat /\ n \in Nat
    BY <1>0
  <1>3. IsFiniteSet(NamesRefused(more, field, i, m) \ without)
    BY <1>2, NamesAreFinite
  <1> QED BY <1>1, <1>3, FS_Subset

LEMMA RefusalsGrow ==
    ASSUME NEW entries, NEW more, IsBeginningOf(entries, more), NEW field, NEW name,
           NEW n \in 0 .. Len(entries), NEW m \in n .. Len(more)
    PROVE  \A i \in Refusals(entries, field, name, n) :
               i \in Refusals(more, field, name, m) /\ more[i] = entries[i]
  <1>0. Len(entries) \in Nat /\ Len(more) \in Nat
    BY LenProperties DEF IsBeginningOf
  <1> SUFFICES ASSUME NEW i \in Refusals(entries, field, name, n)
               PROVE  i \in Refusals(more, field, name, m) /\ more[i] = entries[i]
    OBVIOUS
  <1>1. i \in 1 .. n /\ ~entries[i].accepted /\ NameIn(entries[i], field) = name
    BY DEF Refusals
  <1>2. more[i] = entries[i]
    BY <1>0, <1>1 DEF IsBeginningOf
  <1>3. i \in 1 .. m
    BY <1>0, <1>1
  <1> QED BY <1>1, <1>2, <1>3 DEF Refusals

(* What may be forgotten stays so: as the log grows, time goes on and      *)
(* further observations end.                                               *)
LEMMA ForgottenStays ==
    ASSUME NEW entries, NEW more, IsBeginningOf(entries, more), NEW field,
           NEW n \in 0 .. Len(entries), NEW m \in n .. Len(more), NEW i \in 1 .. n,
           NEW time \in Nat, NEW later \in Nat, time <= later,
           NEW w, NEW v, NEW some, NEW many, some \subseteq many, \A q \in some : v[q] = w[q],
           MayBeForgotten(entries, field, i, n, time, w, some)
    PROVE  MayBeForgotten(more, field, i, m, later, v, many)
  <1>0. Len(entries) \in Nat /\ Len(more) \in Nat /\ i \in 1 .. Len(entries)
    BY LenProperties DEF IsBeginningOf
  <1>1. more[i] = entries[i]
    BY <1>0 DEF IsBeginningOf
  <1> DEFINE name == NameIn(entries[i], field)
  <1>2. name = NameIn(more[i], field)
    BY <1>1
  <1> HIDE DEF name
  <1>3. \/ \E q \in some : name \in w[q].traces \cup {Requests[q].correlation} /\ w[q].taken >= i
        \/ \E j \in Refusals(entries, field, name, n) : j >= i /\ entries[j].at + Retention < time
        \/ Cardinality(NamesRefused(entries, field, i, n) \ {name, NoCorrelation}) >= MaxSpans
    BY DEF MayBeForgotten, name
  <1>4. CASE \E q \in some : name \in w[q].traces \cup {Requests[q].correlation} /\ w[q].taken >= i
    <2>1. \E q \in many : name \in v[q].traces \cup {Requests[q].correlation} /\ v[q].taken >= i
      BY <1>4
    <2> QED BY <1>2, <2>1 DEF MayBeForgotten
  <1>5. CASE \E j \in Refusals(entries, field, name, n) : j >= i /\ entries[j].at + Retention < time
    <2>1. PICK j \in Refusals(entries, field, name, n) : j >= i /\ entries[j].at + Retention < time
      BY <1>5
    <2>2. j \in Refusals(more, field, name, m) /\ more[j] = entries[j]
      BY <2>1, RefusalsGrow
    <2>3. j \in 1 .. Len(entries)
      BY <1>0 DEF Refusals
    <2>4. entries[j].at \in Nat
      BY <2>3, EntriesAre DEF IsBeginningOf
    <2>5. more[j].at + Retention < later
      <3>1. entries[j].at + Retention \in Nat
        BY <2>4, LimitsOfTheReceiver
      <3>2. entries[j].at + Retention < later
        BY <2>1, <3>1
      <3> QED BY <2>2, <3>2
    <2> QED BY <1>2, <2>1, <2>2, <2>5 DEF MayBeForgotten
  <1>6. CASE Cardinality(NamesRefused(entries, field, i, n) \ {name, NoCorrelation}) >= MaxSpans
    <2>1. i \in Nat /\ n \in Nat /\ m \in Nat
      BY <1>0
    <2>2. /\ Cardinality(NamesRefused(entries, field, i, n) \ {name, NoCorrelation})
                 <= Cardinality(NamesRefused(more, field, i, m) \ {name, NoCorrelation})
          /\ Cardinality(NamesRefused(entries, field, i, n) \ {name, NoCorrelation}) \in Nat
          /\ Cardinality(NamesRefused(more, field, i, m) \ {name, NoCorrelation}) \in Nat
      BY <2>1, NamesGrow, NamesAreFinite
    <2>3. Cardinality(NamesRefused(more, field, i, m) \ {name, NoCorrelation}) >= MaxSpans
      BY <1>6, <2>2, LimitsOfTheReceiver
    <2> QED BY <1>2, <2>3 DEF MayBeForgotten
  <1> QED BY <1>3, <1>4, <1>5, <1>6
-----------------------------------------------------------------------------
(***************************************************************************)
(* The marks.                                                              *)
(***************************************************************************)
LEMMA MarkIs ==
    ASSUME NEW marks \in Seq(Marks), NEW p \in 1 .. Len(marks)
    PROVE  /\ Len(marks) \in Nat /\ marks[p] \in Marks
           /\ marks[p].name \in Names /\ marks[p].at \in Nat
  <1>1. Len(marks) \in Nat /\ marks[p] \in Marks
    BY LenProperties, ElementOfSeq
  <1> QED BY <1>1 DEF Marks

LEMMA PartOfMarks ==
    ASSUME NEW marks, NEW time, AreMarks(marks, time),
           NEW field, NEW entries, Placed(marks, field, entries),
           NEW part \in Seq(Marks), Len(part) <= Len(marks),
           NEW places, IsPartOf(part, places, marks, Len(marks))
    PROVE  AreMarks(part, time) /\ Placed(part, field, entries)
  <1>1. Len(part) \in Nat /\ Len(marks) \in Nat /\ Len(marks) <= MaxSpans
    BY LenProperties DEF AreMarks
  <1>2. \A p \in 1 .. Len(part) : places[p] \in 1 .. Len(marks) /\ part[p] = marks[places[p]]
    BY DEF IsPartOf
  <1>3. AreMarks(part, time)
    <2>1. Len(part) <= MaxSpans
      BY <1>1, LimitsOfTheReceiver
    <2> QED BY <1>2, <2>1 DEF AreMarks
  <1>4. \A p \in 1 .. Len(part) : \E k \in 1 .. Len(entries) :
            LastRefusal(entries, field, part[p].name, k) /\ entries[k].at = part[p].at
    BY <1>2 DEF Placed
  <1>5. ASSUME NEW p \in 1 .. Len(part), NEW q \in 1 .. Len(part), p < q
        PROVE  \E k \in Refusals(entries, field, part[q].name, Len(entries)) :
                   \A j \in Refusals(entries, field, part[p].name, Len(entries)) : j < k
    <2>1. places[p] < places[q]
      BY <1>5 DEF IsPartOf
    <2> QED BY <1>2, <2>1 DEF Placed
  <1> QED BY <1>3, <1>4, <1>5 DEF Placed

(* All refusals of a name may be forgotten.                                *)
Forgettable(name, field, entries, time, w) ==
    \A i \in Refusals(entries, field, name, Len(entries)) :
        MayBeForgotten(entries, field, i, Len(entries), time, w, Observed(w))

LEMMA PartIsEnough ==
    ASSUME NEW marks, NEW part, NEW field, NEW entries, NEW time, NEW w,
           Remembers(marks, field, entries, time, w),
           \A p \in 1 .. Len(marks) :
               IsMarked(part, marks[p].name) \/ Forgettable(marks[p].name, field, entries, time, w)
    PROVE  Remembers(part, field, entries, time, w)
  <1> SUFFICES ASSUME NEW i \in 1 .. Len(entries), ~entries[i].accepted,
                      NameIn(entries[i], field) # NoCorrelation
               PROVE  \/ IsMarked(part, NameIn(entries[i], field))
                      \/ MayBeForgotten(entries, field, i, Len(entries), time, w, Observed(w))
    BY DEF Remembers
  <1>1. i \in Refusals(entries, field, NameIn(entries[i], field), Len(entries))
    BY DEF Refusals
  <1>2. CASE IsMarked(marks, NameIn(entries[i], field))
    BY <1>1, <1>2 DEF IsMarked, Forgettable
  <1>3. CASE MayBeForgotten(entries, field, i, Len(entries), time, w, Observed(w))
    BY <1>3
  <1> QED BY <1>2, <1>3 DEF Remembers

(* Time goes on, observations end.                                         *)
Follows(w, v) == \A q \in Observed(w) : q \in Observed(v) /\ v[q] = w[q]

LEMMA MarksStay ==
    ASSUME NEW marks, NEW field, NEW entries \in Seq(LogEntries), NEW time \in Nat, NEW w,
           MarksOK(marks, field, entries, time, w),
           NEW later \in Nat, time <= later, NEW v, Follows(w, v)
    PROVE  MarksOK(marks, field, entries, later, v)
  <1>1. AreMarks(marks, later)
    <2>1. \A p \in 1 .. Len(marks) : marks[p].at \in Nat
      BY MarkIs DEF MarksOK, AreMarks
    <2> QED BY <2>1 DEF MarksOK, AreMarks
  <1>2. Remembers(marks, field, entries, later, v)
    <2> SUFFICES ASSUME NEW i \in 1 .. Len(entries),
                        MayBeForgotten(entries, field, i, Len(entries), time, w, Observed(w))
                 PROVE  MayBeForgotten(entries, field, i, Len(entries), later, v, Observed(v))
      BY DEF MarksOK, Remembers
    <2>1. Len(entries) \in Nat /\ IsBeginningOf(entries, entries)
      BY LenProperties, BeginsItself
    <2>2. Observed(w) \subseteq Observed(v) /\ \A q \in Observed(w) : v[q] = w[q]
      BY DEF Follows
    <2>3. Len(entries) \in 0 .. Len(entries) /\ Len(entries) \in Len(entries) .. Len(entries)
      BY <2>1
    <2> QED BY <2>1, <2>2, <2>3, ForgottenStays
  <1> QED BY <1>1, <1>2 DEF MarksOK

LEMMA MarksAfterIs ==
    ASSUME NEW marks \in Seq(Marks), NEW time
    PROVE  /\ MarksAfter(marks, time) \in Seq(Marks)
           /\ Len(MarksAfter(marks, time)) <= Len(marks)
           /\ \E places : IsPartOf(MarksAfter(marks, time), places, marks, Len(marks))
           /\ \A p \in 1 .. Len(marks) :
                  IsMarked(MarksAfter(marks, time), marks[p].name) \/ Old(marks[p], time)
  <1>0. Len(marks) \in Nat /\ DOMAIN marks = 1 .. Len(marks)
    BY LenProperties
  <1> DEFINE young == {i \in DOMAIN marks : ~Old(marks[i], time)}
  <1>1. CASE young = {}
    <2>1. MarksAfter(marks, time) = <<>>
      BY <1>1 DEF MarksAfter
    <2>2. <<>> \in Seq(Marks) /\ Len(<<>>) = 0
      OBVIOUS
    <2>3. IsPartOf(<<>>, [i \in 1 .. 0 |-> 0], marks, Len(marks))
      BY <2>2 DEF IsPartOf
    <2> QED BY <1>0, <1>1, <2>1, <2>2, <2>3
  <1>2. CASE young # {}
    <2>1. Min(young) \in young /\ \A k \in young : Min(young) <= k
      <3>1. young \in SUBSET Nat
        BY <1>0
      <3> HIDE DEF young
      <3> QED BY <1>2, <3>1, MinIs
    <2>2. PICK n \in 0 .. Len(marks) : Min(young) = n + 1
      <3>1. Min(young) \in 1 .. Len(marks)
        BY <1>0, <2>1
      <3>2. Min(young) - 1 \in 0 .. Len(marks) /\ Min(young) = (Min(young) - 1) + 1
        BY <1>0, <3>1
      <3> QED BY <3>2
    <2>3. MarksAfter(marks, time) = SubSeq(marks, n + 1, Len(marks))
      BY <1>2, <2>2 DEF MarksAfter
    <2> DEFINE rest == SubSeq(marks, n + 1, Len(marks))
    <2>4. /\ rest \in Seq(Marks) /\ Len(rest) = Len(marks) - n
          /\ \A i \in 1 .. Len(marks) - n : rest[i] = marks[n + i]
          /\ \E places : IsPartOf(rest, places, marks, Len(marks))
      BY RestIsPart
    <2> HIDE DEF rest
    <2>5. ASSUME NEW p \in 1 .. Len(marks), ~Old(marks[p], time) PROVE IsMarked(rest, marks[p].name)
      <3>1. p >= n + 1
        BY <1>0, <2>1, <2>2, <2>5
      <3>2. p - n \in 1 .. Len(rest) /\ rest[p - n] = marks[n + (p - n)] /\ n + (p - n) = p
        BY <1>0, <2>4, <3>1
      <3> QED BY <3>2 DEF IsMarked
    <2>6. MarksAfter(marks, time) = rest
      BY <2>3 DEF rest
    <2>7. Len(rest) <= Len(marks)
      BY <1>0, <2>4
    <2> QED BY <2>4, <2>5, <2>6, <2>7
  <1> QED BY <1>1, <1>2

(* Pruning (_prune_rejections).                                            *)
LEMMA PrunedMarks ==
    ASSUME NEW marks, NEW field, NEW entries \in Seq(LogEntries), NEW time \in Nat, NEW w,
           MarksOK(marks, field, entries, time, w), NEW earlier \in Nat, earlier <= time
    PROVE  MarksOK(MarksAfter(marks, earlier), field, entries, time, w)
  <1> DEFINE part == MarksAfter(marks, earlier)
  <1>0. marks \in Seq(Marks)
    BY DEF MarksOK, AreMarks
  <1>1. /\ part \in Seq(Marks) /\ Len(part) <= Len(marks)
        /\ \E places : IsPartOf(part, places, marks, Len(marks))
        /\ \A p \in 1 .. Len(marks) : IsMarked(part, marks[p].name) \/ Old(marks[p], earlier)
    BY <1>0, MarksAfterIs
  <1> HIDE DEF part
  <1>2. AreMarks(part, time) /\ Placed(part, field, entries)
    BY <1>1, PartOfMarks DEF MarksOK
  <1>3. ASSUME NEW p \in 1 .. Len(marks), Old(marks[p], earlier)
        PROVE  Forgettable(marks[p].name, field, entries, time, w)
    <2>1. PICK k \in 1 .. Len(entries) :
              LastRefusal(entries, field, marks[p].name, k) /\ entries[k].at = marks[p].at
      BY DEF MarksOK, Placed
    <2>2. marks[p].at \in Nat
      BY <1>0, MarkIs
    <2>3. entries[k].at + Retention < time
      <3>1. marks[p].at + Retention \in Nat /\ marks[p].at + Retention < earlier
        BY <1>3, <2>2, LimitsOfTheReceiver DEF Old
      <3>2. marks[p].at + Retention < time
        BY <3>1
      <3> QED BY <2>1, <3>2
    <2> SUFFICES ASSUME NEW i \in Refusals(entries, field, marks[p].name, Len(entries))
                 PROVE  MayBeForgotten(entries, field, i, Len(entries), time, w, Observed(w))
      BY DEF Forgettable
    <2>4. NameIn(entries[i], field) = marks[p].name /\ i \in Nat
      BY DEF Refusals
    <2>5. k \in Refusals(entries, field, marks[p].name, Len(entries)) /\ k >= i
      BY <2>1 DEF LastRefusal, Refusals
    <2> QED BY <2>3, <2>4, <2>5 DEF MayBeForgotten
  <1>4. Remembers(part, field, entries, time, w)
    BY <1>1, <1>3, PartIsEnough DEF MarksOK
  <1> QED BY <1>2, <1>4 DEF MarksOK, part

LEMMA ForgottenIs ==
    ASSUME NEW marks \in Seq(Marks), NEW names
    PROVE  /\ Forgotten(marks, names) \in Seq(Marks)
           /\ Len(Forgotten(marks, names)) \in Nat
           /\ Len(Forgotten(marks, names)) <= Len(marks)
           /\ \E places : IsPartOf(Forgotten(marks, names), places, marks, Len(marks))
           /\ \A p \in 1 .. Len(Forgotten(marks, names)) : Forgotten(marks, names)[p].name \notin names
           /\ \A p \in 1 .. Len(marks) :
                  marks[p].name \in names \/ IsMarked(Forgotten(marks, names), marks[p].name)
  <1> DEFINE keep == {m \in Range(marks) : m.name \notin names}
             part == Forgotten(marks, names)
  <1>1. part = Only(marks, keep)
    BY DEF Forgotten
  <1>2. \A m \in keep : m.name \notin names
    OBVIOUS
  <1>3. \A p \in 1 .. Len(marks) : marks[p].name \notin names => marks[p] \in keep
    <2>1. DOMAIN marks = 1 .. Len(marks)
      BY LenProperties
    <2> QED BY <2>1 DEF Range
  <1> HIDE DEF keep
  <1>4. part \in Seq(Marks) /\ Len(part) \in Nat /\ IsWhatIsLeft(part, marks, keep, Len(marks))
    BY <1>1, OnlyIsLeft
  <1> HIDE DEF part
  <1>5. \A p \in 1 .. Len(part) : part[p].name \notin names
    BY <1>2, <1>4 DEF IsWhatIsLeft
  <1>6. \A p \in 1 .. Len(marks) : marks[p].name \in names \/ IsMarked(part, marks[p].name)
    BY <1>3, <1>4 DEF IsWhatIsLeft, IsMarked
  <1>7. Len(part) <= Len(marks) /\ \E places : IsPartOf(part, places, marks, Len(marks))
    BY <1>4 DEF IsWhatIsLeft
  <1> QED BY <1>4, <1>5, <1>6, <1>7 DEF part

(* An observation takes marks with it (observe).                           *)
LEMMA TakenMarks ==
    ASSUME NEW marks, NEW field, NEW entries \in Seq(LogEntries), NEW time \in Nat, NEW w,
           MarksOK(marks, field, entries, time, w), NEW names,
           NEW r \in Observed(w), w[r].taken = Len(entries),
           names \subseteq w[r].traces \cup {Requests[r].correlation}
    PROVE  MarksOK(Forgotten(marks, names), field, entries, time, w)
  <1> DEFINE part == Forgotten(marks, names)
  <1>1. /\ part \in Seq(Marks) /\ Len(part) <= Len(marks)
        /\ \E places : IsPartOf(part, places, marks, Len(marks))
        /\ \A p \in 1 .. Len(marks) : marks[p].name \in names \/ IsMarked(part, marks[p].name)
    BY ForgottenIs DEF MarksOK, AreMarks
  <1> HIDE DEF part
  <1>2. AreMarks(part, time) /\ Placed(part, field, entries)
    BY <1>1, PartOfMarks DEF MarksOK
  <1>3. ASSUME NEW p \in 1 .. Len(marks), marks[p].name \in names
        PROVE  Forgettable(marks[p].name, field, entries, time, w)
    <2> SUFFICES ASSUME NEW i \in Refusals(entries, field, marks[p].name, Len(entries))
                 PROVE  MayBeForgotten(entries, field, i, Len(entries), time, w, Observed(w))
      BY DEF Forgettable
    <2>1. NameIn(entries[i], field) = marks[p].name /\ Len(entries) >= i
      <3>1. Len(entries) \in Nat
        BY LenProperties
      <3> QED BY <3>1 DEF Refusals
    <2> QED BY <1>3, <2>1 DEF MayBeForgotten
  <1>4. Remembers(part, field, entries, time, w)
    BY <1>1, <1>3, PartIsEnough DEF MarksOK
  <1> QED BY <1>2, <1>4 DEF MarksOK, part

(* Another refusal, or one that is none for this field.                    *)
LEMMA RefusalsAfter ==
    ASSUME NEW entries \in Seq(LogEntries), NEW e \in LogEntries, NEW field, NEW name
    PROVE  Refusals(Append(entries, e), field, name, Len(entries) + 1) =
               Refusals(entries, field, name, Len(entries)) \cup
               {i \in {Len(entries) + 1} : ~e.accepted /\ NameIn(e, field) = name}
  <1> DEFINE more == Append(entries, e)
             n == Len(entries)
  <1>1. /\ n \in Nat /\ more[n + 1] = e
        /\ \A i \in 1 .. n : more[i] = entries[i]
    BY AppendedBegins
  <1>2. 1 .. n + 1 = (1 .. n) \cup {n + 1}
    BY <1>1
  <1> HIDE DEF more, n
  <1>3. Refusals(more, field, name, n + 1) =
            Refusals(entries, field, name, n) \cup
            {i \in {n + 1} : ~e.accepted /\ NameIn(e, field) = name}
    BY <1>1, <1>2 DEF Refusals
  <1> QED BY <1>3 DEF more, n

LEMMA MarksSkip ==
    ASSUME NEW marks, NEW field, NEW entries \in Seq(LogEntries), NEW time \in Nat, NEW w,
           MarksOK(marks, field, entries, time, w), NEW e \in LogEntries,
           e.accepted \/ NameIn(e, field) = NoCorrelation
    PROVE  MarksOK(marks, field, Append(entries, e), time, w)
  <1> DEFINE more == Append(entries, e)
             n == Len(entries)
  <1>1. /\ IsBeginningOf(entries, more) /\ Len(more) = n + 1 /\ n \in Nat
        /\ more[n + 1] = e /\ \A i \in 1 .. n : more[i] = entries[i]
    BY AppendedBegins
  <1>2. \A name : name # NoCorrelation =>
            Refusals(more, field, name, n + 1) = Refusals(entries, field, name, n)
    <2> SUFFICES ASSUME NEW name, name # NoCorrelation
                 PROVE  Refusals(more, field, name, n + 1) = Refusals(entries, field, name, n)
      OBVIOUS
    <2> DEFINE extra == {i \in {n + 1} : ~e.accepted /\ NameIn(e, field) = name}
    <2>1. Refusals(more, field, name, n + 1) = Refusals(entries, field, name, n) \cup extra
      BY RefusalsAfter
    <2>2. extra = {}
      OBVIOUS
    <2> HIDE DEF extra, more, n
    <2> QED BY <2>1, <2>2
  <1>3. \A p \in 1 .. Len(marks) : marks[p].name # NoCorrelation
    BY DEF MarksOK, AreMarks
  <1> HIDE DEF more, n
  <1>4. Placed(marks, field, more)
    <2>1. ASSUME NEW p \in 1 .. Len(marks)
          PROVE  \E k \in 1 .. Len(more) :
                     LastRefusal(more, field, marks[p].name, k) /\ more[k].at = marks[p].at
      <3>1. PICK k \in 1 .. n :
                LastRefusal(entries, field, marks[p].name, k) /\ entries[k].at = marks[p].at
        BY DEF MarksOK, Placed, n
      <3>2. LastRefusal(more, field, marks[p].name, k)
        BY <1>1, <1>2, <1>3, <3>1 DEF LastRefusal, n
      <3> QED BY <1>1, <3>1, <3>2
    <2>2. ASSUME NEW p \in 1 .. Len(marks), NEW q \in 1 .. Len(marks), p < q
          PROVE  \E k \in Refusals(more, field, marks[q].name, Len(more)) :
                     \A j \in Refusals(more, field, marks[p].name, Len(more)) : j < k
      <3>1. \E k \in Refusals(entries, field, marks[q].name, n) :
                \A j \in Refusals(entries, field, marks[p].name, n) : j < k
        BY <2>2 DEF MarksOK, Placed, n
      <3> QED BY <1>1, <1>2, <1>3, <3>1
    <2> QED BY <2>1, <2>2 DEF Placed
  <1>5. Remembers(marks, field, more, time, w)
    <2> SUFFICES ASSUME NEW i \in 1 .. Len(more), ~more[i].accepted,
                        NameIn(more[i], field) # NoCorrelation
                 PROVE  \/ IsMarked(marks, NameIn(more[i], field))
                        \/ MayBeForgotten(more, field, i, Len(more), time, w, Observed(w))
      BY DEF Remembers
    <2>1. i \in 1 .. n /\ more[i] = entries[i]
      <3>1. i = n + 1 => more[i] = e
        BY <1>1
      <3> QED BY <1>1, <3>1
    <2>2. CASE IsMarked(marks, NameIn(entries[i], field))
      BY <2>1, <2>2
    <2>3. CASE MayBeForgotten(entries, field, i, n, time, w, Observed(w))
      <3>1. n \in 0 .. Len(entries) /\ Len(more) \in n .. Len(more)
        BY <1>1 DEF n
      <3> QED BY <1>1, <2>1, <2>3, <3>1, ForgottenStays
    <2> QED BY <2>1, <2>2, <2>3 DEF MarksOK, Remembers, n
  <1> QED BY <1>4, <1>5 DEF MarksOK, more

(* The mark of the new refusal goes last.                                  *)
IsAppended(entries, more, e) ==
    /\ IsBeginningOf(entries, more) /\ Len(more) = Len(entries) + 1 /\ Len(entries) \in Nat
    /\ more[Len(entries) + 1] = e /\ \A i \in 1 .. Len(entries) : more[i] = entries[i]

OnlyRefuses(entries, more, field, name) ==
    \A other : other # name =>
        Refusals(more, field, other, Len(entries) + 1)
            = Refusals(entries, field, other, Len(entries))

IsWithout(marks, kept, name) ==
    /\ Len(kept) \in Nat /\ \A p \in 1 .. Len(kept) : kept[p].name # name
    /\ \A p \in 1 .. Len(marks) : marks[p].name = name \/ IsMarked(kept, marks[p].name)

EndsWith(kept, all, name, at) ==
    /\ Len(all) = Len(kept) + 1 /\ \A p \in 1 .. Len(kept) : all[p] = kept[p]
    /\ all[Len(kept) + 1].name = name /\ all[Len(kept) + 1].at = at

LEMMA MarkGoesLast ==
    ASSUME NEW entries, NEW more, NEW e, IsAppended(entries, more, e),
           NEW time \in Nat, NEW w, NEW field, NEW name, ~e.accepted, e.at <= time,
           NameIn(e, field) = name, name # NoCorrelation,
           OnlyRefuses(entries, more, field, name),
           NEW marks, Remembers(marks, field, entries, time, w),
           NEW kept, AreMarks(kept, time), Placed(kept, field, entries),
           IsWithout(marks, kept, name),
           NEW all, EndsWith(kept, all, name, e.at)
    PROVE  /\ \A p \in 1 .. Len(all) : all[p].at <= time /\ all[p].name # NoCorrelation
           /\ Placed(all, field, more) /\ Remembers(all, field, more, time, w)
  <1>1. /\ IsBeginningOf(entries, more) /\ Len(more) = Len(entries) + 1 /\ Len(entries) \in Nat
        /\ more[Len(entries) + 1] = e /\ \A i \in 1 .. Len(entries) : more[i] = entries[i]
    BY DEF IsAppended
  <1>2. \A other : other # name =>
            Refusals(more, field, other, Len(entries) + 1)
                = Refusals(entries, field, other, Len(entries))
    BY DEF OnlyRefuses
  <1>3. Len(entries) + 1 \in Refusals(more, field, name, Len(entries) + 1)
    BY <1>1 DEF Refusals
  <1>4. /\ Len(kept) \in Nat /\ \A p \in 1 .. Len(kept) : kept[p].name # name
        /\ \A p \in 1 .. Len(marks) : marks[p].name = name \/ IsMarked(kept, marks[p].name)
    BY DEF IsWithout
  <1>5. AreMarks(kept, time) /\ Placed(kept, field, entries)
    OBVIOUS
  <1>7. /\ Len(all) = Len(kept) + 1 /\ \A p \in 1 .. Len(kept) : all[p] = kept[p]
        /\ all[Len(kept) + 1].name = name /\ all[Len(kept) + 1].at = e.at
    BY DEF EndsWith
  <1>9. \A p \in 1 .. Len(all) : p \in 1 .. Len(kept) \/ p = Len(kept) + 1
    BY <1>4, <1>7
  <1>10. \A p \in 1 .. Len(all) : all[p].at <= time /\ all[p].name # NoCorrelation
    BY <1>5, <1>7, <1>9 DEF AreMarks
  <1>11. Placed(all, field, more)
    <2>1. ASSUME NEW p \in 1 .. Len(all)
          PROVE  \E k \in 1 .. Len(more) :
                     LastRefusal(more, field, all[p].name, k) /\ more[k].at = all[p].at
      <3>1. CASE p = Len(kept) + 1
        <4>1. \A j \in Refusals(more, field, name, Len(entries) + 1) : j <= Len(entries) + 1
          BY <1>1 DEF Refusals
        <4>2. LastRefusal(more, field, all[p].name, Len(entries) + 1) /\ more[Len(entries) + 1].at = all[p].at
          BY <1>1, <1>3, <1>7, <3>1, <4>1 DEF LastRefusal
        <4> QED BY <1>1, <4>2
      <3>2. CASE p \in 1 .. Len(kept)
        <4>1. PICK k \in 1 .. Len(entries) :
                  LastRefusal(entries, field, kept[p].name, k) /\ entries[k].at = kept[p].at
          BY <1>5, <3>2 DEF Placed
        <4>2. kept[p].name # name
          BY <1>4, <3>2
        <4>3. LastRefusal(more, field, kept[p].name, k)
          BY <1>1, <1>2, <4>1, <4>2 DEF LastRefusal
        <4>4. k \in 1 .. Len(more) /\ more[k] = entries[k] /\ all[p] = kept[p]
          BY <1>1, <1>7, <3>2
        <4> QED BY <4>1, <4>3, <4>4
      <3> QED BY <1>9, <3>1, <3>2
    <2>2. ASSUME NEW p \in 1 .. Len(all), NEW q \in 1 .. Len(all), p < q
          PROVE  \E k \in Refusals(more, field, all[q].name, Len(more)) :
                     \A j \in Refusals(more, field, all[p].name, Len(more)) : j < k
      <3>1. p \in 1 .. Len(kept) /\ all[p] = kept[p] /\ kept[p].name # name
        BY <1>4, <1>7, <1>9, <2>2
      <3>2. Refusals(more, field, all[p].name, Len(more)) = Refusals(entries, field, kept[p].name, Len(entries))
        BY <1>1, <1>2, <3>1
      <3>3. CASE q = Len(kept) + 1
        <4>1. \A j \in Refusals(entries, field, kept[p].name, Len(entries)) : j < Len(entries) + 1
          BY <1>1 DEF Refusals
        <4> QED BY <1>1, <1>3, <1>7, <3>2, <3>3, <4>1
      <3>4. CASE q \in 1 .. Len(kept)
        <4>1. all[q] = kept[q] /\ kept[q].name # name
          BY <1>4, <1>7, <3>4
        <4>2. Refusals(more, field, all[q].name, Len(more)) = Refusals(entries, field, kept[q].name, Len(entries))
          BY <1>1, <1>2, <4>1
        <4>3. \E k \in Refusals(entries, field, kept[q].name, Len(entries)) :
                  \A j \in Refusals(entries, field, kept[p].name, Len(entries)) : j < k
          BY <1>5, <2>2, <3>1, <3>4 DEF Placed
        <4> QED BY <3>2, <4>2, <4>3
      <3> QED BY <1>9, <3>3, <3>4
    <2> QED BY <2>1, <2>2 DEF Placed
  <1>12. Remembers(all, field, more, time, w)
    <2> SUFFICES ASSUME NEW i \in 1 .. Len(more), ~more[i].accepted,
                        NameIn(more[i], field) # NoCorrelation
                 PROVE  \/ IsMarked(all, NameIn(more[i], field))
                        \/ MayBeForgotten(more, field, i, Len(more), time, w, Observed(w))
      BY DEF Remembers
    <2>1. CASE NameIn(more[i], field) = name
      <3>1. Len(kept) + 1 \in 1 .. Len(all) /\ all[Len(kept) + 1].name = name
        BY <1>4, <1>7
      <3> QED BY <2>1, <3>1 DEF IsMarked
    <2>2. CASE NameIn(more[i], field) # name
      <3>1. i \in 1 .. Len(entries) /\ more[i] = entries[i]
        <4>1. i = Len(entries) + 1 => more[i] = e
          BY <1>1
        <4> QED BY <1>1, <2>2, <4>1
      <3>2. CASE IsMarked(marks, NameIn(entries[i], field))
        <4>1. IsMarked(kept, NameIn(entries[i], field))
          BY <1>4, <2>2, <3>1, <3>2 DEF IsMarked
        <4>2. \A p \in 1 .. Len(kept) : p \in 1 .. Len(all) /\ all[p] = kept[p]
          BY <1>4, <1>7
        <4> QED BY <3>1, <4>1, <4>2 DEF IsMarked
      <3>3. CASE MayBeForgotten(entries, field, i, Len(entries), time, w, Observed(w))
        <4>1. Len(entries) \in 0 .. Len(entries) /\ Len(more) \in Len(entries) .. Len(more)
          BY <1>1
        <4>2. Observed(w) \subseteq Observed(w) /\ time <= time
          OBVIOUS
        <4>3. MayBeForgotten(more, field, i, Len(more), time, w, Observed(w))
          BY <1>1, <3>1, <3>3, <4>1, <4>2, ForgottenStays
        <4> QED BY <4>3
      <3> QED BY <3>1, <3>2, <3>3 DEF Remembers
    <2> QED BY <2>1, <2>2
  <1> QED BY <1>10, <1>11, <1>12

LEMMA PartIsPlaced ==
    ASSUME NEW marks, NEW field, NEW entries, Placed(marks, field, entries),
           NEW part, NEW places, IsPartOf(part, places, marks, Len(marks))
    PROVE  Placed(part, field, entries)
  <1>1. \A p \in 1 .. Len(part) : places[p] \in 1 .. Len(marks) /\ part[p] = marks[places[p]]
    BY DEF IsPartOf
  <1>2. ASSUME NEW p \in 1 .. Len(part)
        PROVE  \E k \in 1 .. Len(entries) :
                   LastRefusal(entries, field, part[p].name, k) /\ entries[k].at = part[p].at
    <2>1. places[p] \in 1 .. Len(marks) /\ part[p] = marks[places[p]]
      BY <1>1
    <2>2. PICK k \in 1 .. Len(entries) :
              /\ LastRefusal(entries, field, marks[places[p]].name, k)
              /\ entries[k].at = marks[places[p]].at
      BY <2>1 DEF Placed
    <2> QED BY <2>1, <2>2
  <1>3. ASSUME NEW p \in 1 .. Len(part), NEW q \in 1 .. Len(part), p < q
        PROVE  \E k \in Refusals(entries, field, part[q].name, Len(entries)) :
                   \A j \in Refusals(entries, field, part[p].name, Len(entries)) : j < k
    <2>1. places[p] < places[q]
      BY <1>3 DEF IsPartOf
    <2> QED BY <1>1, <2>1 DEF Placed
  <1> QED BY <1>2, <1>3 DEF Placed

(* When there is a mark too many, all but the first were refused later.    *)
LEMMA FirstMayGo ==
    ASSUME NEW all, NEW field, NEW entries \in Seq(LogEntries), NEW time, NEW w,
           Placed(all, field, entries), Len(all) = MaxSpans + 1,
           \A p \in 1 .. Len(all) : all[p].name # NoCorrelation
    PROVE  Forgettable(all[1].name, field, entries, time, w)
  <1> SUFFICES ASSUME NEW i \in Refusals(entries, field, all[1].name, Len(entries))
               PROVE  MayBeForgotten(entries, field, i, Len(entries), time, w, Observed(w))
    BY DEF Forgettable
  <1>0. MaxSpans \in Nat /\ Len(entries) \in Nat
    BY LimitsOfTheReceiver, LenProperties
  <1>1. i \in 1 .. Len(entries) /\ NameIn(entries[i], field) = all[1].name
    BY DEF Refusals
  <1> DEFINE S == 2 .. MaxSpans + 1
             T == NamesRefused(entries, field, i, Len(entries)) \ {all[1].name, NoCorrelation}
             f == [p \in S |-> all[p].name]
  <1>2. ASSUME NEW p \in 1 .. Len(all), NEW q \in 1 .. Len(all), p < q
        PROVE  all[p].name # all[q].name
    <2>1. PICK k \in Refusals(entries, field, all[q].name, Len(entries)) :
              \A j \in Refusals(entries, field, all[p].name, Len(entries)) : j < k
      BY <1>2 DEF Placed
    <2>2. k \in Nat
      BY <1>0 DEF Refusals
    <2> QED BY <2>1, <2>2
  <1>3. ASSUME NEW p \in S PROVE all[p].name \in T
    <2>1. p \in 1 .. Len(all) /\ 1 \in 1 .. Len(all) /\ 1 < p
      BY <1>0
    <2>2. PICK k \in Refusals(entries, field, all[p].name, Len(entries)) :
              \A j \in Refusals(entries, field, all[1].name, Len(entries)) : j < k
      BY <2>1 DEF Placed
    <2>3. /\ i < k /\ k \in 1 .. Len(entries)
          /\ ~entries[k].accepted /\ NameIn(entries[k], field) = all[p].name
      BY <2>2 DEF Refusals
    <2>4. k \in i + 1 .. Len(entries)
      BY <1>0, <1>1, <2>3
    <2>5. all[p].name \in NamesRefused(entries, field, i, Len(entries))
      BY <2>3, <2>4 DEF NamesRefused
    <2>6. all[p].name # all[1].name /\ all[p].name # NoCorrelation
      BY <1>2, <2>1
    <2> QED BY <2>5, <2>6
  <1>4. f \in Injection(S, T)
    <2>1. f \in [S -> T]
      <3> HIDE DEF T, S
      <3> QED BY <1>3
    <2>2. ASSUME NEW p \in S, NEW q \in S, f[p] = f[q] PROVE p = q
      <3>1. p \in 1 .. Len(all) /\ q \in 1 .. Len(all) /\ p \in Nat /\ q \in Nat
        BY <1>0
      <3>2. all[p].name = all[q].name
        BY <2>2
      <3>3. ~(p < q) /\ ~(q < p)
        BY <1>2, <3>1, <3>2
      <3> QED BY <3>1, <3>3
    <2> HIDE DEF f, S, T
    <2> QED BY <2>1, <2>2 DEF Injection, IsInjective
  <1>5. IsFiniteSet(T) /\ Cardinality(T) \in Nat
    <2>1. i \in Nat
      BY <1>0, <1>1
    <2> QED BY <1>0, <2>1, NamesAreFinite
  <1>6. Cardinality(S) = MaxSpans
    BY <1>0, FS_Interval
  <1>7. Cardinality(T) >= MaxSpans
    <2>1. Cardinality(S) <= Cardinality(T)
      <3> HIDE DEF f, S, T
      <3> QED BY <1>4, <1>5, FS_Injection
    <2> HIDE DEF S, T
    <2> QED BY <1>0, <1>5, <1>6, <2>1
  <1> QED BY <1>1, <1>7 DEF MayBeForgotten

(* Remembering a refusal (_remember_rejection).                            *)
LEMMA RememberedMarks ==
    ASSUME NEW marks, NEW field, NEW entries \in Seq(LogEntries), NEW time \in Nat, NEW w,
           MarksOK(marks, field, entries, time, w),
           NEW e \in LogEntries, ~e.accepted, e.at <= time,
           NameIn(e, field) \in Names, NameIn(e, field) # NoCorrelation
    PROVE  MarksOK(Remembered(marks, NameIn(e, field), e.at), field, Append(entries, e), time, w)
  <1> DEFINE name == NameIn(e, field)
             mark == [name |-> name, at |-> e.at]
             kept == Forgotten(marks, {name})
             all == Append(kept, mark)
             more == Append(entries, e)
  <1>1. /\ IsBeginningOf(entries, more) /\ Len(more) = Len(entries) + 1 /\ Len(entries) \in Nat
        /\ more[Len(entries) + 1] = e /\ \A i \in 1 .. Len(entries) : more[i] = entries[i]
        /\ more \in Seq(LogEntries)
    BY AppendedBegins DEF IsBeginningOf
  <1>2. marks \in Seq(Marks) /\ Len(marks) <= MaxSpans /\ Len(marks) \in Nat
    BY LenProperties DEF MarksOK, AreMarks
  <1>3. /\ kept \in Seq(Marks) /\ Len(kept) \in Nat /\ Len(kept) <= Len(marks)
        /\ \E places : IsPartOf(kept, places, marks, Len(marks))
        /\ \A p \in 1 .. Len(kept) : kept[p].name # name
        /\ \A p \in 1 .. Len(marks) : marks[p].name = name \/ IsMarked(kept, marks[p].name)
    <2>1. /\ \A p \in 1 .. Len(kept) : kept[p].name \notin {name}
          /\ \A p \in 1 .. Len(marks) : marks[p].name \in {name} \/ IsMarked(kept, marks[p].name)
          /\ kept \in Seq(Marks) /\ Len(kept) \in Nat /\ Len(kept) <= Len(marks)
          /\ \E places : IsPartOf(kept, places, marks, Len(marks))
      <3> HIDE DEF name
      <3> QED BY <1>2, ForgottenIs
    <2> HIDE DEF kept, name
    <2> QED BY <2>1
  <1>4. mark \in Marks /\ mark.name = name /\ mark.at = e.at
    <2>1. e.at \in Nat
      BY DEF LogEntries
    <2> QED BY <2>1 DEF Marks
  <1>5. \A other : other # name =>
            Refusals(more, field, other, Len(entries) + 1)
                = Refusals(entries, field, other, Len(entries))
    <2> SUFFICES ASSUME NEW other, other # name
                 PROVE  Refusals(more, field, other, Len(entries) + 1)
                            = Refusals(entries, field, other, Len(entries))
      OBVIOUS
    <2> DEFINE extra == {i \in {Len(entries) + 1} : ~e.accepted /\ NameIn(e, field) = other}
    <2>1. Refusals(more, field, other, Len(entries) + 1)
              = Refusals(entries, field, other, Len(entries)) \cup extra
      BY RefusalsAfter
    <2>2. extra = {}
      OBVIOUS
    <2> HIDE DEF extra, more
    <2> QED BY <2>1, <2>2
  <1> HIDE DEF mark, kept, more, name
  <1>6. AreMarks(kept, time) /\ Placed(kept, field, entries)
    BY <1>3, PartOfMarks DEF MarksOK
  <1>7. /\ all \in Seq(Marks) /\ Len(all) = Len(kept) + 1
        /\ \A p \in 1 .. Len(kept) : all[p] = kept[p]
        /\ all[Len(kept) + 1] = mark
    BY <1>3, <1>4, AppendProperties
  <1> HIDE DEF all
  <1>8. ~e.accepted /\ e.at <= time /\ NameIn(e, field) = name /\ name # NoCorrelation
    BY DEF name
  <1>9. all[Len(kept) + 1].name = name /\ all[Len(kept) + 1].at = e.at
    BY <1>4, <1>7
  <1>10. Remembers(marks, field, entries, time, w)
    BY DEF MarksOK
  <1>15. /\ IsAppended(entries, more, e) /\ OnlyRefuses(entries, more, field, name)
         /\ IsWithout(marks, kept, name) /\ EndsWith(kept, all, name, e.at)
    BY <1>1, <1>3, <1>5, <1>7, <1>9 DEF IsAppended, OnlyRefuses, IsWithout, EndsWith
  <1>11. /\ \A p \in 1 .. Len(all) : all[p].at <= time /\ all[p].name # NoCorrelation
         /\ Placed(all, field, more) /\ Remembers(all, field, more, time, w)
    BY <1>6, <1>8, <1>10, <1>15, MarkGoesLast
  <1>14. Len(all) \in Nat /\ MaxSpans \in Nat
    BY <1>3, <1>7, LimitsOfTheReceiver
  <1>16. Remembered(marks, name, e.at) =
             SubSeq(all, (IF Len(all) > MaxSpans THEN Len(all) - MaxSpans ELSE 0) + 1, Len(all))
    BY DEF Remembered, all, kept, mark
  <1>12. CASE Len(all) <= MaxSpans
    <2>1. Remembered(marks, name, e.at) = all
      <3>1. Remembered(marks, name, e.at) = SubSeq(all, 0 + 1, Len(all))
        <4>1. ~(Len(all) > MaxSpans)
          BY <1>12, <1>14
        <4> QED BY <1>16, <4>1
      <3>2. SubSeq(all, 1, Len(all)) = all /\ 0 + 1 = 1
        BY <1>7, SubSeqFull
      <3> QED BY <3>1, <3>2
    <2>2. AreMarks(all, time)
      BY <1>7, <1>11, <1>12 DEF AreMarks
    <2> QED BY <1>11, <2>1, <2>2 DEF MarksOK, more, name
  <1>13. CASE Len(all) > MaxSpans
    <2>1. Len(all) = MaxSpans + 1
      BY <1>2, <1>3, <1>7, <1>13, LimitsOfTheReceiver
    <2>2. Remembered(marks, name, e.at) = SubSeq(all, 1 + 1, Len(all))
      <3>1. Remembered(marks, name, e.at) = SubSeq(all, (Len(all) - MaxSpans) + 1, Len(all))
        BY <1>13, <1>16
      <3>2. Len(all) - MaxSpans = 1
        BY <2>1, LimitsOfTheReceiver
      <3> QED BY <3>1, <3>2
    <2> DEFINE part == SubSeq(all, 1 + 1, Len(all))
    <2>3. /\ part \in Seq(Marks) /\ Len(part) = Len(all) - 1
          /\ \A p \in 1 .. Len(all) - 1 : part[p] = all[1 + p]
          /\ \E places : IsPartOf(part, places, all, Len(all))
      <3>1. 1 \in 0 .. Len(all)
        BY <2>1, LimitsOfTheReceiver
      <3> QED BY <1>7, <3>1, RestIsPart
    <2> HIDE DEF part
    <2>4. Placed(part, field, more)
      BY <1>11, <2>3, PartIsPlaced
    <2>5. Forgettable(all[1].name, field, more, time, w)
      BY <1>1, <1>11, <2>1, FirstMayGo
    <2>6. \A p \in 1 .. Len(all) : p = 1 \/ IsMarked(part, all[p].name)
      <3> SUFFICES ASSUME NEW p \in 1 .. Len(all), p # 1 PROVE IsMarked(part, all[p].name)
        OBVIOUS
      <3>1. p - 1 \in 1 .. Len(part) /\ p - 1 \in 1 .. Len(all) - 1 /\ 1 + (p - 1) = p
        BY <2>1, <2>3, LimitsOfTheReceiver
      <3> QED BY <2>3, <3>1 DEF IsMarked
    <2>7. Remembers(part, field, more, time, w)
      BY <1>11, <2>5, <2>6, PartIsEnough
    <2>8. AreMarks(part, time)
      <3>1. Len(part) <= MaxSpans /\ \A p \in 1 .. Len(part) : 1 + p \in 1 .. Len(all) /\ p \in 1 .. Len(all) - 1
        BY <2>1, <2>3, LimitsOfTheReceiver
      <3> QED BY <1>11, <2>3, <3>1 DEF AreMarks
    <2> QED BY <2>2, <2>4, <2>7, <2>8 DEF MarksOK, more, name, part
  <1> QED BY <1>12, <1>13, <1>14
-----------------------------------------------------------------------------
(***************************************************************************)
(* The spans.                                                              *)
(***************************************************************************)
LEMMA PostedIs ==
    ASSUME NEW span \in Posted
    PROVE  /\ span.size \in Nat /\ span.trace # NoTrace
           /\ span.trace \in Names /\ span.correlation \in Names
  <1>1. PICK payload \in Payloads : span \in Range(payload)
    BY DEF Posted
  <1>2. span.size \in Nat /\ span.trace # NoTrace
    BY <1>1, PayloadsAreSpans
  <1> QED BY <1>2 DEF Names

LEMMA BufferIs ==
    ASSUME NEW span, NEW at
    PROVE  /\ Identity(Buffered(span, at)) = Identity(span) /\ Buffered(span, at).at = at
           /\ Buffered(span, at).size = span.size /\ Buffered(span, at).readable = span.readable
           /\ Buffered(span, at).trace = span.trace
           /\ Buffered(span, at).correlation = span.correlation
  BY DEF Buffered, Identity

LEMMA BuffersAreSized ==
    AreSized(Buffers) /\ \A b \in Buffers : b.at \in Nat /\ b.trace # NoTrace
  <1> SUFFICES ASSUME NEW span \in Posted, NEW time \in Nat, NEW b, b = Buffered(span, time)
               PROVE  b.size \in Nat /\ b.at \in Nat /\ b.trace # NoTrace
    BY DEF AreSized, Buffers
  <1> QED BY BufferIs, PostedIs

LEMMA SpanIs ==
    ASSUME NEW all \in Seq(Buffers)
    PROVE  /\ Len(all) \in Nat /\ DOMAIN all = 1 .. Len(all)
           /\ \A i \in 1 .. Len(all) :
                  all[i] \in Buffers /\ all[i].size \in Nat /\ all[i].at \in Nat
                  /\ all[i].trace # NoTrace
           /\ Range(all) = {all[i] : i \in 1 .. Len(all)}
           /\ SumOfSizes(all) \in Nat
           /\ Identities(all) = {Identity(all[i]) : i \in 1 .. Len(all)}
  <1>1. Len(all) \in Nat /\ DOMAIN all = 1 .. Len(all)
    BY LenProperties
  <1>2. \A i \in 1 .. Len(all) : all[i] \in Buffers
    BY ElementOfSeq
  <1>3. SumOfSizes(all) \in Nat
    BY BuffersAreSized, SizesAreNumbers
  <1>4. Range(all) = {all[i] : i \in 1 .. Len(all)}
    BY <1>1 DEF Range
  <1>5. Identities(all) = {Identity(all[i]) : i \in 1 .. Len(all)}
    BY <1>4 DEF Identities
  <1> QED BY <1>1, <1>2, <1>3, <1>4, <1>5, BuffersAreSized DEF AreSized

(* No two spans of a store have one identity.                              *)
LEMMA OneVersion ==
    ASSUME NEW index, NEW all \in Seq(Buffers), IsIndex(index, all),
           NEW i \in 1 .. Len(all), NEW j \in 1 .. Len(all), Identity(all[i]) = Identity(all[j])
    PROVE  i = j
  BY DEF IsIndex

(* _set_spans: the index of what is left.                                  *)
LEMMA IndexOfPart ==
    ASSUME NEW index, NEW all \in Seq(Buffers), IsIndex(index, all),
           NEW part \in Seq(Buffers), NEW places, IsPartOf(part, places, all, Len(all))
    PROVE  IsIndex(IndexesOf(part), part)
  <1>0. Len(part) \in Nat /\ DOMAIN part = 1 .. Len(part)
    BY SpanIs
  <1>1. ASSUME NEW i \in 1 .. Len(part), NEW j \in 1 .. Len(part),
               Identity(part[i]) = Identity(part[j])
        PROVE  i = j
    <2>1. /\ places[i] \in 1 .. Len(all) /\ part[i] = all[places[i]]
          /\ places[j] \in 1 .. Len(all) /\ part[j] = all[places[j]]
      BY DEF IsPartOf
    <2>2. places[i] = places[j]
      BY <1>1, <2>1, OneVersion
    <2>3. i < j => places[i] < places[j]
      BY DEF IsPartOf
    <2>4. j < i => places[j] < places[i]
      BY DEF IsPartOf
    <2>5. places[i] \in Nat /\ places[j] \in Nat /\ i \in Nat /\ j \in Nat
      <3>1. Len(all) \in Nat
        BY SpanIs
      <3> QED BY <1>0, <2>1, <3>1
    <2> QED BY <2>2, <2>3, <2>4, <2>5
  <1>2. DOMAIN IndexesOf(part) = Identities(part)
    BY DEF IndexesOf
  <1>3. ASSUME NEW i \in 1 .. Len(part) PROVE IndexesOf(part)[Identity(part[i])] = i
    <2>1. Identity(part[i]) \in Identities(part)
      BY SpanIs
    <2>2. IndexesOf(part)[Identity(part[i])] =
              CHOOSE k \in 1 .. Len(part) : Identity(part[k]) = Identity(part[i])
      BY <1>0, <2>1 DEF IndexesOf
    <2> DEFINE k == CHOOSE k \in 1 .. Len(part) : Identity(part[k]) = Identity(part[i])
    <2>3. k \in 1 .. Len(part) /\ Identity(part[k]) = Identity(part[i])
      OBVIOUS
    <2> HIDE DEF k
    <2>4. k = i
      BY <1>1, <2>3
    <2> QED BY <2>2, <2>4 DEF k
  <1> QED BY <1>2, <1>3 DEF IsIndex

LEMMA LeftOfSpans ==
    ASSUME NEW all, NEW time, AreSpans(all, time), NEW index, IsIndex(index, all), NEW keep
    PROVE  /\ AreSpans(Only(all, keep), time)
           /\ IsIndex(IndexesOf(Only(all, keep)), Only(all, keep))
           /\ \A b \in Range(all) : b \in keep => b \in Range(Only(all, keep))
  <1> DEFINE part == Only(all, keep)
  <1>0. /\ all \in Seq(Buffers) /\ Len(all) <= MaxSpans /\ SumOfSizes(all) <= MaxBufferBytes
        /\ \A i \in 1 .. Len(all) :
               all[i].at <= time /\ all[i].readable /\ all[i].size <= Budget
    BY DEF AreSpans
  <1>1. /\ part \in Seq(Buffers) /\ Len(part) \in Nat /\ Len(all) \in Nat
        /\ IsWhatIsLeft(part, all, keep, Len(all))
    BY <1>0, OnlyIsLeft
  <1>2. SumOfSizes(part) <= SumOfSizes(all)
    BY <1>0, BuffersAreSized, OnlyIsSmaller
  <1> HIDE DEF part
  <1>3. PICK places : IsPartOf(part, places, all, Len(all))
    BY <1>1 DEF IsWhatIsLeft
  <1>4. AreSpans(part, time)
    <2>1. Len(part) <= MaxSpans
      BY <1>0, <1>1, LimitsOfTheReceiver DEF IsWhatIsLeft
    <2>2. SumOfSizes(part) <= MaxBufferBytes
      BY <1>0, <1>1, <1>2, SpanIs, LimitsOfTheReceiver
    <2>3. \A i \in 1 .. Len(part) : places[i] \in 1 .. Len(all) /\ part[i] = all[places[i]]
      BY <1>3 DEF IsPartOf
    <2> QED BY <1>0, <1>1, <2>1, <2>2, <2>3 DEF AreSpans
  <1>5. IsIndex(IndexesOf(part), part)
    BY <1>0, <1>1, <1>3, IndexOfPart
  <1>6. ASSUME NEW b \in Range(all), b \in keep PROVE b \in Range(part)
    <2>1. PICK k \in 1 .. Len(all) : b = all[k]
      BY <1>0, SpanIs
    <2>2. PICK i \in 1 .. Len(part) : part[i] = all[k]
      BY <1>1, <1>6, <2>1 DEF IsWhatIsLeft
    <2> QED BY <1>1, <2>1, <2>2, SpanIs
  <1> QED BY <1>4, <1>5, <1>6 DEF part

LEMMA SpansStay ==
    ASSUME NEW all, NEW entries \in Seq(LogEntries), NEW time \in Nat, NEW w,
           HoldsAll(all, entries, time, w),
           NEW later \in Nat, time <= later, NEW v, Follows(w, v)
    PROVE  HoldsAll(all, entries, later, v)
  <1> SUFFICES ASSUME NEW i \in 1 .. Len(entries), LastAccepted(entries, i, Len(entries))
               PROVE  \/ Buffered(entries[i].span, entries[i].at) \in Range(all)
                      \/ entries[i].at + Retention < later
                      \/ \E q \in Observed(v) : TookIt(v, q, entries, i)
    BY DEF HoldsAll
  <1>1. CASE Buffered(entries[i].span, entries[i].at) \in Range(all)
    BY <1>1
  <1>2. CASE entries[i].at + Retention < time
    <2>1. entries[i].at + Retention \in Nat
      BY EntriesAre, LimitsOfTheReceiver
    <2> QED BY <1>2, <2>1
  <1>3. CASE \E q \in Observed(w) : TookIt(w, q, entries, i)
    BY <1>3 DEF Follows, TookIt
  <1> QED BY <1>1, <1>2, <1>3 DEF HoldsAll

LEMMA FewerSpans ==
    ASSUME NEW all, NEW part, NEW entries \in Seq(LogEntries), NEW time, NEW w,
           HoldsAll(all, entries, time, w),
           \A b \in Range(all) :
               \/ b \in Range(part)
               \/ b.at + Retention < time
               \/ \E q \in Observed(w) : Identity(b) \in w[q].took /\ w[q].taken = Len(entries)
    PROVE  HoldsAll(part, entries, time, w)
  <1> SUFFICES ASSUME NEW i \in 1 .. Len(entries), LastAccepted(entries, i, Len(entries))
               PROVE  \/ Buffered(entries[i].span, entries[i].at) \in Range(part)
                      \/ entries[i].at + Retention < time
                      \/ \E q \in Observed(w) : TookIt(w, q, entries, i)
    BY DEF HoldsAll
  <1> DEFINE b == Buffered(entries[i].span, entries[i].at)
  <1>1. b.at = entries[i].at /\ Identity(b) = Identity(entries[i].span)
    BY BufferIs
  <1>2. Len(entries) >= i
    BY EntriesAre
  <1> HIDE DEF b
  <1>3. CASE b \in Range(all)
    BY <1>1, <1>2, <1>3 DEF TookIt, b
  <1>4. CASE b \notin Range(all)
    BY <1>4 DEF HoldsAll, b
  <1> QED BY <1>3, <1>4

(* A span is added, or replaces the version that is there.                 *)
LEMMA NumbersSwap ==
    ASSUME NEW a \in Nat, NEW b \in Nat, NEW c \in Nat, NEW d \in Nat, a + b = c + d
    PROVE  a = c - b + d
  OBVIOUS

IsReplaced(s, t, i, e) ==
    Len(t) = Len(s) /\ \A j \in 1 .. Len(s) : t[j] = IF j = i THEN e ELSE s[j]

LEMMA SumOfReplaced ==
    ASSUME NEW E, AreSized(E), NEW s \in Seq(E), NEW i \in 1 .. Len(s), NEW e \in E,
           NEW t \in Seq(E), IsReplaced(s, t, i, e)
    PROVE  SumOfSizes(t) + s[i].size = SumOfSizes(s) + e.size
  <1>1. /\ t \in Seq(E) /\ Len(t) = Len(s) /\ Len(s) \in Nat
        /\ \A j \in 1 .. Len(s) : t[j] = IF j = i THEN e ELSE s[j]
    BY LenProperties DEF IsReplaced
  <1> DEFINE a == RemoveAt(s, i)
             b == RemoveAt(t, i)
  <1>2. /\ a \in Seq(E) /\ Len(a) = Len(s) - 1
        /\ \A j \in 1 .. Len(s) - 1 : a[j] = IF j < i THEN s[j] ELSE s[j + 1]
        /\ SumOfSizes(a) + s[i].size = SumOfSizes(s)
    BY SumWithout
  <1>3. /\ b \in Seq(E) /\ Len(b) = Len(s) - 1
        /\ \A j \in 1 .. Len(s) - 1 : b[j] = IF j < i THEN t[j] ELSE t[j + 1]
        /\ SumOfSizes(b) + t[i].size = SumOfSizes(t)
    <2>1. i \in 1 .. Len(t) /\ t \in Seq(E) /\ Len(t) = Len(s)
      BY <1>1
    <2>2. /\ b \in Seq(E) /\ Len(b) = Len(t) - 1
          /\ \A j \in 1 .. Len(t) - 1 : b[j] = IF j < i THEN t[j] ELSE t[j + 1]
          /\ SumOfSizes(b) + t[i].size = SumOfSizes(t)
      BY <2>1, SumWithout
    <2> QED BY <2>1, <2>2
  <1> HIDE DEF a, b
  <1>4. \A j \in 1 .. Len(a) : a[j] = b[j]
    <2> SUFFICES ASSUME NEW j \in 1 .. Len(s) - 1 PROVE a[j] = b[j]
      BY <1>2
    <2>1. j \in 1 .. Len(s) /\ j + 1 \in 1 .. Len(s)
      BY <1>1
    <2>2. CASE j < i
      BY <1>1, <1>2, <1>3, <2>1, <2>2
    <2>3. CASE ~(j < i)
      <3>1. j + 1 # i
        BY <1>1, <2>1, <2>3
      <3> QED BY <1>1, <1>2, <1>3, <2>1, <2>3, <3>1
    <2> QED BY <2>2, <2>3
  <1>5. a = b
    BY <1>2, <1>3, <1>4, SeqEqual
  <1>6. t[i] = e
    BY <1>1
  <1>7. /\ SumOfSizes(a) \in Nat /\ SumOfSizes(s) \in Nat /\ SumOfSizes(t) \in Nat
        /\ s[i].size \in Nat /\ e.size \in Nat
    BY <1>1, <1>2, SizesAreNumbers DEF AreSized
  <1>8. SumOfSizes(a) + e.size = SumOfSizes(t)
    BY <1>3, <1>5, <1>6
  <1> DEFINE A == SumOfSizes(a)
             S == SumOfSizes(s)
             T == SumOfSizes(t)
             p == s[i].size
             q == e.size
  <1>9. /\ A \in Nat /\ S \in Nat /\ T \in Nat /\ p \in Nat /\ q \in Nat
        /\ A + p = S /\ A + q = T
    BY <1>2, <1>7, <1>8
  <1> HIDE DEF A, S, T, p, q
  <1>10. T + p = S + q
    BY <1>9
  <1> QED BY <1>10 DEF S, T, p, q

IsLonger(more, all, b) == more = Append(all, b)

IsWider(wider, index, identity, spot) ==
    wider = [other \in DOMAIN index \cup {identity} |->
                IF other = identity THEN spot ELSE index[other]]

LEMMA AddedSpans ==
    ASSUME NEW all, NEW time, AreSpans(all, time), NEW index, IsIndex(index, all),
           NEW b \in Buffers, b.at <= time, b.readable, b.size <= Budget,
           Len(all) < MaxSpans, SumOfSizes(all) + b.size <= MaxBufferBytes,
           Identity(b) \notin DOMAIN index,
           NEW more, IsLonger(more, all, b),
           NEW wider, IsWider(wider, index, Identity(b), Len(all) + 1)
    PROVE  /\ AreSpans(more, time) /\ IsIndex(wider, more)
           /\ b \in Range(more) /\ \A c \in Range(all) : c \in Range(more)
  <1>1. /\ all \in Seq(Buffers) /\ Len(all) \in Nat
        /\ \A i \in 1 .. Len(all) :
               all[i].at <= time /\ all[i].readable /\ all[i].size <= Budget
        /\ DOMAIN index = Identities(all)
        /\ \A i \in 1 .. Len(all) : index[Identity(all[i])] = i
    BY SpanIs DEF AreSpans, IsIndex
  <1>2. /\ more \in Seq(Buffers) /\ Len(more) = Len(all) + 1
        /\ \A i \in 1 .. Len(all) : more[i] = all[i]
        /\ more[Len(all) + 1] = b
    BY <1>1, AppendProperties DEF IsLonger
  <1>3. SumOfSizes(more) = SumOfSizes(all) + b.size
    BY <1>1, BuffersAreSized, SumOfAppend DEF IsLonger
  <1>4. \A i \in 1 .. Len(more) : i \in 1 .. Len(all) \/ i = Len(all) + 1
    BY <1>1, <1>2
  <1>5. AreSpans(more, time)
    <2>1. Len(more) <= MaxSpans
      BY <1>1, <1>2, LimitsOfTheReceiver
    <2>2. \A i \in 1 .. Len(more) : more[i].at <= time /\ more[i].readable /\ more[i].size <= Budget
      BY <1>1, <1>2, <1>4
    <2>3. SumOfSizes(more) <= MaxBufferBytes
      BY <1>3
    <2> QED BY <1>2, <2>1, <2>2, <2>3 DEF AreSpans
  <1>6. Identities(more) = Identities(all) \cup {Identity(b)}
    <2>1. \A i \in 1 .. Len(all) : i \in 1 .. Len(more)
      BY <1>1, <1>2
    <2>2. Len(all) + 1 \in 1 .. Len(more)
      BY <1>1, <1>2
    <2>3. /\ Identities(more) = {Identity(more[i]) : i \in 1 .. Len(more)}
          /\ Identities(all) = {Identity(all[i]) : i \in 1 .. Len(all)}
      BY <1>1, <1>2, SpanIs
    <2> QED BY <1>2, <1>4, <2>1, <2>2, <2>3
  <1>7. IsIndex(wider, more)
    <2>0. wider = [other \in DOMAIN index \cup {Identity(b)} |->
                      IF other = Identity(b) THEN Len(all) + 1 ELSE index[other]]
      BY DEF IsWider
    <2>1. DOMAIN wider = Identities(more)
      BY <1>1, <1>6, <2>0
    <2>2. ASSUME NEW i \in 1 .. Len(more) PROVE wider[Identity(more[i])] = i
      <3>1. CASE i \in 1 .. Len(all)
        <4>1. Identity(all[i]) \in DOMAIN index
          BY <1>1, <3>1, SpanIs
        <4> QED BY <1>1, <1>2, <2>0, <3>1, <4>1
      <3>2. CASE i = Len(all) + 1
        BY <1>2, <2>0, <3>2
      <3> QED BY <1>4, <3>1, <3>2
    <2> QED BY <2>1, <2>2 DEF IsIndex
  <1>8. b \in Range(more) /\ \A c \in Range(all) : c \in Range(more)
    <2>1. Range(more) = {more[i] : i \in 1 .. Len(more)} /\ Range(all) = {all[i] : i \in 1 .. Len(all)}
      BY <1>1, <1>2, SpanIs
    <2>2. Len(all) + 1 \in 1 .. Len(more) /\ \A i \in 1 .. Len(all) : i \in 1 .. Len(more)
      BY <1>1, <1>2
    <2> QED BY <1>2, <2>1, <2>2
  <1> QED BY <1>5, <1>7, <1>8

LEMMA ReplacedSpans ==
    ASSUME NEW all, NEW time, AreSpans(all, time), NEW index, IsIndex(index, all),
           NEW spot \in 1 .. Len(all), NEW b \in Buffers,
           b.at <= time, b.readable, b.size <= Budget,
           SumOfSizes(all) - all[spot].size + b.size <= MaxBufferBytes,
           Identity(b) = Identity(all[spot]),
           NEW more, more = [all EXCEPT ![spot] = b]
    PROVE  /\ AreSpans(more, time) /\ IsIndex(index, more)
           /\ b \in Range(more)
           /\ \A c \in Range(all) : Identity(c) # Identity(b) => c \in Range(more)
  <1>1. /\ all \in Seq(Buffers) /\ Len(all) \in Nat
        /\ Len(all) <= MaxSpans
        /\ \A i \in 1 .. Len(all) :
               all[i].at <= time /\ all[i].readable /\ all[i].size <= Budget
        /\ DOMAIN index = Identities(all)
        /\ \A i \in 1 .. Len(all) : index[Identity(all[i])] = i
    BY SpanIs DEF AreSpans, IsIndex
  <1>2. /\ more \in Seq(Buffers) /\ Len(more) = Len(all)
        /\ \A j \in 1 .. Len(all) : more[j] = IF j = spot THEN b ELSE all[j]
        /\ SumOfSizes(more) + all[spot].size = SumOfSizes(all) + b.size
    <2>1. /\ more \in Seq(Buffers) /\ Len(more) = Len(all)
          /\ \A j \in 1 .. Len(all) : more[j] = IF j = spot THEN b ELSE all[j]
      BY <1>1, ExceptSeq
    <2>2. SumOfSizes(more) + all[spot].size = SumOfSizes(all) + b.size
      <3>1. IsReplaced(all, more, spot, b)
        BY <2>1 DEF IsReplaced
      <3>2. all \in Seq(Buffers) /\ more \in Seq(Buffers) /\ AreSized(Buffers)
        BY <1>1, <2>1, BuffersAreSized
      <3> QED BY <3>1, <3>2, SumOfReplaced
    <2> QED BY <2>1, <2>2
  <1>3. AreSpans(more, time)
    <2>1. \A i \in 1 .. Len(more) : more[i].at <= time /\ more[i].readable /\ more[i].size <= Budget
      BY <1>1, <1>2
    <2>2. SumOfSizes(more) <= MaxBufferBytes
      <3>1. /\ SumOfSizes(more) \in Nat /\ SumOfSizes(all) \in Nat
            /\ all[spot].size \in Nat /\ b.size \in Nat
        BY <1>1, <1>2, SpanIs, BuffersAreSized DEF AreSized
      <3>2. SumOfSizes(more) = SumOfSizes(all) - all[spot].size + b.size
        BY <1>2, <3>1, NumbersSwap
      <3> QED BY <3>2
    <2> QED BY <1>1, <1>2, <2>1, <2>2 DEF AreSpans
  <1>4. \A i \in 1 .. Len(all) : Identity(more[i]) = Identity(all[i])
    BY <1>2
  <1>5. IsIndex(index, more)
    <2>1. /\ Identities(more) = {Identity(more[i]) : i \in 1 .. Len(more)}
          /\ Identities(all) = {Identity(all[i]) : i \in 1 .. Len(all)}
      BY <1>1, <1>2, SpanIs
    <2>2. Identities(more) = Identities(all)
      <3>1. \A x : x \in Identities(more) <=> \E i \in 1 .. Len(all) : x = Identity(more[i])
        BY <1>2, <2>1
      <3>2. \A x : x \in Identities(all) <=> \E i \in 1 .. Len(all) : x = Identity(all[i])
        BY <2>1
      <3>3. ASSUME NEW x \in Identities(more) PROVE x \in Identities(all)
        <4>1. PICK i \in 1 .. Len(all) : x = Identity(more[i])
          BY <3>1
        <4>2. Identity(more[i]) = Identity(all[i])
          BY <1>4
        <4>3. \E j \in 1 .. Len(all) : x = Identity(all[j])
          BY <4>1, <4>2
        <4> QED BY <3>2, <4>3
      <3>4. ASSUME NEW x \in Identities(all) PROVE x \in Identities(more)
        <4>1. PICK i \in 1 .. Len(all) : x = Identity(all[i])
          BY <3>2
        <4>2. Identity(more[i]) = Identity(all[i])
          BY <1>4
        <4>3. \E j \in 1 .. Len(all) : x = Identity(more[j])
          BY <4>1, <4>2
        <4> QED BY <3>1, <4>3
      <3> QED BY <3>3, <3>4
    <2> QED BY <1>1, <1>2, <1>4, <2>2 DEF IsIndex
  <1>6. Range(more) = {more[i] : i \in 1 .. Len(more)} /\ Range(all) = {all[i] : i \in 1 .. Len(all)}
    BY <1>1, <1>2, SpanIs
  <1>7. b \in Range(more)
    BY <1>2, <1>6
  <1>8. \A c \in Range(all) : Identity(c) # Identity(b) => c \in Range(more)
    BY <1>2, <1>6
  <1> QED BY <1>3, <1>5, <1>7, <1>8

(* What the log's next entry changes for what must be there.               *)
LEMMA LastAcceptedAfter ==
    ASSUME NEW entries, NEW more, NEW e, IsAppended(entries, more, e),
           NEW i \in 1 .. Len(entries), LastAccepted(more, i, Len(more))
    PROVE  /\ LastAccepted(entries, i, Len(entries)) /\ more[i] = entries[i]
           /\ e.accepted => Identity(e.span) # Identity(entries[i].span)
  <1>1. /\ Len(more) = Len(entries) + 1 /\ Len(entries) \in Nat
        /\ more[Len(entries) + 1] = e /\ \A j \in 1 .. Len(entries) : more[j] = entries[j]
    BY DEF IsAppended
  <1>2. more[i] = entries[i]
    BY <1>1
  <1>3. /\ more[i].accepted
        /\ \A j \in i + 1 .. Len(more) :
               more[j].accepted => Identity(more[j].span) # Identity(more[i].span)
    BY DEF LastAccepted
  <1>4. Len(entries) + 1 \in i + 1 .. Len(more)
    BY <1>1
  <1>5. \A j \in i + 1 .. Len(entries) : j \in i + 1 .. Len(more) /\ more[j] = entries[j]
    BY <1>1
  <1>6. LastAccepted(entries, i, Len(entries))
    BY <1>2, <1>3, <1>5 DEF LastAccepted
  <1> QED BY <1>1, <1>2, <1>3, <1>4, <1>6

LEMMA RefusedIsNotMissed ==
    ASSUME NEW all, NEW entries, NEW more, NEW e, IsAppended(entries, more, e), ~e.accepted,
           NEW time, NEW w, HoldsAll(all, entries, time, w)
    PROVE  HoldsAll(all, more, time, w)
  <1> SUFFICES ASSUME NEW i \in 1 .. Len(more), LastAccepted(more, i, Len(more))
               PROVE  \/ Buffered(more[i].span, more[i].at) \in Range(all)
                      \/ more[i].at + Retention < time
                      \/ \E q \in Observed(w) : TookIt(w, q, more, i)
    BY DEF HoldsAll
  <1>1. i \in 1 .. Len(entries)
    BY DEF IsAppended, LastAccepted
  <1>2. LastAccepted(entries, i, Len(entries)) /\ more[i] = entries[i]
    BY <1>1, LastAcceptedAfter
  <1> QED BY <1>1, <1>2 DEF HoldsAll, TookIt

LEMMA AcceptedIsThere ==
    ASSUME NEW all, NEW kept, NEW entries, NEW more, NEW e,
           IsAppended(entries, more, e), e.accepted,
           Buffered(e.span, e.at) \in Range(kept),
           \A b \in Range(all) : Identity(b) # Identity(e.span) => b \in Range(kept),
           NEW time, NEW w, HoldsAll(all, entries, time, w)
    PROVE  HoldsAll(kept, more, time, w)
  <1> SUFFICES ASSUME NEW i \in 1 .. Len(more), LastAccepted(more, i, Len(more))
               PROVE  \/ Buffered(more[i].span, more[i].at) \in Range(kept)
                      \/ more[i].at + Retention < time
                      \/ \E q \in Observed(w) : TookIt(w, q, more, i)
    BY DEF HoldsAll
  <1>1. CASE i = Len(entries) + 1
    BY <1>1 DEF IsAppended
  <1>2. CASE i \in 1 .. Len(entries)
    <2>1. /\ LastAccepted(entries, i, Len(entries)) /\ more[i] = entries[i]
          /\ Identity(e.span) # Identity(entries[i].span)
      BY <1>2, LastAcceptedAfter
    <2>2. Identity(Buffered(entries[i].span, entries[i].at)) = Identity(entries[i].span)
      BY BufferIs
    <2> QED BY <1>2, <2>1, <2>2 DEF HoldsAll, TookIt
  <1> QED BY <1>1, <1>2 DEF IsAppended
-----------------------------------------------------------------------------
(***************************************************************************)
(* The store: it is pruned, spans are exported to it, time goes on and     *)
(* observations end.                                                       *)
(***************************************************************************)
LEMMA StoreStays ==
    ASSUME NEW s, NEW time \in Nat, NEW w, StoreOK(s, time, w),
           NEW later \in Nat, time <= later, NEW v, Follows(w, v)
    PROVE  StoreOK(s, later, v)
  <1>1. s.log \in Seq(LogEntries)
    BY DEF StoreOK
  <1>2. AreSpans(s.spans, later)
    <2>1. \A i \in 1 .. Len(s.spans) : s.spans[i].at \in Nat
      BY SpanIs DEF StoreOK, AreSpans
    <2> QED BY <2>1 DEF StoreOK, AreSpans
  <1>3. HoldsAll(s.spans, s.log, later, v)
    BY <1>1, SpansStay DEF StoreOK
  <1>4. MarksOK(s.traces, "trace", s.log, later, v)
    BY <1>1, MarksStay DEF StoreOK
  <1>5. MarksOK(s.correlations, "correlation", s.log, later, v)
    BY <1>1, MarksStay DEF StoreOK
  <1> QED BY <1>1, <1>2, <1>3, <1>4, <1>5 DEF StoreOK

LEMMA PrunedStore ==
    ASSUME NEW s, NEW time \in Nat, NEW w, StoreOK(s, time, w),
           NEW earlier \in Nat, earlier <= time
    PROVE  StoreOK(Pruned(s, earlier), time, w) /\ Pruned(s, earlier).log = s.log
  <1> DEFINE kept == Only(s.spans, {span \in Range(s.spans) : ~Old(span, earlier)})
             p == Pruned(s, earlier)
  <1>1. /\ p.spans = kept /\ p.indexes = IndexesOf(kept) /\ p.log = s.log
        /\ p.traces = MarksAfter(s.traces, earlier)
        /\ p.correlations = MarksAfter(s.correlations, earlier)
        /\ IsStore(p)
    <2> DEFINE index == IndexesOf(kept)
               traces == MarksAfter(s.traces, earlier)
               correlations == MarksAfter(s.correlations, earlier)
    <2>1. p = [s EXCEPT !.spans = kept, !.indexes = index,
                        !.traces = traces, !.correlations = correlations]
      BY DEF Pruned
    <2>2. IsStore(s)
      BY DEF StoreOK
    <2> HIDE DEF p, kept, index, traces, correlations
    <2>3. /\ p.spans = kept /\ p.indexes = index /\ p.log = s.log
          /\ p.traces = traces /\ p.correlations = correlations
          /\ IsStore(p)
      BY <2>1, <2>2 DEF IsStore
    <2> QED BY <2>3 DEF index, traces, correlations
  <1>2. s.log \in Seq(LogEntries)
    BY DEF StoreOK
  <1>3. /\ AreSpans(kept, time) /\ IsIndex(IndexesOf(kept), kept)
        /\ \A b \in Range(s.spans) : Old(b, earlier) \/ b \in Range(kept)
    <2> DEFINE keep == {span \in Range(s.spans) : ~Old(span, earlier)}
    <2>1. \A b \in Range(s.spans) : Old(b, earlier) \/ b \in keep
      OBVIOUS
    <2> HIDE DEF keep
    <2>2. /\ AreSpans(Only(s.spans, keep), time)
          /\ IsIndex(IndexesOf(Only(s.spans, keep)), Only(s.spans, keep))
          /\ \A b \in Range(s.spans) : b \in keep => b \in Range(Only(s.spans, keep))
      BY LeftOfSpans DEF StoreOK
    <2>3. \A b \in Range(s.spans) : Old(b, earlier) \/ b \in Range(Only(s.spans, keep))
      BY <2>1, <2>2
    <2> QED BY <2>2, <2>3 DEF keep
  <1> HIDE DEF kept, p
  <1>4. HoldsAll(kept, s.log, time, w)
    <2>1. ASSUME NEW b \in Range(s.spans), Old(b, earlier) PROVE b.at + Retention < time
      <3>1. b.at \in Nat
        <4>1. \E i \in 1 .. Len(s.spans) : b = s.spans[i]
          BY SpanIs DEF StoreOK, AreSpans
        <4> QED BY <4>1, SpanIs DEF StoreOK, AreSpans
      <3>2. b.at + Retention \in Nat /\ b.at + Retention < earlier
        BY <2>1, <3>1, LimitsOfTheReceiver DEF Old
      <3> QED BY <3>2
    <2>2. HoldsAll(s.spans, s.log, time, w)
      BY DEF StoreOK
    <2>3. \A b \in Range(s.spans) : b \in Range(kept) \/ b.at + Retention < time
      BY <1>3, <2>1
    <2> QED BY <1>2, <2>2, <2>3, FewerSpans
  <1>5. MarksOK(MarksAfter(s.traces, earlier), "trace", s.log, time, w)
    BY <1>2, PrunedMarks DEF StoreOK
  <1>6. MarksOK(MarksAfter(s.correlations, earlier), "correlation", s.log, time, w)
    BY <1>2, PrunedMarks DEF StoreOK
  <1>7. StoreOK(p, time, w)
    BY <1>1, <1>2, <1>3, <1>4, <1>5, <1>6 DEF StoreOK
  <1> QED BY <1>1, <1>7 DEF p

(* A span that is refused.                                                 *)
LEMMA RefusedSpan ==
    ASSUME NEW s, NEW time \in Nat, NEW w, StoreOK(s, time, w),
           NEW span \in Posted, NEW earlier \in Nat, earlier <= time
    PROVE  /\ StoreOK(Logged(Refused(s, span, earlier), span, earlier, FALSE), time, w)
           /\ IsBeginningOf(s.log, Logged(Refused(s, span, earlier), span, earlier, FALSE).log)
  <1> DEFINE e == [span |-> span, at |-> earlier, accepted |-> FALSE]
             p == Logged(Refused(s, span, earlier), span, earlier, FALSE)
             more == Append(s.log, e)
             correlations == IF span.correlation = NoCorrelation THEN s.correlations
                             ELSE Remembered(s.correlations, span.correlation, earlier)
  <1>1. /\ p.spans = s.spans /\ p.indexes = s.indexes /\ p.log = more
        /\ p.traces = Remembered(s.traces, span.trace, earlier)
        /\ p.correlations = correlations
        /\ IsStore(p)
    <2> DEFINE traces == Remembered(s.traces, span.trace, earlier)
               f == Refused(s, span, earlier)
    <2>1. f = [s EXCEPT !.traces = traces, !.correlations = correlations]
      BY DEF Refused
    <2>2. p = [f EXCEPT !.log = Append(f.log, e)]
      BY DEF Logged
    <2>3. IsStore(s)
      BY DEF StoreOK
    <2> HIDE DEF p, f, traces, correlations, e
    <2>4. /\ f.spans = s.spans /\ f.indexes = s.indexes /\ f.log = s.log
          /\ f.traces = traces /\ f.correlations = correlations
          /\ IsStore(f)
      BY <2>1, <2>3 DEF IsStore
    <2>5. /\ p.spans = s.spans /\ p.indexes = s.indexes /\ p.log = Append(s.log, e)
          /\ p.traces = traces /\ p.correlations = correlations
          /\ IsStore(p)
      BY <2>2, <2>4 DEF IsStore
    <2> QED BY <2>5 DEF traces
  <1>2. s.log \in Seq(LogEntries)
    BY DEF StoreOK
  <1>3. /\ e \in LogEntries /\ ~e.accepted /\ e.at = earlier
        /\ NameIn(e, "trace") = span.trace /\ NameIn(e, "correlation") = span.correlation
    BY DEF LogEntries, NameIn
  <1> HIDE DEF e
  <1>4. /\ IsBeginningOf(s.log, more) /\ Len(more) = Len(s.log) + 1 /\ Len(s.log) \in Nat
        /\ more[Len(s.log) + 1] = e /\ \A i \in 1 .. Len(s.log) : more[i] = s.log[i]
    BY <1>2, <1>3, AppendedBegins
  <1>5. IsAppended(s.log, more, e) /\ more \in Seq(LogEntries)
    BY <1>4 DEF IsAppended, IsBeginningOf
  <1>6. span.trace \in Names /\ span.correlation \in Names /\ span.trace # NoCorrelation
    BY PostedIs DEF NoTrace, NoCorrelation
  <1>7. MarksOK(Remembered(s.traces, span.trace, earlier), "trace", more, time, w)
    <2>1. MarksOK(s.traces, "trace", s.log, time, w)
      BY DEF StoreOK
    <2>2. MarksOK(Remembered(s.traces, NameIn(e, "trace"), e.at), "trace", Append(s.log, e), time, w)
      BY <1>2, <1>3, <1>6, <2>1, RememberedMarks
    <2> QED BY <1>3, <2>2
  <1>8. MarksOK(correlations, "correlation", more, time, w)
    <2>1. MarksOK(s.correlations, "correlation", s.log, time, w)
      BY DEF StoreOK
    <2>2. CASE span.correlation = NoCorrelation
      <3>1. MarksOK(s.correlations, "correlation", Append(s.log, e), time, w)
        BY <1>2, <1>3, <2>1, <2>2, MarksSkip
      <3> QED BY <2>2, <3>1
    <2>3. CASE span.correlation # NoCorrelation
      <3>1. MarksOK(Remembered(s.correlations, NameIn(e, "correlation"), e.at), "correlation",
                    Append(s.log, e), time, w)
        BY <1>2, <1>3, <1>6, <2>1, <2>3, RememberedMarks
      <3> QED BY <1>3, <2>3, <3>1
    <2> QED BY <2>2, <2>3
  <1> HIDE DEF p, more, correlations
  <1>9. HoldsAll(s.spans, more, time, w)
    BY <1>3, <1>5, RefusedIsNotMissed DEF StoreOK
  <1>10. StoreOK(p, time, w)
    BY <1>1, <1>5, <1>7, <1>8, <1>9 DEF StoreOK
  <1> QED BY <1>1, <1>4, <1>10 DEF p

(* A span that is kept.                                                    *)
LEMMA KeptSpan ==
    ASSUME NEW s, NEW time \in Nat, NEW w, StoreOK(s, time, w),
           NEW span \in Posted, span.readable, NEW earlier \in Nat, earlier <= time,
           NEW spot, spot = PlaceOf(s, span), ~TooMuch(s, span, spot)
    PROVE  /\ StoreOK(Logged(Kept(s, span, spot, earlier), span, earlier, TRUE), time, w)
           /\ IsBeginningOf(s.log, Logged(Kept(s, span, spot, earlier), span, earlier, TRUE).log)
  <1> DEFINE e == [span |-> span, at |-> earlier, accepted |-> TRUE]
             b == Buffered(span, earlier)
             k == Kept(s, span, spot, earlier)
             p == Logged(k, span, earlier, TRUE)
             more == Append(s.log, e)
  <1>1. s.log \in Seq(LogEntries) /\ AreSpans(s.spans, time) /\ IsIndex(s.indexes, s.spans)
        /\ s.spans \in Seq(Buffers)
    BY DEF StoreOK, AreSpans
  <1>2. /\ e \in LogEntries /\ e.accepted /\ e.at = earlier /\ e.span = span
    BY DEF LogEntries
  <1>3. /\ b \in Buffers /\ b.at <= time /\ b.readable /\ b.size = span.size
        /\ Identity(b) = Identity(span)
    BY BufferIs DEF Buffers
  <1>4. b = Buffered(e.span, e.at)
    BY <1>2
  <1> HIDE DEF e, b
  <1>5. /\ IsBeginningOf(s.log, more) /\ Len(more) = Len(s.log) + 1 /\ Len(s.log) \in Nat
        /\ more[Len(s.log) + 1] = e /\ \A i \in 1 .. Len(s.log) : more[i] = s.log[i]
    BY <1>1, <1>2, AppendedBegins
  <1>6. IsAppended(s.log, more, e) /\ more \in Seq(LogEntries)
    BY <1>5 DEF IsAppended, IsBeginningOf
  <1>7. /\ MarksOK(s.traces, "trace", more, time, w)
        /\ MarksOK(s.correlations, "correlation", more, time, w)
    <2>1. MarksOK(s.traces, "trace", s.log, time, w) /\ MarksOK(s.correlations, "correlation", s.log, time, w)
      BY DEF StoreOK
    <2> QED BY <1>1, <1>2, <2>1, MarksSkip
  <1>8. /\ ~(spot = 0 /\ Len(s.spans) >= MaxSpans)
        /\ ~(SumOfSizes(s.spans) - SizeAt(s, spot) + b.size > MaxBufferBytes)
        /\ ~(b.size > Budget)
    BY <1>3 DEF TooMuch
  <1>9. b.size \in Nat /\ Len(s.spans) \in Nat /\ SumOfSizes(s.spans) \in Nat
    BY <1>1, <1>3, PostedIs, SpanIs
  <1>10. b.size <= Budget
    BY <1>8, <1>9, LimitsOfTheReceiver
  <1>11. spot = IF Identity(span) \in DOMAIN s.indexes THEN s.indexes[Identity(span)] ELSE 0
    BY DEF PlaceOf
  <1>12. /\ IsStore(k) /\ k.log = s.log /\ k.traces = s.traces /\ k.correlations = s.correlations
         /\ AreSpans(k.spans, time) /\ IsIndex(k.indexes, k.spans)
         /\ b \in Range(k.spans)
         /\ \A c \in Range(s.spans) : Identity(c) # Identity(b) => c \in Range(k.spans)
    <2>1. CASE Identity(span) \notin DOMAIN s.indexes
      <3>1. spot = 0
        BY <1>11, <2>1
      <3>2. /\ IsLonger(k.spans, s.spans, b)
            /\ IsWider(k.indexes, s.indexes, Identity(b), Len(s.spans) + 1)
            /\ k.log = s.log /\ k.traces = s.traces /\ k.correlations = s.correlations
            /\ IsStore(k)
        BY <1>3, <3>1 DEF Kept, Added, StoreOK, IsStore, IsLonger, IsWider, b
      <3>3. Len(s.spans) < MaxSpans
        BY <1>8, <1>9, <3>1, LimitsOfTheReceiver
      <3>4. SumOfSizes(s.spans) + b.size <= MaxBufferBytes
        <4>1. SizeAt(s, spot) = 0
          BY <3>1 DEF SizeAt
        <4>2. ~(SumOfSizes(s.spans) - 0 + b.size > MaxBufferBytes)
          BY <1>8, <4>1
        <4> QED BY <1>9, <4>2, LimitsOfTheReceiver
      <3>5. Identity(b) \notin DOMAIN s.indexes
        BY <1>3, <2>1
      <3>6. /\ AreSpans(k.spans, time) /\ IsIndex(k.indexes, k.spans)
            /\ b \in Range(k.spans) /\ \A c \in Range(s.spans) : c \in Range(k.spans)
        <4> DEFINE all == s.spans
                   longer == k.spans
                   index == s.indexes
                   wider == k.indexes
        <4>1. /\ AreSpans(all, time) /\ IsIndex(index, all)
              /\ b \in Buffers /\ b.at <= time /\ b.readable /\ b.size <= Budget
          BY <1>1, <1>3, <1>10
        <4>2. Len(all) < MaxSpans /\ SumOfSizes(all) + b.size <= MaxBufferBytes
          BY <3>3, <3>4
        <4>3. /\ Identity(b) \notin DOMAIN index /\ IsLonger(longer, all, b)
              /\ IsWider(wider, index, Identity(b), Len(all) + 1)
          BY <3>2, <3>5
        <4> HIDE DEF k, all, longer, index, wider
        <4>4. /\ AreSpans(longer, time) /\ IsIndex(wider, longer)
              /\ b \in Range(longer) /\ \A c \in Range(all) : c \in Range(longer)
          BY <4>1, <4>2, <4>3, AddedSpans
        <4> QED BY <4>4 DEF all, longer, index, wider
      <3> QED BY <3>2, <3>6
    <2>2. CASE Identity(span) \in DOMAIN s.indexes
      <3>1. spot = s.indexes[Identity(span)]
        BY <1>11, <2>2
      <3>2. PICK i \in 1 .. Len(s.spans) : Identity(span) = Identity(s.spans[i])
        BY <1>1, <2>2, SpanIs DEF IsIndex
      <3>3. spot = i /\ spot # 0 /\ spot \in 1 .. Len(s.spans)
        BY <1>1, <3>1, <3>2 DEF IsIndex
      <3>4. /\ k.spans = [s.spans EXCEPT ![spot] = b] /\ k.indexes = s.indexes
            /\ k.log = s.log /\ k.traces = s.traces /\ k.correlations = s.correlations
            /\ IsStore(k)
        BY <3>3 DEF Kept, StoreOK, IsStore, b
      <3>5. SumOfSizes(s.spans) - s.spans[spot].size + b.size <= MaxBufferBytes
        <4>1. SizeAt(s, spot) = s.spans[spot].size /\ s.spans[spot].size \in Nat
          BY <1>1, <3>3, SpanIs DEF SizeAt
        <4>2. ~(SumOfSizes(s.spans) - s.spans[spot].size + b.size > MaxBufferBytes)
          BY <1>8, <4>1
        <4> DEFINE total == SumOfSizes(s.spans)
                   old == s.spans[spot].size
                   new == b.size
        <4>3. /\ total \in Nat /\ old \in Nat /\ new \in Nat /\ MaxBufferBytes \in Nat
              /\ ~(total - old + new > MaxBufferBytes)
          BY <1>9, <4>1, <4>2, LimitsOfTheReceiver
        <4>4. total - old + new <= MaxBufferBytes
          <5> HIDE DEF total, old, new
          <5> QED BY <4>3
        <4> QED BY <4>4
      <3>6. Identity(b) = Identity(s.spans[spot])
        BY <1>3, <3>2, <3>3
      <3>7. /\ AreSpans(k.spans, time) /\ IsIndex(k.indexes, k.spans)
            /\ b \in Range(k.spans)
            /\ \A c \in Range(s.spans) : Identity(c) # Identity(b) => c \in Range(k.spans)
        <4> HIDE DEF k
        <4> QED BY <1>1, <1>3, <1>10, <3>3, <3>4, <3>5, <3>6, ReplacedSpans
      <3> QED BY <3>4, <3>7
    <2> QED BY <2>1, <2>2
  <1> HIDE DEF k
  <1>13. /\ p.spans = k.spans /\ p.indexes = k.indexes /\ p.log = more
         /\ p.traces = s.traces /\ p.correlations = s.correlations
         /\ IsStore(p)
    BY <1>12 DEF Logged, IsStore, e
  <1> HIDE DEF p, more
  <1>14. HoldsAll(k.spans, more, time, w)
    <2>1. HoldsAll(s.spans, s.log, time, w)
      BY DEF StoreOK
    <2>2. /\ Buffered(e.span, e.at) \in Range(k.spans)
          /\ \A c \in Range(s.spans) : Identity(c) # Identity(e.span) => c \in Range(k.spans)
      BY <1>2, <1>3, <1>4, <1>12
    <2> QED BY <1>2, <1>6, <2>1, <2>2, AcceptedIsThere
  <1>15. StoreOK(p, time, w)
    BY <1>6, <1>7, <1>12, <1>13, <1>14 DEF StoreOK
  <1> QED BY <1>5, <1>13, <1>15 DEF p, k

LEMMA ExportedSpan ==
    ASSUME NEW s, NEW time \in Nat, NEW w, StoreOK(s, time, w),
           NEW span \in Posted, NEW earlier \in Nat, earlier <= time
    PROVE  /\ StoreOK(Exported(s, span, earlier), time, w)
           /\ IsBeginningOf(s.log, Exported(s, span, earlier).log)
  <1> DEFINE spot == PlaceOf(s, span)
  <1>1. CASE ~span.readable
    <2>1. Exported(s, span, earlier) = s
      BY <1>1 DEF Exported
    <2>2. IsBeginningOf(s.log, s.log)
      BY BeginsItself DEF StoreOK
    <2> QED BY <2>1, <2>2
  <1>2. CASE span.readable /\ TooMuch(s, span, spot)
    <2>1. Exported(s, span, earlier) = Logged(Refused(s, span, earlier), span, earlier, FALSE)
      BY <1>2 DEF Exported
    <2> QED BY <2>1, RefusedSpan
  <1>3. CASE span.readable /\ ~TooMuch(s, span, spot)
    <2>1. Exported(s, span, earlier) = Logged(Kept(s, span, spot, earlier), span, earlier, TRUE)
      BY <1>3 DEF Exported
    <2> QED BY <1>3, <2>1, KeptSpan
  <1> QED BY <1>1, <1>2, <1>3

IsExport(f, s, payload, time, n) ==
    f = [m \in 0 .. n |-> IF m = 0 THEN s ELSE Exported(f[m - 1], payload[m], time)]

LEMMA ExportExists ==
    ASSUME NEW N \in Nat, NEW s, NEW payload, NEW time
    PROVE  \E f : IsExport(f, s, payload, time, N)
  <1> DEFINE S == {m \in 0 .. N : \E f : IsExport(f, s, payload, time, m)}
  <1>1. 0 \in S
    <2>1. IsExport([n \in 0 .. 0 |-> s], s, payload, time, 0)
      BY DEF IsExport
    <2> QED BY <2>1
  <1>2. ASSUME NEW m \in 0 .. N, m \in S, m < N PROVE m + 1 \in S
    <2>1. PICK f : IsExport(f, s, payload, time, m)
      BY <1>2
    <2> DEFINE g == [n \in 0 .. m + 1 |->
                        IF n = m + 1 THEN Exported(f[m], payload[m + 1], time) ELSE f[n]]
    <2>2. ASSUME NEW n \in 0 .. m + 1
          PROVE  g[n] = IF n = 0 THEN s ELSE Exported(g[n - 1], payload[n], time)
      <3>1. CASE n = m + 1
        BY <3>1
      <3>2. CASE n \in 0 .. m
        BY <2>1, <3>2 DEF IsExport
      <3> QED BY <3>1, <3>2
    <2>3. IsExport(g, s, payload, time, m + 1)
      BY <2>2 DEF IsExport
    <2> HIDE DEF g
    <2> QED BY <1>2, <2>3
  <1> HIDE DEF S
  <1>3. N \in S
    BY <1>1, <1>2, Climbing
  <1> QED BY <1>3 DEF S

(* The loop over the spans of one export.                                  *)
LEMMA ExportedStore ==
    ASSUME NEW s, NEW time \in Nat, NEW w, StoreOK(s, time, w),
           NEW payload \in Payloads, NEW earlier \in Nat, earlier <= time
    PROVE  /\ StoreOK(AllExported(s, payload, earlier), time, w)
           /\ IsBeginningOf(s.log, AllExported(s, payload, earlier).log)
  <1>1. Len(payload) \in Nat /\ \A n \in 1 .. Len(payload) : payload[n] \in Posted
    <2>1. payload \in Seq(Range(payload))
      BY PayloadsAreSpans
    <2>2. Len(payload) \in Nat
      BY <2>1, LenProperties
    <2>3. \A n \in 1 .. Len(payload) : payload[n] \in Range(payload)
      BY <2>1, ElementOfSeq
    <2> QED BY <2>2, <2>3 DEF Posted
  <1> DEFINE f == CHOOSE f : IsExport(f, s, payload, earlier, Len(payload))
  <1>2. AllExported(s, payload, earlier) = f[Len(payload)]
    BY DEF AllExported, IsExport
  <1>3. IsExport(f, s, payload, earlier, Len(payload))
    BY <1>1, ExportExists
  <1> HIDE DEF f
  <1> DEFINE S == {m \in 0 .. Len(payload) : StoreOK(f[m], time, w) /\ IsBeginningOf(s.log, f[m].log)}
  <1>4. 0 \in S
    <2>1. f[0] = s
      BY <1>1, <1>3 DEF IsExport
    <2>2. IsBeginningOf(s.log, s.log)
      BY BeginsItself DEF StoreOK
    <2> QED BY <1>1, <2>1, <2>2
  <1>5. ASSUME NEW m \in 0 .. Len(payload), m \in S, m < Len(payload) PROVE m + 1 \in S
    <2>1. f[m + 1] = Exported(f[m], payload[m + 1], earlier)
      <3>1. m + 1 \in 0 .. Len(payload) /\ m + 1 # 0 /\ m + 1 - 1 = m
        BY <1>1, <1>5
      <3> QED BY <1>3, <3>1 DEF IsExport
    <2>2. payload[m + 1] \in Posted
      BY <1>1, <1>5
    <2>3. StoreOK(f[m], time, w) /\ IsBeginningOf(s.log, f[m].log)
      BY <1>5
    <2>4. StoreOK(f[m + 1], time, w) /\ IsBeginningOf(f[m].log, f[m + 1].log)
      BY <2>1, <2>2, <2>3, ExportedSpan
    <2>5. IsBeginningOf(s.log, f[m + 1].log)
      BY <2>3, <2>4, BeginningsChain
    <2>6. m + 1 \in 0 .. Len(payload)
      BY <1>1, <1>5
    <2> QED BY <2>4, <2>5, <2>6
  <1> HIDE DEF S
  <1>6. Len(payload) \in S
    BY <1>1, <1>4, <1>5, Climbing
  <1> QED BY <1>2, <1>6 DEF S

(* An observation takes what it matched, and the marks of its names.       *)
LEMMA TakenStore ==
    ASSUME NEW s, NEW time \in Nat, NEW w, StoreOK(s, time, w),
           NEW v, Follows(w, v), NEW r \in Observed(v), v[r].taken = Len(s.log),
           NEW took, v[r].took = took, NEW traces, v[r].traces = traces,
           NEW rest, rest = Only(s.spans, {span \in Range(s.spans) : Identity(span) \notin took})
    PROVE  StoreOK([spans |-> rest, indexes |-> IndexesOf(rest),
                    traces |-> Forgotten(s.traces, traces),
                    correlations |-> Forgotten(s.correlations, {Requests[r].correlation}),
                    log |-> s.log], time, v)
  <1> DEFINE p == [spans |-> rest, indexes |-> IndexesOf(rest),
                   traces |-> Forgotten(s.traces, traces),
                   correlations |-> Forgotten(s.correlations, {Requests[r].correlation}),
                   log |-> s.log]
             keep == {span \in Range(s.spans) : Identity(span) \notin took}
  <1>1. StoreOK(s, time, v)
    BY StoreStays, time <= time
  <1>2. /\ p.spans = rest /\ p.indexes = IndexesOf(rest) /\ p.log = s.log
        /\ p.traces = Forgotten(s.traces, traces)
        /\ p.correlations = Forgotten(s.correlations, {Requests[r].correlation})
        /\ IsStore(p)
    BY DEF IsStore
  <1>3. \A b \in Range(s.spans) : b \in keep \/ Identity(b) \in took
    OBVIOUS
  <1> HIDE DEF p, keep
  <1>4. rest = Only(s.spans, keep)
    BY DEF keep
  <1>5. /\ AreSpans(rest, time) /\ IsIndex(IndexesOf(rest), rest)
        /\ \A b \in Range(s.spans) : b \in keep => b \in Range(rest)
    <2>1. AreSpans(s.spans, time) /\ IsIndex(s.indexes, s.spans)
      BY <1>1 DEF StoreOK
    <2> DEFINE part == Only(s.spans, keep)
    <2>2. /\ AreSpans(part, time) /\ IsIndex(IndexesOf(part), part)
          /\ \A b \in Range(s.spans) : b \in keep => b \in Range(part)
      BY <2>1, LeftOfSpans
    <2>3. rest = part
      BY <1>4
    <2> HIDE DEF part
    <2> QED BY <2>2, <2>3
  <1>6. s.log \in Seq(LogEntries)
    BY DEF StoreOK
  <1>7. HoldsAll(rest, s.log, time, v)
    <2>1. HoldsAll(s.spans, s.log, time, v)
      BY <1>1 DEF StoreOK
    <2>2. \A b \in Range(s.spans) :
              \/ b \in Range(rest)
              \/ \E q \in Observed(v) : Identity(b) \in v[q].took /\ v[q].taken = Len(s.log)
      BY <1>3, <1>5
    <2> QED BY <1>6, <2>1, <2>2, FewerSpans
  <1>8. MarksOK(Forgotten(s.traces, traces), "trace", s.log, time, v)
    <2>1. MarksOK(s.traces, "trace", s.log, time, v)
      BY <1>1 DEF StoreOK
    <2>2. traces \subseteq v[r].traces \cup {Requests[r].correlation}
      OBVIOUS
    <2> QED BY <1>6, <2>1, <2>2, TakenMarks
  <1>9. MarksOK(Forgotten(s.correlations, {Requests[r].correlation}), "correlation", s.log, time, v)
    <2>1. MarksOK(s.correlations, "correlation", s.log, time, v)
      BY <1>1 DEF StoreOK
    <2>2. {Requests[r].correlation} \subseteq v[r].traces \cup {Requests[r].correlation}
      OBVIOUS
    <2> QED BY <1>6, <2>1, <2>2, TakenMarks
  <1>10. StoreOK(p, time, v)
    BY <1>2, <1>5, <1>6, <1>7, <1>8, <1>9 DEF StoreOK
  <1> QED BY <1>10 DEF p
-----------------------------------------------------------------------------
(***************************************************************************)
(* The observations.                                                       *)
(***************************************************************************)
LEMMA LastAcceptedSame ==
    ASSUME NEW entries, NEW more, IsBeginningOf(entries, more),
           NEW n \in 0 .. Len(entries), NEW i \in 1 .. n, LastAccepted(more, i, n)
    PROVE  LastAccepted(entries, i, n) /\ more[i] = entries[i]
  <1>1. Len(entries) \in Nat
    BY LenProperties DEF IsBeginningOf
  <1>2. \A j \in i .. n : j \in 1 .. Len(entries) /\ more[j] = entries[j]
    BY <1>1 DEF IsBeginningOf
  <1>3. i \in i .. n /\ \A j \in i + 1 .. n : j \in i .. n
    BY <1>1
  <1> QED BY <1>2, <1>3 DEF LastAccepted

LEMMA NothingLostStays ==
    ASSUME NEW request, NEW all, NEW entries, NEW more, IsBeginningOf(entries, more),
           NEW n \in 0 .. Len(entries), NEW time, NEW w, NEW v,
           NEW some, NEW many, some \subseteq many, \A q \in some : v[q] = w[q],
           NothingIsLost(request, all, entries, n, time, w, some)
    PROVE  NothingIsLost(request, all, more, n, time, v, many)
  <1> SUFFICES ASSUME NEW i \in 1 .. n, Matches(more[i].span, request), LastAccepted(more, i, n)
               PROVE  \/ Buffered(more[i].span, more[i].at) \in Range(all)
                      \/ more[i].at + Retention < time
                      \/ \E q \in many : TookIt(v, q, more, i)
    BY DEF NothingIsLost
  <1>1. LastAccepted(entries, i, n) /\ more[i] = entries[i]
    BY LastAcceptedSame
  <1>2. \/ Buffered(more[i].span, more[i].at) \in Range(all)
        \/ more[i].at + Retention < time
        \/ \E q \in some : TookIt(w, q, entries, i)
    BY <1>1 DEF NothingIsLost
  <1>3. ASSUME NEW q \in some, TookIt(w, q, entries, i) PROVE q \in many /\ TookIt(v, q, more, i)
    BY <1>1, <1>3 DEF TookIt
  <1> QED BY <1>2, <1>3

LEMMA WatchStays ==
    ASSUME NEW r \in Request, NEW w, NEW v, Follows(w, v), v[r] = w[r],
           NEW entries, NEW more, IsBeginningOf(entries, more), WatchOK(r, w, entries)
    PROVE  WatchOK(r, v, more)
  <1>0. Len(entries) \in Nat /\ Len(more) \in Nat /\ Len(entries) <= Len(more)
    BY LenProperties DEF IsBeginningOf
  <1>1. Observed(w) \subseteq Observed(v) /\ \A q \in Observed(w) : v[q] = w[q]
    BY DEF Follows
  <1>2. ASSUME w[r].at = "matched" PROVE MatchedOK(r, v, more)
    <2>1. MatchedOK(r, w, entries)
      BY <1>2 DEF WatchOK
    <2>2. w[r].seen \in 0 .. Len(entries) /\ w[r].seen \in 0 .. Len(more)
      BY <1>0, <2>1 DEF MatchedOK
    <2>3. NothingIsLost(Requests[r], w[r].matched, entries, w[r].seen, w[r].time, w, Observed(w))
      BY <2>1 DEF MatchedOK
    <2>4. NothingIsLost(Requests[r], w[r].matched, more, w[r].seen, w[r].time, v, Observed(v))
      BY <1>1, <2>2, <2>3, NothingLostStays
    <2> QED BY <2>1, <2>2, <2>4 DEF MatchedOK
  <1>3. ASSUME r \in Observed(v) PROVE ObservedOK(r, v, more)
    <2>0. r \in Observed(w)
      BY <1>3 DEF Observed
    <2>1. ObservedOK(r, w, entries)
      BY <2>0 DEF WatchOK
    <2>2. /\ w[r].seen \in 0 .. Len(entries) /\ w[r].seen \in 0 .. Len(more)
          /\ w[r].taken \in 0 .. Len(entries) /\ w[r].taken \in 0 .. Len(more)
          /\ w[r].ended \in Nat
      BY <1>0, <2>1 DEF ObservedOK
    <2>3. /\ Observed(w) \ {r} \subseteq Observed(v) \ {r}
          /\ \A q \in Observed(w) \ {r} : v[q] = w[q]
      BY <1>1
    <2>4. ASSUME w[r].status = "complete"
          PROVE  NothingIsLost(Requests[r], v[r].got, more, v[r].seen, v[r].time, v, Observed(v) \ {r})
      <3>1. NothingIsLost(Requests[r], w[r].got, entries, w[r].seen, w[r].time, w, Observed(w) \ {r})
        BY <2>1, <2>4 DEF ObservedOK
      <3>2. NothingIsLost(Requests[r], w[r].got, more, w[r].seen, w[r].time, v, Observed(v) \ {r})
        BY <2>2, <2>3, <3>1, NothingLostStays
      <3> QED BY <3>2
    <2>5. ASSUME NEW field, NEW name, IsForgotten(r, w, entries, field, name)
          PROVE  IsForgotten(r, v, more, field, name)
      <3> DEFINE n == w[r].taken
                 t == w[r].ended
      <3> SUFFICES ASSUME NEW i \in Refusals(more, field, name, n)
                   PROVE  MayBeForgotten(more, field, i, n, t, v, Observed(v) \ {r})
        BY DEF IsForgotten
      <3>1. n \in 0 .. Len(entries) /\ t \in Nat /\ n \in n .. Len(more)
        BY <1>0, <2>2
      <3>2. i \in 1 .. n /\ ~more[i].accepted /\ NameIn(more[i], field) = name
        BY DEF Refusals
      <3>3. i \in 1 .. Len(entries) /\ more[i] = entries[i]
        BY <1>0, <3>1, <3>2 DEF IsBeginningOf
      <3>4. i \in Refusals(entries, field, name, n)
        BY <3>2, <3>3 DEF Refusals
      <3>5. MayBeForgotten(entries, field, i, n, t, w, Observed(w) \ {r})
        BY <2>5, <3>4 DEF IsForgotten
      <3> HIDE DEF n, t
      <3>6. t <= t
        BY <3>1
      <3> QED BY <2>3, <3>1, <3>2, <3>5, <3>6, ForgottenStays
    <2> QED BY <2>1, <2>2, <2>4, <2>5 DEF ObservedOK
  <1> QED BY <1>2, <1>3 DEF WatchOK

(* _bounded_selection takes a beginning, and never nothing.                *)
LEMMA SelectedIs ==
    ASSUME NEW matched \in Seq(Buffers), matched # <<>>,
           \A i \in 1 .. Len(matched) : matched[i].size <= Budget
    PROVE  /\ Selected(matched) # <<>>
           /\ Len(Selected(matched)) = Len(matched) => Selected(matched) = matched
  <1> DEFINE Fits(n) == n <= MaxPerObservation /\ SumOfSizes(SubSeq(matched, 1, n)) <= Budget
             S == {k \in 0 .. Len(matched) : \A i \in 1 .. k : Fits(i)}
             n == Max(S)
  <1>1. Selected(matched) = SubSeq(matched, 1, n)
    BY DEF Selected
  <1>2. Len(matched) \in Nat /\ Len(matched) # 0
    BY SpanIs, EmptySeq
  <1>3. Fits(1)
    <2>1. 1 \in 1 .. Len(matched) /\ matched[1] \in Buffers /\ matched[1].size <= Budget
      BY <1>2, SpanIs
    <2>2. SubSeq(matched, 1, 1) = <<matched[1]>>
      <3>1. /\ SubSeq(matched, 1, 1) \in Seq(Buffers) /\ Len(SubSeq(matched, 1, 1)) = 1
            /\ \A i \in 1 .. 1 : SubSeq(matched, 1, 1)[i] = matched[i]
        BY <2>1, BuffersAreSized, SumOfParts
      <3>2. /\ <<matched[1]>> \in Seq(Buffers) /\ Len(<<matched[1]>>) = 1
            /\ <<matched[1]>>[1] = matched[1]
        BY <2>1
      <3>3. \A i \in 1 .. 1 : i = 1
        OBVIOUS
      <3> DEFINE a == SubSeq(matched, 1, 1)
                 b == <<matched[1]>>
      <3>4. \A i \in 1 .. Len(a) : a[i] = b[i]
        BY <3>1, <3>2, <3>3
      <3> HIDE DEF a, b
      <3>5. a \in Seq(Buffers) /\ b \in Seq(Buffers) /\ Len(a) = Len(b)
        BY <3>1, <3>2 DEF a, b
      <3>6. a = b
        BY <3>4, <3>5, SeqEqual
      <3> QED BY <3>6 DEF a, b
    <2>3. SumOfSizes(<<matched[1]>>) = matched[1].size
      BY <2>1, BuffersAreSized, SumOfOne
    <2>4. 1 <= MaxPerObservation
      BY LimitsOfTheReceiver
    <2> QED BY <2>1, <2>2, <2>3, <2>4
  <1> HIDE DEF Fits
  <1>4. 1 \in S
    <2>1. \A i \in 1 .. 1 : i = 1
      OBVIOUS
    <2> QED BY <1>2, <1>3, <2>1
  <1>5. S \in SUBSET (0 .. Len(matched)) /\ S # {}
    BY <1>4
  <1>6. n \in S /\ 1 <= n
    <2> HIDE DEF S
    <2> QED BY <1>2, <1>4, <1>5, MaxIs
  <1>7. n \in 0 .. Len(matched)
    BY <1>6
  <1> HIDE DEF n, S
  <1>8. Len(SubSeq(matched, 1, n)) = n
    BY <1>7, BuffersAreSized, SumOfParts
  <1>9. Selected(matched) # <<>>
    <2>1. Len(Selected(matched)) # Len(<<>>)
      BY <1>1, <1>6, <1>7, <1>8
    <2> QED BY <2>1
  <1>10. Len(Selected(matched)) = Len(matched) => Selected(matched) = matched
    <2>1. SubSeq(matched, 1, Len(matched)) = matched
      BY SubSeqFull
    <2> QED BY <1>1, <1>8, <2>1
  <1> QED BY <1>9, <1>10

(* One observation goes a step.                                            *)
LEMMA OneWatches ==
    ASSUME NEW w, DOMAIN w = Request, NEW r \in Request, r \notin Observed(w),
           NEW o, NEW v, v = [w EXCEPT ![r] = o]
    PROVE  /\ Follows(w, v) /\ DOMAIN v = Request /\ v[r] = o
           /\ \A q \in Request : q # r => v[q] = w[q]
           /\ Observed(v) \ {r} = Observed(w)
  <1>1. DOMAIN v = Request /\ v[r] = o /\ \A q \in Request : q # r => v[q] = w[q]
    OBVIOUS
  <1>2. Observed(v) \ {r} = Observed(w)
    BY <1>1 DEF Observed
  <1> QED BY <1>1, <1>2 DEF Follows, Observed

LEMMA AllWatch ==
    ASSUME NEW w, DOMAIN w = Request, NEW r \in Request, r \notin Observed(w),
           NEW o, NEW v, v = [w EXCEPT ![r] = o],
           NEW entries \in Seq(LogEntries),
           \A q \in Request : WatchOK(q, w, entries), WatchOK(r, v, entries)
    PROVE  DOMAIN v = Request /\ \A q \in Request : WatchOK(q, v, entries)
  <1>1. /\ Follows(w, v) /\ DOMAIN v = Request
        /\ \A q \in Request : q # r => v[q] = w[q]
    BY OneWatches
  <1>2. IsBeginningOf(entries, entries)
    BY BeginsItself
  <1>3. ASSUME NEW q \in Request, q # r PROVE WatchOK(q, v, entries)
    BY <1>1, <1>2, <1>3, WatchStays
  <1> QED BY <1>1, <1>3

(* The loop of an observation ends with what matches.                      *)
LEMMA MatchedIsWhole ==
    ASSUME NEW s, NEW time \in Nat, NEW w, StoreOK(s, time, w), NEW r \in Request,
           NEW matched, matched = Matching(s.spans, Requests[r]), matched # <<>>,
           NEW v, v[r] = [at |-> "matched", matched |-> matched, time |-> time, seen |-> Len(s.log)],
           Follows(w, v)
    PROVE  WatchOK(r, v, s.log)
  <1>1. /\ s.log \in Seq(LogEntries) /\ AreSpans(s.spans, time)
        /\ IsIndex(s.indexes, s.spans) /\ HoldsAll(s.spans, s.log, time, w)
    BY DEF StoreOK
  <1> DEFINE keep == {span \in Range(s.spans) : Matches(span, Requests[r])}
  <1>2. /\ v[r].at = "matched" /\ v[r].matched = matched /\ v[r].time = time
        /\ v[r].seen = Len(s.log) /\ r \notin Observed(v)
    BY DEF Observed
  <1>3. \A b \in Range(s.spans) : Matches(b, Requests[r]) => b \in keep
    OBVIOUS
  <1>4. matched = Only(s.spans, keep)
    BY DEF Matching
  <1> HIDE DEF keep
  <1>5. /\ AreSpans(matched, time)
        /\ \A b \in Range(s.spans) : b \in keep => b \in Range(matched)
    <2> DEFINE part == Only(s.spans, keep)
    <2>1. /\ AreSpans(part, time)
          /\ \A b \in Range(s.spans) : b \in keep => b \in Range(part)
      BY <1>1, LeftOfSpans
    <2>2. matched = part
      BY <1>4
    <2> HIDE DEF part
    <2> QED BY <2>1, <2>2
  <1>6. Len(s.log) \in 0 .. Len(s.log)
    <2>1. Len(s.log) \in Nat
      BY <1>1, LenProperties
    <2> QED BY <2>1
  <1>7. NothingIsLost(Requests[r], matched, s.log, Len(s.log), time, v, Observed(v))
    <2> SUFFICES ASSUME NEW i \in 1 .. Len(s.log), Matches(s.log[i].span, Requests[r]),
                        LastAccepted(s.log, i, Len(s.log))
                 PROVE  \/ Buffered(s.log[i].span, s.log[i].at) \in Range(matched)
                        \/ s.log[i].at + Retention < time
                        \/ \E q \in Observed(v) : TookIt(v, q, s.log, i)
      BY DEF NothingIsLost
    <2> DEFINE b == Buffered(s.log[i].span, s.log[i].at)
    <2>1. Matches(b, Requests[r])
      BY BufferIs DEF Matches
    <2> HIDE DEF b
    <2>2. CASE b \in Range(s.spans)
      BY <1>3, <1>5, <2>1, <2>2 DEF b
    <2>3. CASE s.log[i].at + Retention < time
      BY <2>3
    <2>4. CASE \E q \in Observed(w) : TookIt(w, q, s.log, i)
      BY <2>4 DEF Follows, TookIt
    <2> QED BY <1>1, <2>2, <2>3, <2>4 DEF HoldsAll, b
  <1>8. MatchedOK(r, v, s.log)
    BY <1>2, <1>5, <1>6, <1>7 DEF MatchedOK, AreSpans
  <1> QED BY <1>2, <1>8 DEF WatchOK, Steps

(* What an observation that is complete may not have missed.               *)
HasTaken(o, status, selected, traces, was, n, time) ==
    /\ o.at = "observed" /\ o.status = status /\ o.got = selected
    /\ o.traces = traces /\ o.time = was.time /\ o.seen = was.seen
    /\ o.taken = n /\ o.ended = time

NothingRefused(s, traces, correlation) ==
    /\ \A m \in Range(s.correlations) : m.name # correlation
    /\ \A m \in Range(s.traces) : m.name \notin traces

LEMMA TakenIsWhole ==
    ASSUME NEW s, NEW time \in Nat, NEW w, StoreOK(s, time, w),
           NEW r \in Request, w[r].at = "matched", WatchOK(r, w, s.log),
           NEW matched, matched = w[r].matched, NEW selected, selected = Selected(matched),
           NEW traces, traces = {span.trace : span \in Range(selected)},
           NEW refused,
           refused \/ NothingRefused(s, traces, Requests[r].correlation),
           NEW status, status = "complete" => NothingIsMissing(matched, selected, refused),
           NEW v, Follows(w, v), Observed(v) \ {r} = Observed(w),
           HasTaken(v[r], status, selected, traces, w[r], Len(s.log), time)
    PROVE  WatchOK(r, v, s.log)
  <1>1. MatchedOK(r, w, s.log)
    BY DEF WatchOK
  <1>3. Follows(w, v) /\ Observed(v) \ {r} = Observed(w)
    OBVIOUS
  <1>4. /\ v[r].at = "observed" /\ v[r].status = status /\ v[r].got = selected
        /\ v[r].traces = traces /\ v[r].time = w[r].time /\ v[r].seen = w[r].seen
        /\ v[r].taken = Len(s.log) /\ v[r].ended = time
    BY DEF HasTaken
  <1>5. /\ s.log \in Seq(LogEntries) /\ Len(s.log) \in Nat /\ IsBeginningOf(s.log, s.log)
        /\ Len(s.log) \in 0 .. Len(s.log) /\ Len(s.log) \in Len(s.log) .. Len(s.log)
    <2>1. s.log \in Seq(LogEntries)
      BY DEF StoreOK
    <2>2. Len(s.log) \in Nat
      BY <2>1, LenProperties
    <2> QED BY <2>1, <2>2, BeginsItself
  <1>6. \A q \in Observed(w) : v[q] = w[q]
    BY <1>3 DEF Follows
  <1>7. ASSUME status = "complete"
        PROVE  /\ NothingIsLost(Requests[r], v[r].got, s.log, v[r].seen, v[r].time, v, Observed(v) \ {r})
               /\ \A t \in v[r].traces : IsForgotten(r, v, s.log, "trace", t)
               /\ IsForgotten(r, v, s.log, "correlation", Requests[r].correlation)
    <2>1. Len(selected) = Len(matched) /\ ~refused
      BY <1>7 DEF NothingIsMissing
    <2>2. selected = matched /\ matched \in Seq(Buffers)
      BY <1>1, <2>1, SelectedIs DEF MatchedOK
    <2>3. NothingIsLost(Requests[r], v[r].got, s.log, v[r].seen, v[r].time, v, Observed(v) \ {r})
      <3>1. /\ NothingIsLost(Requests[r], matched, s.log, w[r].seen, w[r].time, w, Observed(w))
            /\ w[r].seen \in 0 .. Len(s.log)
        BY <1>1 DEF MatchedOK
      <3>2. Observed(w) \subseteq Observed(w)
        OBVIOUS
      <3>3. NothingIsLost(Requests[r], matched, s.log, w[r].seen, w[r].time, v, Observed(w))
        BY <1>5, <1>6, <3>1, <3>2, NothingLostStays
      <3> QED BY <1>3, <1>4, <2>2, <3>3
    <2>4. ASSUME NEW field, NEW name, name # NoCorrelation,
                 NEW marks, MarksOK(marks, field, s.log, time, w),
                 \A m \in Range(marks) : m.name # name
          PROVE  IsForgotten(r, v, s.log, field, name)
      <3> SUFFICES ASSUME NEW i \in Refusals(s.log, field, name, Len(s.log))
                   PROVE  MayBeForgotten(s.log, field, i, Len(s.log), time, v, Observed(w))
        BY <1>3, <1>4 DEF IsForgotten
      <3>1. i \in 1 .. Len(s.log) /\ ~s.log[i].accepted /\ NameIn(s.log[i], field) = name
        BY DEF Refusals
      <3>2. ~IsMarked(marks, name)
        <4>1. marks \in Seq(Marks)
          BY <2>4 DEF MarksOK, AreMarks
        <4>2. DOMAIN marks = 1 .. Len(marks)
          BY <4>1, LenProperties
        <4> QED BY <2>4, <4>2 DEF IsMarked, Range
      <3>3. MayBeForgotten(s.log, field, i, Len(s.log), time, w, Observed(w))
        BY <2>4, <3>1, <3>2 DEF MarksOK, Remembers
      <3>4. Observed(w) \subseteq Observed(w) /\ time <= time
        OBVIOUS
      <3> QED BY <1>5, <1>6, <3>1, <3>3, <3>4, ForgottenStays
    <2>5. ASSUME NEW t \in v[r].traces PROVE IsForgotten(r, v, s.log, "trace", t)
      <3>1. t \in traces
        BY <1>4
      <3>2. t # NoCorrelation
        <4>1. PICK span \in Range(matched) : t = span.trace
          BY <2>2, <3>1
        <4>2. \E i \in 1 .. Len(matched) : span = matched[i]
          BY <2>2, SpanIs
        <4>3. span.trace # NoTrace
          BY <2>2, <4>2, SpanIs
        <4> QED BY <4>1, <4>3 DEF NoTrace, NoCorrelation
      <3>3. MarksOK(s.traces, "trace", s.log, time, w)
        BY DEF StoreOK
      <3>4. \A m \in Range(s.traces) : m.name # t
        BY <2>1, <3>1 DEF NothingRefused
      <3> QED BY <2>4, <3>2, <3>3, <3>4
    <2>6. IsForgotten(r, v, s.log, "correlation", Requests[r].correlation)
      <3>1. Requests[r].correlation # NoCorrelation
        BY RequestsAreNamed DEF Request
      <3>2. MarksOK(s.correlations, "correlation", s.log, time, w)
        BY DEF StoreOK
      <3>3. \A m \in Range(s.correlations) : m.name # Requests[r].correlation
        BY <2>1 DEF NothingRefused
      <3> QED BY <2>4, <3>1, <3>2, <3>3
    <2> QED BY <2>3, <2>5, <2>6
  <1>8. ObservedOK(r, v, s.log)
    <2>1. v[r].seen \in 0 .. Len(s.log)
      BY <1>1, <1>4 DEF MatchedOK
    <2> QED BY <1>4, <1>5, <1>7, <2>1 DEF ObservedOK
  <1> QED BY <1>4, <1>8 DEF WatchOK, Steps
-----------------------------------------------------------------------------
(***************************************************************************)
(* The threads of the posts.                                               *)
(***************************************************************************)
LEMMA ThreadsAre ==
    ASSUME NEW threads \in Seq(Thread)
    PROVE  /\ Len(threads) \in Nat /\ DOMAIN threads = 1 .. Len(threads)
           /\ \A h \in DOMAIN threads : threads[h] \in Thread
           /\ IsFiniteSet({h \in DOMAIN threads : threads[h].at # "closed"})
           /\ Cardinality({h \in DOMAIN threads : threads[h].at # "closed"}) \in Nat
  <1>1. Len(threads) \in Nat /\ DOMAIN threads = 1 .. Len(threads)
    BY LenProperties
  <1>2. \A h \in DOMAIN threads : threads[h] \in Thread
    BY <1>1, ElementOfSeq
  <1> DEFINE S == {h \in DOMAIN threads : threads[h].at # "closed"}
  <1>3. IsFiniteSet(1 .. Len(threads)) /\ S \in SUBSET (1 .. Len(threads))
    BY <1>1, FS_Interval
  <1> HIDE DEF S
  <1>4. IsFiniteSet(S) /\ Cardinality(S) \in Nat
    BY <1>3, FS_Subset, FS_CardinalityType
  <1> QED BY <1>1, <1>2, <1>4 DEF S

LEMMA ThreadStarts ==
    ASSUME NEW threads, NEW free, NEW time \in Nat, IsThreads(threads, free, time), free > 0
    PROVE  IsThreads(Append(threads, [at |-> "reading"]), free - 1, time)
  <1> DEFINE t == [at |-> "reading"]
             more == Append(threads, t)
             S == {h \in DOMAIN threads : threads[h].at # "closed"}
             T == {h \in DOMAIN more : more[h].at # "closed"}
  <1>1. /\ threads \in Seq(Thread) /\ free \in Nat /\ free + Cardinality(S) = MaxHandlers
        /\ \A h \in DOMAIN threads : threads[h].at = "exporting" => threads[h].time <= time
    BY DEF IsThreads
  <1>2. /\ Len(threads) \in Nat /\ DOMAIN threads = 1 .. Len(threads)
        /\ IsFiniteSet(S) /\ Cardinality(S) \in Nat
    BY <1>1, ThreadsAre
  <1>3. t \in Thread /\ t.at = "reading"
    BY DEF Thread
  <1> HIDE DEF t
  <1>4. /\ more \in Seq(Thread) /\ Len(more) = Len(threads) + 1
        /\ \A h \in 1 .. Len(threads) : more[h] = threads[h]
        /\ more[Len(threads) + 1] = t
    BY <1>1, <1>3, AppendProperties
  <1>5. DOMAIN more = (1 .. Len(threads)) \cup {Len(threads) + 1}
    <2>1. DOMAIN more = 1 .. Len(threads) + 1
      BY <1>4, LenProperties
    <2> HIDE DEF more
    <2> QED BY <1>2, <2>1
  <1> HIDE DEF more
  <1>6. T = S \cup {Len(threads) + 1}
    BY <1>2, <1>3, <1>4, <1>5
  <1>7. Len(threads) + 1 \notin S
    BY <1>2
  <1> HIDE DEF S, T
  <1>8. Cardinality(T) = Cardinality(S) + 1
    BY <1>2, <1>6, <1>7, FS_AddElement
  <1>9. free - 1 \in Nat /\ (free - 1) + Cardinality(T) = MaxHandlers
    BY <1>1, <1>2, <1>8, LimitsOfTheReceiver
  <1>10. \A h \in DOMAIN more : more[h].at = "exporting" => more[h].time <= time
    BY <1>1, <1>2, <1>3, <1>4, <1>5
  <1>11. IsThreads(more, free - 1, time)
    BY <1>4, <1>9, <1>10 DEF IsThreads, T
  <1> QED BY <1>11 DEF more, t

LEMMA ThreadIsNone ==
    ASSUME NEW threads, NEW free, NEW time \in Nat, IsThreads(threads, free, time)
    PROVE  IsThreads(Append(threads, Closed), free, time)
  <1> DEFINE more == Append(threads, Closed)
             S == {h \in DOMAIN threads : threads[h].at # "closed"}
             T == {h \in DOMAIN more : more[h].at # "closed"}
  <1>1. /\ threads \in Seq(Thread) /\ free \in Nat /\ free + Cardinality(S) = MaxHandlers
        /\ \A h \in DOMAIN threads : threads[h].at = "exporting" => threads[h].time <= time
    BY DEF IsThreads
  <1>2. Len(threads) \in Nat /\ DOMAIN threads = 1 .. Len(threads)
    BY <1>1, ThreadsAre
  <1>3. Closed \in Thread /\ Closed.at = "closed"
    BY DEF Thread, Closed
  <1>4. /\ more \in Seq(Thread) /\ Len(more) = Len(threads) + 1
        /\ \A h \in 1 .. Len(threads) : more[h] = threads[h]
        /\ more[Len(threads) + 1] = Closed
    BY <1>1, <1>3, AppendProperties
  <1>5. DOMAIN more = (1 .. Len(threads)) \cup {Len(threads) + 1}
    <2>1. DOMAIN more = 1 .. Len(threads) + 1
      BY <1>4, LenProperties
    <2> HIDE DEF more
    <2> QED BY <1>2, <2>1
  <1> HIDE DEF more
  <1>6. T = S
    BY <1>2, <1>3, <1>4, <1>5
  <1>7. \A h \in DOMAIN more : more[h].at = "exporting" => more[h].time <= time
    BY <1>1, <1>2, <1>3, <1>4, <1>5
  <1> HIDE DEF S
  <1>8. IsThreads(more, free, time)
    BY <1>1, <1>4, <1>6, <1>7 DEF IsThreads
  <1> QED BY <1>8 DEF more

LEMMA ThreadReads ==
    ASSUME NEW threads, NEW free, NEW time \in Nat, IsThreads(threads, free, time),
           NEW h \in DOMAIN threads, threads[h].at = "reading"
    PROVE  IsThreads([threads EXCEPT ![h] = [at |-> "exporting", time |-> time]], free, time)
  <1> DEFINE t == [at |-> "exporting", time |-> time]
             more == [threads EXCEPT ![h] = t]
             S == {k \in DOMAIN threads : threads[k].at # "closed"}
             T == {k \in DOMAIN more : more[k].at # "closed"}
  <1>1. /\ threads \in Seq(Thread) /\ free \in Nat /\ free + Cardinality(S) = MaxHandlers
        /\ \A k \in DOMAIN threads : threads[k].at = "exporting" => threads[k].time <= time
    BY DEF IsThreads
  <1>2. Len(threads) \in Nat /\ DOMAIN threads = 1 .. Len(threads)
    BY <1>1, ThreadsAre
  <1>3. t \in Thread /\ t.at = "exporting" /\ t.time = time
    BY DEF Thread
  <1> HIDE DEF t
  <1>4. /\ more \in Seq(Thread) /\ DOMAIN more = DOMAIN threads /\ more[h] = t
        /\ \A k \in DOMAIN threads : k # h => more[k] = threads[k]
    BY <1>1, <1>2, <1>3, ExceptSeq
  <1> HIDE DEF more
  <1>5. T = S
    BY <1>3, <1>4
  <1>6. \A k \in DOMAIN more : more[k].at = "exporting" => more[k].time <= time
    BY <1>1, <1>3, <1>4
  <1> HIDE DEF S
  <1>7. IsThreads(more, free, time)
    BY <1>1, <1>4, <1>5, <1>6 DEF IsThreads
  <1> QED BY <1>7 DEF more, t

LEMMA ThreadEnds ==
    ASSUME NEW threads, NEW free, NEW time \in Nat, IsThreads(threads, free, time),
           NEW h \in DOMAIN threads, threads[h].at # "closed"
    PROVE  IsThreads([threads EXCEPT ![h] = Closed], free + 1, time)
  <1> DEFINE more == [threads EXCEPT ![h] = Closed]
             S == {k \in DOMAIN threads : threads[k].at # "closed"}
             T == {k \in DOMAIN more : more[k].at # "closed"}
  <1>1. /\ threads \in Seq(Thread) /\ free \in Nat /\ free + Cardinality(S) = MaxHandlers
        /\ \A k \in DOMAIN threads : threads[k].at = "exporting" => threads[k].time <= time
    BY DEF IsThreads
  <1>2. /\ Len(threads) \in Nat /\ DOMAIN threads = 1 .. Len(threads)
        /\ IsFiniteSet(S) /\ Cardinality(S) \in Nat
    BY <1>1, ThreadsAre
  <1>3. Closed \in Thread /\ Closed.at = "closed"
    BY DEF Thread, Closed
  <1>4. /\ more \in Seq(Thread) /\ DOMAIN more = DOMAIN threads /\ more[h] = Closed
        /\ \A k \in DOMAIN threads : k # h => more[k] = threads[k]
    BY <1>1, <1>2, <1>3, ExceptSeq
  <1> HIDE DEF more
  <1>5. T = S \ {h} /\ h \in S
    BY <1>3, <1>4
  <1>6. \A k \in DOMAIN more : more[k].at = "exporting" => more[k].time <= time
    BY <1>1, <1>3, <1>4
  <1> HIDE DEF S, T
  <1>7. Cardinality(T) = Cardinality(S) - 1
    BY <1>2, <1>5, FS_RemoveElement
  <1>8. free + 1 \in Nat /\ (free + 1) + Cardinality(T) = MaxHandlers
    BY <1>1, <1>2, <1>7, LimitsOfTheReceiver
  <1>9. IsThreads(more, free + 1, time)
    BY <1>4, <1>6, <1>8 DEF IsThreads, T
  <1> QED BY <1>9 DEF more
-----------------------------------------------------------------------------
(***************************************************************************)
(* The receiver and its store.                                             *)
(***************************************************************************)
LEMMA SumOfNone == SumOfSizes(<<>>) = 0
  <1>1. <<>> \in Seq(Buffers) /\ <<>> \o <<>> = <<>>
    OBVIOUS
  <1>2. SumOfSizes(<<>> \o <<>>) = SumOfSizes(<<>>) + SumOfSizes(<<>>)
    BY <1>1, BuffersAreSized, SumOfConcat
  <1>3. SumOfSizes(<<>>) \in Nat
    BY <1>1, SpanIs
  <1> DEFINE n == SumOfSizes(<<>>)
  <1>4. n \in Nat /\ n = n + n
    BY <1>1, <1>2, <1>3
  <1> HIDE DEF n
  <1>5. n = 0
    BY <1>4
  <1> QED BY <1>5 DEF n

LEMMA EmptyStore ==
    ASSUME NEW s, s = [spans |-> <<>>, indexes |-> <<>>, traces |-> <<>>,
                       correlations |-> <<>>, log |-> <<>>], NEW w
    PROVE  StoreOK(s, 0, w)
  <1>1. /\ IsStore(s) /\ s.log = <<>> /\ s.spans = <<>> /\ s.indexes = <<>>
        /\ s.traces = <<>> /\ s.correlations = <<>>
    BY DEF IsStore
  <1>2. /\ Len(<<>>) = 0 /\ DOMAIN <<>> = {} /\ Range(<<>>) = {}
        /\ <<>> \in Seq(Buffers) /\ <<>> \in Seq(LogEntries) /\ <<>> \in Seq(Marks)
    BY DEF Range
  <1>3. AreSpans(<<>>, 0)
    BY <1>2, SumOfNone, LimitsOfTheReceiver DEF AreSpans
  <1>4. IsIndex(<<>>, <<>>)
    BY <1>2 DEF IsIndex, Identities
  <1>5. HoldsAll(<<>>, <<>>, 0, w)
    BY <1>2 DEF HoldsAll
  <1>6. \A field : MarksOK(<<>>, field, <<>>, 0, w)
    BY <1>2, LimitsOfTheReceiver DEF MarksOK, AreMarks, Placed, Remembers
  <1> QED BY <1>1, <1>2, <1>3, <1>4, <1>5, <1>6 DEF StoreOK

LEMMA StartsRight == TraceInit => ReceiverInv
  <1> SUFFICES ASSUME TraceInit PROVE ReceiverInv
    OBVIOUS
  <1>1. now \in 0 .. MaxTime /\ now = 0
    BY LimitsOfTheReceiver DEF TraceInit
  <1>2. IsThreads(handlers, slots, now)
    <2>1. /\ <<>> \in Seq(Thread) /\ DOMAIN <<>> = {}
          /\ {h \in DOMAIN <<>> : <<>>[h].at # "closed"} = {}
      OBVIOUS
    <2>2. Cardinality({}) = 0
      BY FS_EmptySet
    <2> QED BY <2>1, <2>2, LimitsOfTheReceiver DEF TraceInit, IsThreads
  <1>3. StoreOK(Contents, now, watch)
    <2>1. Contents = [spans |-> <<>>, indexes |-> <<>>, traces |-> <<>>,
                      correlations |-> <<>>, log |-> <<>>]
      BY DEF TraceInit, Contents
    <2> QED BY <1>1, <2>1, EmptyStore
  <1>4. DOMAIN watch = Request /\ \A r \in Request : WatchOK(r, watch, log)
    <2>1. DOMAIN watch = Request /\ \A r \in Request : watch[r].at = "idle"
      BY DEF TraceInit, Waiting
    <2> QED BY <2>1 DEF WatchOK, Steps, Observed
  <1> QED BY <1>1, <1>2, <1>3, <1>4 DEF ReceiverInv

LEMMA NowIs ==
    ASSUME ReceiverInv
    PROVE  /\ now \in Nat /\ now <= now
           /\ log \in Seq(LogEntries) /\ Contents.log = log /\ IsBeginningOf(log, log)
           /\ StoreOK(Contents, now, watch)
           /\ DOMAIN watch = Request /\ \A r \in Request : WatchOK(r, watch, log)
  <1>1. now \in Nat /\ now <= now
    BY LimitsOfTheReceiver DEF ReceiverInv
  <1>2. Contents.log = log
    BY DEF Contents
  <1>3. log \in Seq(LogEntries)
    BY <1>2 DEF ReceiverInv, StoreOK
  <1> QED BY <1>1, <1>2, <1>3, BeginsItself DEF ReceiverInv

LEMMA BecomesContents ==
    ASSUME NEW s, IsStore(s), Becomes(s)
    PROVE  Contents' = s /\ log' = s.log
  <1>1. Contents' = [spans |-> s.spans, indexes |-> s.indexes, traces |-> s.traces,
                     correlations |-> s.correlations, log |-> s.log]
    BY DEF Contents, Becomes
  <1> QED BY <1>1 DEF IsStore, Becomes

LEMMA StoreUnchanged ==
    ASSUME UNCHANGED store
    PROVE  Contents' = Contents /\ log' = log
  BY DEF store, Contents

(* The store becomes another, and nothing else happens to those who watch. *)
LEMMA StoreChanges ==
    ASSUME ReceiverInv, NEW s, StoreOK(s, now, watch), IsBeginningOf(log, s.log),
           Becomes(s), UNCHANGED <<now, watch>>
    PROVE  /\ StoreOK(Contents, now, watch)'
           /\ (DOMAIN watch = Request /\ \A r \in Request : WatchOK(r, watch, log))'
  <1>1. Contents' = s /\ log' = s.log
    BY BecomesContents DEF StoreOK
  <1>2. StoreOK(Contents, now, watch)'
    BY <1>1
  <1>3. Follows(watch, watch)
    BY DEF Follows
  <1>4. ASSUME NEW r \in Request PROVE WatchOK(r, watch, s.log)
    BY <1>3, NowIs, WatchStays
  <1> QED BY <1>1, <1>2, <1>4, NowIs

LEMMA PostKeeps == ReceiverInv /\ Post => ReceiverInv'
  <1> SUFFICES ASSUME ReceiverInv, Post PROVE ReceiverInv'
    OBVIOUS
  <1>1. Contents' = Contents /\ log' = log /\ now' = now /\ watch' = watch
    BY StoreUnchanged DEF Post, store
  <1>2. IsThreads(handlers, slots, now) /\ now \in Nat
    BY NowIs DEF ReceiverInv
  <1>3. IsThreads(handlers', slots', now)
    <2>1. CASE slots > 0
      <3>1. slots' = slots - 1 /\ handlers' = Append(handlers, [at |-> "reading"])
        BY <2>1 DEF Post
      <3> QED BY <1>2, <2>1, <3>1, ThreadStarts
    <2>2. CASE ~(slots > 0)
      <3>1. slots' = slots /\ handlers' = Append(handlers, Closed)
        BY <2>2 DEF Post
      <3> QED BY <1>2, <3>1, ThreadIsNone
    <2> QED BY <2>1, <2>2
  <1> QED BY <1>1, <1>3 DEF ReceiverInv

LEMMA ReadClockKeeps == ASSUME NEW h \in DOMAIN handlers PROVE ReceiverInv /\ ReadClock(h) => ReceiverInv'
  <1> SUFFICES ASSUME ReceiverInv, ReadClock(h) PROVE ReceiverInv'
    OBVIOUS
  <1>1. /\ Contents' = Contents /\ log' = log /\ now' = now /\ watch' = watch /\ slots' = slots
        /\ handlers' = [handlers EXCEPT ![h] = [at |-> "exporting", time |-> now]]
        /\ handlers[h].at = "reading"
    BY StoreUnchanged DEF ReadClock, store
  <1>2. IsThreads(handlers, slots, now) /\ now \in Nat
    BY NowIs DEF ReceiverInv
  <1>3. IsThreads(handlers', slots', now)
    BY <1>1, <1>2, ThreadReads
  <1> QED BY <1>1, <1>3 DEF ReceiverInv

LEMMA ReleaseKeeps ==
    ASSUME ReceiverInv, NEW h \in DOMAIN handlers, handlers[h].at # "closed", Release(h), now' = now
    PROVE  IsThreads(handlers, slots, now)'
  <1>1. IsThreads(handlers, slots, now) /\ now \in Nat
    BY NowIs DEF ReceiverInv
  <1>2. handlers' = [handlers EXCEPT ![h] = Closed] /\ slots' = slots + 1
    BY DEF Release
  <1>3. IsThreads(handlers', slots', now)
    BY <1>1, <1>2, ThreadEnds
  <1> QED BY <1>3

LEMMA ExportKeeps == ASSUME NEW h \in DOMAIN handlers PROVE ReceiverInv /\ Export(h) => ReceiverInv'
  <1> SUFFICES ASSUME ReceiverInv, Export(h) PROVE ReceiverInv'
    OBVIOUS
  <1>1. handlers[h].at = "exporting" /\ Release(h) /\ UNCHANGED <<now, watch>>
    BY DEF Export
  <1>2. PICK payload \in Payloads :
            Becomes(AllExported(Pruned(Contents, handlers[h].time), payload, handlers[h].time))
    BY DEF Export
  <1> DEFINE time == handlers[h].time
             p == Pruned(Contents, time)
             s == AllExported(p, payload, time)
  <1>3. time \in Nat /\ time <= now
    <2>1. handlers \in Seq(Thread) /\ time <= now
      BY <1>1 DEF ReceiverInv, IsThreads
    <2>2. handlers[h] \in Thread
      BY <2>1, ThreadsAre
    <2> QED BY <1>1, <2>1, <2>2 DEF Thread
  <1>4. StoreOK(p, now, watch) /\ p.log = log
    <2> HIDE DEF time
    <2> QED BY <1>3, NowIs, PrunedStore
  <1>5. StoreOK(s, now, watch) /\ IsBeginningOf(log, s.log)
    <2> HIDE DEF time, p
    <2>1. StoreOK(s, now, watch) /\ IsBeginningOf(p.log, s.log)
      BY <1>3, <1>4, NowIs, ExportedStore
    <2> QED BY <1>4, <2>1
  <1>6. Becomes(s)
    BY <1>2
  <1> HIDE DEF s, p, time
  <1>7. /\ StoreOK(Contents, now, watch)'
        /\ (DOMAIN watch = Request /\ \A r \in Request : WatchOK(r, watch, log))'
    BY <1>1, <1>5, <1>6, StoreChanges
  <1>8. IsThreads(handlers, slots, now)'
    <2>1. handlers[h].at # "closed" /\ now' = now
      BY <1>1
    <2> QED BY <1>1, <2>1, ReleaseKeeps
  <1>9. (now \in 0 .. MaxTime)'
    BY <1>1 DEF ReceiverInv
  <1> QED BY <1>7, <1>8, <1>9 DEF ReceiverInv

LEMMA DiscardKeeps == ASSUME NEW h \in DOMAIN handlers PROVE ReceiverInv /\ Discard(h) => ReceiverInv'
  <1> SUFFICES ASSUME ReceiverInv, Discard(h) PROVE ReceiverInv'
    OBVIOUS
  <1>1. /\ Contents' = Contents /\ log' = log /\ now' = now /\ watch' = watch
        /\ handlers[h].at = "reading" /\ Release(h)
    BY StoreUnchanged DEF Discard, store
  <1>2. handlers[h].at # "closed"
    BY <1>1
  <1>3. IsThreads(handlers, slots, now)'
    BY <1>1, <1>2, ReleaseKeeps
  <1> QED BY <1>1, <1>3 DEF ReceiverInv

LEMMA TickKeeps == ReceiverInv /\ Tick => ReceiverInv'
  <1> SUFFICES ASSUME ReceiverInv, Tick PROVE ReceiverInv'
    OBVIOUS
  <1>1. /\ Contents' = Contents /\ log' = log /\ watch' = watch
        /\ slots' = slots /\ handlers' = handlers
        /\ now < MaxTime /\ now' = now + 1
    BY StoreUnchanged DEF Tick, store
  <1>2. now \in 0 .. MaxTime /\ now' \in 0 .. MaxTime /\ now' \in Nat /\ now <= now'
    BY <1>1, LimitsOfTheReceiver DEF ReceiverInv
  <1>3. Follows(watch, watch)
    BY DEF Follows
  <1>4. StoreOK(Contents, now', watch)
    BY <1>2, <1>3, NowIs, StoreStays
  <1>5. IsThreads(handlers, slots, now')
    <2>1. IsThreads(handlers, slots, now)
      BY DEF ReceiverInv
    <2>2. ASSUME NEW h \in DOMAIN handlers, handlers[h].at = "exporting"
          PROVE  handlers[h].time <= now'
      <3>1. handlers[h] \in Thread /\ handlers[h].time <= now
        BY <2>1, <2>2, ThreadsAre DEF IsThreads
      <3>2. handlers[h].time \in Nat
        BY <2>2, <3>1 DEF Thread
      <3> QED BY <1>1, <1>2, <3>1, <3>2
    <2> QED BY <2>1, <2>2 DEF IsThreads
  <1>6. (DOMAIN watch = Request /\ \A r \in Request : WatchOK(r, watch, log))'
    BY <1>1, NowIs
  <1> QED BY <1>1, <1>2, <1>4, <1>5, <1>6 DEF ReceiverInv

(* One observation goes a step, and the store becomes s.                   *)
LEMMA WatchChanges ==
    ASSUME ReceiverInv, NEW s, NEW r \in Request, NEW o, r \notin Observed(watch),
           watch' = [watch EXCEPT ![r] = o],
           StoreOK(s, now, watch'), s.log = log, WatchOK(r, watch', log),
           Contents' = s, log' = log, now' = now,
           UNCHANGED <<slots, handlers>>
    PROVE  ReceiverInv'
  <1>1. /\ DOMAIN watch = Request /\ \A q \in Request : WatchOK(q, watch, log)
        /\ log \in Seq(LogEntries)
    BY NowIs
  <1>2. DOMAIN watch' = Request /\ \A q \in Request : WatchOK(q, watch', log)
    BY <1>1, AllWatch
  <1>3. IsThreads(handlers, slots, now)' /\ (now \in 0 .. MaxTime)'
    BY DEF ReceiverInv
  <1> QED BY <1>2, <1>3 DEF ReceiverInv

LEMMA BeginKeeps == ASSUME NEW r \in Request PROVE ReceiverInv /\ Begin(r) => ReceiverInv'
  <1> SUFFICES ASSUME ReceiverInv, Begin(r) PROVE ReceiverInv'
    OBVIOUS
  <1> DEFINE o == [at |-> "polling", deadline |-> now + Timeout]
  <1>1. /\ Contents' = Contents /\ log' = log /\ now' = now /\ UNCHANGED <<slots, handlers>>
        /\ watch[r].at = "idle" /\ watch' = [watch EXCEPT ![r] = o]
    BY StoreUnchanged DEF Begin, store
  <1>2. r \notin Observed(watch) /\ o.at = "polling"
    BY <1>1 DEF Observed
  <1> HIDE DEF o
  <1>3. Follows(watch, watch') /\ watch'[r] = o
    BY <1>1, <1>2, NowIs, OneWatches
  <1>4. WatchOK(r, watch', log)
    BY <1>2, <1>3 DEF WatchOK, Steps, Observed
  <1>5. StoreOK(Contents, now, watch')
    BY <1>3, NowIs, StoreStays
  <1> QED BY <1>1, <1>2, <1>4, <1>5, NowIs, WatchChanges

LEMMA PollKeeps == ASSUME NEW r \in Request PROVE ReceiverInv /\ Poll(r) => ReceiverInv'
  <1> SUFFICES ASSUME ReceiverInv, Poll(r) PROVE ReceiverInv'
    OBVIOUS
  <1> DEFINE p == Pruned(Contents, now)
             matched == Matching(p.spans, Requests[r])
             o == IF matched = <<>> THEN [at |-> "observed", status |-> "missing"]
                  ELSE [at |-> "matched", matched |-> matched, time |-> now, seen |-> Len(log)]
  <1>1. /\ watch[r].at = "polling" /\ Becomes(p) /\ watch' = [watch EXCEPT ![r] = o]
        /\ now' = now /\ UNCHANGED <<slots, handlers>>
    BY DEF Poll
  <1>2. StoreOK(p, now, watch) /\ p.log = log
    BY NowIs, PrunedStore
  <1>3. r \notin Observed(watch)
    BY <1>1 DEF Observed
  <1> HIDE DEF p
  <1>4. Follows(watch, watch') /\ watch'[r] = o
    <2> HIDE DEF o
    <2> QED BY <1>1, <1>3, NowIs, OneWatches
  <1>5. Contents' = p /\ log' = log
    BY <1>1, <1>2, BecomesContents DEF StoreOK
  <1>6. StoreOK(p, now, watch')
    BY <1>2, <1>4, NowIs, StoreStays
  <1>7. WatchOK(r, watch', log)
    <2>1. CASE matched = <<>>
      <3>1. watch'[r] = [at |-> "observed", status |-> "missing"]
        BY <1>4, <2>1
      <3>2. watch'[r].at = "observed" /\ watch'[r].status = "missing"
        BY <3>1
      <3> QED BY <3>2 DEF WatchOK, Steps, Observed
    <2>2. CASE matched # <<>>
      <3>1. watch'[r] = [at |-> "matched", matched |-> matched, time |-> now, seen |-> Len(p.log)]
        BY <1>2, <1>4, <2>2
      <3> DEFINE all == matched
      <3>2. all = Matching(p.spans, Requests[r])
        OBVIOUS
      <3> HIDE DEF o, matched
      <3>3. WatchOK(r, watch', p.log)
        BY <1>2, <1>4, <2>2, <3>1, <3>2, NowIs, MatchedIsWhole
      <3> QED BY <1>2, <3>3
    <2> QED BY <2>1, <2>2
  <1> HIDE DEF o
  <1> QED BY <1>1, <1>2, <1>3, <1>5, <1>6, <1>7, WatchChanges

LEMMA PollAgainKeeps == ASSUME NEW r \in Request PROVE ReceiverInv /\ PollAgain(r) => ReceiverInv'
  <1> SUFFICES ASSUME ReceiverInv, PollAgain(r) PROVE ReceiverInv'
    OBVIOUS
  <1> DEFINE p == Pruned(Contents, now)
  <1>1. Becomes(p) /\ UNCHANGED <<now, watch>> /\ UNCHANGED <<slots, handlers>>
    BY DEF PollAgain
  <1>2. StoreOK(p, now, watch) /\ p.log = log
    BY NowIs, PrunedStore
  <1>3. IsBeginningOf(log, p.log)
    BY <1>2, NowIs
  <1> HIDE DEF p
  <1>4. /\ StoreOK(Contents, now, watch)'
        /\ (DOMAIN watch = Request /\ \A q \in Request : WatchOK(q, watch, log))'
    BY <1>1, <1>2, <1>3, StoreChanges
  <1>5. IsThreads(handlers, slots, now)' /\ (now \in 0 .. MaxTime)'
    BY <1>1 DEF ReceiverInv
  <1> QED BY <1>4, <1>5 DEF ReceiverInv

LEMMA TakeKeeps == ASSUME NEW r \in Request PROVE ReceiverInv /\ Take(r) => ReceiverInv'
  <1> SUFFICES ASSUME ReceiverInv, Take(r) PROVE ReceiverInv'
    OBVIOUS
  <1> DEFINE matched == watch[r].matched
             selected == Selected(matched)
             traces == {span.trace : span \in Range(selected)}
             correlation == Requests[r].correlation
             refused == \/ \E m \in Range(refusedCorrelations) : m.name = correlation
                        \/ \E m \in Range(refusedTraces) : m.name \in traces
             took == Identities(matched)
             rest == Only(spans, {span \in Range(spans) : Identity(span) \notin took})
             status == IF NothingIsMissing(matched, selected, refused)
                       THEN "complete" ELSE "incomplete"
             s == [spans |-> rest, indexes |-> IndexesOf(rest),
                   traces |-> Forgotten(refusedTraces, traces),
                   correlations |-> Forgotten(refusedCorrelations, {correlation}),
                   log |-> log]
             o == [at |-> "observed", status |-> status,
                   got |-> selected, took |-> took, traces |-> traces,
                   time |-> watch[r].time, seen |-> watch[r].seen,
                   taken |-> Len(log), ended |-> now]
  <1>1. /\ watch[r].at = "matched" /\ Becomes(s)
        /\ now' = now /\ UNCHANGED <<slots, handlers>>
    BY DEF Take
  <1>2. watch' = [watch EXCEPT ![r] = o]
    BY DEF Take
  <1>3. r \notin Observed(watch)
    BY <1>1 DEF Observed
  <1>4. /\ s.log = log /\ IsStore(s)
        /\ status \in {"complete", "incomplete"}
        /\ status = "complete" => NothingIsMissing(matched, selected, refused)
    BY DEF IsStore
  <1>5. /\ HasTaken(o, status, selected, traces, watch[r], Len(log), now)
        /\ o.at = "observed" /\ o.status = status /\ o.took = took
        /\ o.traces = traces /\ o.taken = Len(log)
    BY DEF HasTaken
  <1>6. refused \/ NothingRefused(Contents, traces, correlation)
    BY DEF NothingRefused, Contents
  <1>7. /\ Contents.spans = spans /\ Contents.traces = refusedTraces
        /\ Contents.correlations = refusedCorrelations /\ Contents.log = log
    BY DEF Contents
  <1>8. /\ matched = watch[r].matched /\ selected = Selected(matched)
        /\ traces = {span.trace : span \in Range(selected)}
    OBVIOUS
  <1>9. /\ rest = Only(Contents.spans, {span \in Range(Contents.spans) : Identity(span) \notin took})
        /\ s = [spans |-> rest, indexes |-> IndexesOf(rest),
                traces |-> Forgotten(Contents.traces, traces),
                correlations |-> Forgotten(Contents.correlations, {Requests[r].correlation}),
                log |-> Contents.log]
    BY <1>7
  <1>10. correlation = Requests[r].correlation
    OBVIOUS
  <1> HIDE DEF s, o, status, refused, rest, took, traces, selected, matched, correlation
  <1>11. /\ Follows(watch, watch') /\ watch'[r] = o /\ Observed(watch') \ {r} = Observed(watch)
    BY <1>2, <1>3, NowIs, OneWatches
  <1>12. /\ r \in Observed(watch')
         /\ watch'[r].taken = Len(Contents.log) /\ watch'[r].took = took
         /\ watch'[r].traces = traces
    BY <1>4, <1>5, <1>7, <1>11 DEF Observed
  <1>13. StoreOK(s, now, watch')
    <2>1. StoreOK([spans |-> rest, indexes |-> IndexesOf(rest),
                   traces |-> Forgotten(Contents.traces, traces),
                   correlations |-> Forgotten(Contents.correlations, {Requests[r].correlation}),
                   log |-> Contents.log], now, watch')
      BY <1>9, <1>11, <1>12, NowIs, TakenStore
    <2> QED BY <1>9, <2>1
  <1>14. WatchOK(r, watch', log)
    <2>1. /\ WatchOK(r, watch, Contents.log)
          /\ HasTaken(watch'[r], status, selected, traces, watch[r], Len(Contents.log), now)
      BY <1>5, <1>7, <1>11, NowIs
    <2>2. refused \/ NothingRefused(Contents, traces, Requests[r].correlation)
      BY <1>6, <1>10
    <2>3. WatchOK(r, watch', Contents.log)
      BY <1>1, <1>4, <1>8, <1>11, <2>1, <2>2, NowIs, TakenIsWhole
    <2> QED BY <1>7, <2>3
  <1>15. Contents' = s /\ log' = log
    BY <1>1, <1>4, BecomesContents
  <1> QED BY <1>1, <1>2, <1>3, <1>4, <1>13, <1>14, <1>15, WatchChanges

LEMMA TraceNextKeeps == ReceiverInv /\ [TraceNext]_traceVars => ReceiverInv'
  <1> SUFFICES ASSUME ReceiverInv, [TraceNext]_traceVars PROVE ReceiverInv'
    OBVIOUS
  <1>1. CASE Post
    BY <1>1, PostKeeps
  <1>2. CASE Handler
    BY <1>2, ReadClockKeeps, ExportKeeps, DiscardKeeps DEF Handler
  <1>3. CASE Tick
    BY <1>3, TickKeeps
  <1>4. CASE \E r \in Request : Begin(r) \/ Poll(r) \/ PollAgain(r) \/ Take(r)
    BY <1>4, BeginKeeps, PollKeeps, PollAgainKeeps, TakeKeeps
  <1>5. CASE UNCHANGED traceVars
    <2>1. /\ Contents' = Contents /\ log' = log /\ now' = now /\ watch' = watch
          /\ slots' = slots /\ handlers' = handlers
      BY <1>5, StoreUnchanged DEF traceVars, store
    <2> QED BY <2>1 DEF ReceiverInv
  <1> QED BY <1>1, <1>2, <1>3, <1>4, <1>5 DEF TraceNext

(* The inductive invariant of the receiver and its store.                  *)
THEOREM ReceiverInvariance == TraceSpec => []ReceiverInv
  <1>1. TraceInit => ReceiverInv
    BY StartsRight
  <1>2. ReceiverInv /\ [TraceNext]_traceVars => ReceiverInv'
    BY TraceNextKeeps
  <1> QED BY <1>1, <1>2, PTL DEF TraceSpec

LEMMA ReceiverIsExact == ReceiverInv => StoreIsExact
  <1> SUFFICES ASSUME ReceiverInv PROVE StoreIsExact
    OBVIOUS
  <1>1. /\ now \in 0 .. MaxTime /\ now \in Nat
        /\ IsThreads(handlers, slots, now)
        /\ DOMAIN watch = Request /\ \A r \in Request : WatchOK(r, watch, log)
    BY NowIs DEF ReceiverInv
  <1>2. /\ AreSpans(spans, now) /\ IsIndex(indexes, spans)
        /\ MarksOK(refusedTraces, "trace", log, now, watch)
        /\ MarksOK(refusedCorrelations, "correlation", log, now, watch)
    BY DEF ReceiverInv, StoreOK, Contents
  <1>3. /\ spans \in Seq(Buffers) /\ DOMAIN spans = 1 .. Len(spans)
        /\ Range(spans) = {spans[i] : i \in 1 .. Len(spans)}
    BY <1>2, SpanIs DEF AreSpans
  <1>4. IndexIsExact
    BY <1>2, <1>3 DEF IsIndex, IndexIsExact
  <1>5. ASSUME NEW marks, NEW field, MarksOK(marks, field, log, now, watch)
        PROVE  /\ Len(marks) <= MaxSpans
               /\ \A i, j \in DOMAIN marks : marks[i].name = marks[j].name => i = j
               /\ \A m \in Range(marks) : m.at \in 0 .. now
    <2>1. /\ marks \in Seq(Marks) /\ Len(marks) <= MaxSpans
          /\ \A p \in 1 .. Len(marks) : marks[p].at <= now
          /\ Placed(marks, field, log)
      BY <1>5 DEF MarksOK, AreMarks
    <2>2. DOMAIN marks = 1 .. Len(marks) /\ Len(marks) \in Nat
      BY <2>1, LenProperties
    <2>3. \A p \in 1 .. Len(marks) : marks[p].at \in 0 .. now
      BY <1>1, <2>1, MarkIs
    <2>4. ASSUME NEW i \in 1 .. Len(marks), NEW j \in 1 .. Len(marks), i < j
          PROVE  marks[i].name # marks[j].name
      <3>1. PICK k \in Refusals(log, field, marks[j].name, Len(log)) :
                \A l \in Refusals(log, field, marks[i].name, Len(log)) : l < k
        BY <2>1, <2>4 DEF Placed
      <3>2. k \in Nat
        BY DEF Refusals
      <3> QED BY <3>1, <3>2
    <2>5. \A i, j \in DOMAIN marks : marks[i].name = marks[j].name => i = j
      <3> SUFFICES ASSUME NEW i \in 1 .. Len(marks), NEW j \in 1 .. Len(marks),
                          marks[i].name = marks[j].name
                   PROVE  i = j
        BY <2>2
      <3>1. ~(i < j) /\ ~(j < i)
        BY <2>4
      <3> QED BY <2>2, <3>1
    <2> QED BY <2>1, <2>2, <2>3, <2>5 DEF Range
  <1>6. LimitsHold
    <2>1. Len(spans) <= MaxSpans /\ SumOfSizes(spans) <= MaxBufferBytes
      BY <1>2 DEF AreSpans
    <2> QED BY <1>2, <1>5, <2>1 DEF LimitsHold
  <1>7. SelectionsAreUsable
    <2> SUFFICES ASSUME NEW r \in Request, watch[r].at = "matched"
                 PROVE  Selected(watch[r].matched) # <<>>
      BY DEF SelectionsAreUsable
    <2>1. MatchedOK(r, watch, log)
      BY <1>1 DEF WatchOK
    <2> QED BY <2>1, SelectedIs DEF MatchedOK
  <1>8. SlotsAreTheHandlers /\ slots \in 0 .. MaxHandlers
    <2> DEFINE n == Cardinality({h \in DOMAIN handlers : handlers[h].at # "closed"})
    <2>1. n \in Nat /\ slots \in Nat /\ slots + n = MaxHandlers
      BY <1>1, ThreadsAre DEF IsThreads
    <2>2. SlotsAreTheHandlers
      BY <2>1 DEF SlotsAreTheHandlers
    <2> HIDE DEF n
    <2>3. slots \in 0 .. MaxHandlers
      BY <2>1, LimitsOfTheReceiver
    <2> QED BY <2>2, <2>3
  <1>9. TraceTypeOK
    <2>1. \A span \in Range(spans) : span.at \in 0 .. now /\ span.readable
      BY <1>1, <1>2, <1>3, SpanIs DEF AreSpans
    <2>2. \A m \in Range(refusedTraces) \cup Range(refusedCorrelations) : m.at \in 0 .. now
      BY <1>2, <1>5
    <2>3. \A r \in Request : watch[r].at \in Steps
      BY <1>1 DEF WatchOK
    <2>4. \A h \in DOMAIN handlers : handlers[h].at \in {"reading", "exporting", "closed"}
      <3>1. \A h \in DOMAIN handlers : handlers[h] \in Thread
        BY <1>1, ThreadsAre DEF IsThreads
      <3> QED BY <3>1 DEF Thread
    <2> QED BY <1>1, <1>8, <2>1, <2>2, <2>3, <2>4 DEF TraceTypeOK
  <1> QED BY <1>4, <1>6, <1>7, <1>8, <1>9 DEF StoreIsExact

LEMMA ReceiverIsWhole == ReceiverInv => CompleteIsWhole
  <1> SUFFICES ASSUME ReceiverInv, NEW r \in Observed(watch), watch[r].status = "complete"
               PROVE  /\ NothingIsLost(Requests[r], watch[r].got, log, watch[r].seen,
                                       watch[r].time, watch, Observed(watch) \ {r})
                      /\ \A t \in watch[r].traces : IsForgotten(r, watch, log, "trace", t)
                      /\ IsForgotten(r, watch, log, "correlation", Requests[r].correlation)
    BY DEF CompleteIsWhole, IsForgotten
  <1>1. WatchOK(r, watch, log)
    BY NowIs DEF Observed
  <1>2. ObservedOK(r, watch, log)
    BY <1>1 DEF WatchOK
  <1> QED BY <1>2 DEF ObservedOK

(* However exports, updates, observations and pruning interleave, the      *)
(* index, the limits and the slots of the receiver agree with what is      *)
(* stored and with who is served.                                          *)
THEOREM StoreExact == TraceSpec => []StoreIsExact
  BY ReceiverInvariance, ReceiverIsExact, PTL

(* A complete observation has the last version of every span of its        *)
(* request, and nothing of its trace or correlation was refused, as far as *)
(* the bounded store remembers.                                            *)
THEOREM CompleteWhole == TraceSpec => []CompleteIsWhole
  BY ReceiverInvariance, ReceiverIsWhole, PTL
=============================================================================
