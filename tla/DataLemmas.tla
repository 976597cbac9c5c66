----------------------------- MODULE DataLemmas -----------------------------
(* Lemmas about numbers, sets and sequences that the proofs of several      *)
(* components rest on.  Induction is done by least counterexample: the      *)
(* inclusion of finite sets is well founded, so that a nonempty set of      *)
(* numbers has a least element.                                             *)
EXTENDS Integers, Sequences, SequencesExt, SequenceTheorems, FiniteSetTheorems,
        WellFoundedInduction, TLAPS

\* A nonempty set of naturals has a least element.
LEMMA LeastNatural ==
    ASSUME NEW T, T \subseteq Nat, T # {}
    PROVE  \E n \in T : \A m \in T : n <= m
<1> DEFINE Below(n) == 0..n
           I == {Below(n) : n \in T}
<1>1. I # {} /\ I \subseteq FiniteSubsetsOf(Nat)
  <2>1. \A n \in T : IsFiniteSet(Below(n)) /\ Below(n) \in SUBSET Nat
    BY FS_Interval
  <2> QED
    BY <2>1 DEF FiniteSubsetsOf
<1>2. PICK x \in I : \A y \in I : ~ (<<y, x>> \in StrictSubsetOrdering(Nat))
  <2> HIDE DEF I
  <2> QED
    BY <1>1, FS_StrictSubsetOrderingWellFounded, WFMin
<1>3. PICK n \in T : x = Below(n)
  OBVIOUS
<1>4. \A m \in T : n <= m
  <2> SUFFICES ASSUME NEW m \in T, ~(n <= m) PROVE FALSE
    OBVIOUS
  <2>1. Below(m) \subseteq Below(n) /\ n \in Below(n) /\ n \notin Below(m)
    OBVIOUS
  <2>2. Below(m) \in SUBSET Nat /\ Below(n) \in SUBSET Nat
    OBVIOUS
  <2>3. <<Below(m), Below(n)>> \in StrictSubsetOrdering(Nat)
    BY <2>1, <2>2 DEF StrictSubsetOrdering
  <2> QED
    BY <1>2, <1>3, <2>3
<1> QED
  BY <1>4

-----------------------------------------------------------------------------
(* The ends of a sequence: its entries, and the entries after an operation. *)

LEMMA SeqEntries ==
    ASSUME NEW S, NEW s \in Seq(S)
    PROVE  /\ DOMAIN s = 1 .. Len(s) /\ Len(s) \in Nat
           /\ \A i \in DOMAIN s : s[i] \in S
           /\ s # <<>> => Len(s) >= 1 /\ Head(s) = s[1] /\ Last(s) = s[Len(s)]
  BY DEF Last

LEMMA AppendEntries ==
    ASSUME NEW S, NEW s \in Seq(S), NEW x \in S
    PROVE  /\ Append(s, x) \in Seq(S) /\ DOMAIN Append(s, x) = 1 .. Len(s) + 1
           /\ \A i \in 1 .. Len(s) : Append(s, x)[i] = s[i]
           /\ Append(s, x)[Len(s) + 1] = x
  OBVIOUS

LEMMA TailEntries ==
    ASSUME NEW S, NEW s \in Seq(S), s # <<>>
    PROVE  /\ Tail(s) \in Seq(S) /\ Len(Tail(s)) = Len(s) - 1
           /\ DOMAIN Tail(s) = 1 .. Len(s) - 1
           /\ \A i \in 1 .. Len(s) - 1 : Tail(s)[i] = s[i + 1]
  OBVIOUS

LEMMA FrontEntries ==
    ASSUME NEW S, NEW s \in Seq(S), s # <<>>
    PROVE  /\ Front(s) \in Seq(S) /\ DOMAIN Front(s) = 1 .. Len(s) - 1
           /\ Len(Front(s)) = Len(s) - 1
           /\ \A i \in 1 .. Len(s) - 1 : Front(s)[i] = s[i]
<1>1. Len(s) \in Nat /\ Len(s) # 0
  OBVIOUS
<1>2. PICK n \in Nat : n = Len(s) - 1 /\ n < Len(s)
  <2>1. Len(s) - 1 \in Nat /\ Len(s) - 1 < Len(s)
    BY <1>1
  <2> QED
    BY <2>1
<1>3. \A i \in 1 .. n : s[i] \in S
  BY <1>2
<1>4. /\ SubSeq(s, 1, n) \in Seq(S) /\ Len(SubSeq(s, 1, n)) = IF 1 <= n THEN n - 1 + 1 ELSE 0
      /\ \A i \in 1 .. n - 1 + 1 : SubSeq(s, 1, n)[i] = s[1 + i - 1]
  BY <1>3, SubSeqProperties
<1>5. /\ Len(SubSeq(s, 1, n)) = n
      /\ \A i \in 1 .. n : SubSeq(s, 1, n)[i] = s[i]
  BY <1>4
<1>6. Front(s) = SubSeq(s, 1, n)
  BY <1>2 DEF Front
<1> QED
  BY <1>2, <1>4, <1>5, <1>6

LEMMA ConsEntries ==
    ASSUME NEW S, NEW s \in Seq(S), NEW x \in S
    PROVE  /\ <<x>> \o s \in Seq(S) /\ DOMAIN (<<x>> \o s) = 1 .. Len(s) + 1
           /\ (<<x>> \o s)[1] = x
           /\ \A i \in 2 .. Len(s) + 1 : (<<x>> \o s)[i] = s[i - 1]
  OBVIOUS
LEMMA StretchEntries ==
    ASSUME NEW S, NEW s \in Seq(S), NEW k \in Nat, NEW m \in Nat, k + m <= Len(s)
    PROVE  /\ SubSeq(s, k + 1, k + m) \in Seq(S) /\ Len(SubSeq(s, k + 1, k + m)) = m
           /\ \A i \in 1 .. m : SubSeq(s, k + 1, k + m)[i] = s[k + i]
<1>1. PICK from \in Int, to \in Int : from = k + 1 /\ to = k + m
  OBVIOUS
<1>2. \A i \in from .. to : s[i] \in S
  BY <1>1
<1>3. /\ SubSeq(s, from, to) \in Seq(S)
      /\ Len(SubSeq(s, from, to)) = IF from <= to THEN to - from + 1 ELSE 0
      /\ \A i \in 1 .. to - from + 1 : SubSeq(s, from, to)[i] = s[from + i - 1]
  BY <1>2, SubSeqProperties
<1>4. to - from + 1 = m /\ (~(from <= to) => m = 0) /\ \A i \in 1 .. m : from + i - 1 = k + i
  BY <1>1
<1>5. Len(SubSeq(s, from, to)) = m
  BY <1>3, <1>4
<1>6. \A i \in 1 .. m : SubSeq(s, from, to)[i] = s[k + i]
  BY <1>3, <1>4
<1> QED
  BY <1>1, <1>3, <1>5, <1>6

-----------------------------------------------------------------------------
(* Running sums: s[i] is the sum of the first i of the n numbers in a. *)

Sums(s, a, n) ==
    /\ s \in [0 .. n -> Int] /\ s[0] = 0
    /\ \A i \in 1 .. n : s[i] = s[i - 1] + a[i]

\* They exist, so that a recursive definition of them defines them.
LEMMA SumsExist ==
    ASSUME NEW n \in Nat, NEW a, \A i \in 1 .. n : a[i] \in Int
    PROVE  \E s : Sums(s, a, n)
<1> DEFINE Bad == {m \in 0 .. n : ~\E s : Sums(s, a, m)}
<1> SUFFICES Bad = {}
  OBVIOUS
<1> SUFFICES ASSUME Bad # {} PROVE FALSE
  OBVIOUS
<1>1. Bad \subseteq Nat
  OBVIOUS
<1>2. PICK m \in Bad : \A k \in Bad : m <= k
  <2> HIDE DEF Bad
  <2> QED
    BY <1>1, LeastNatural
<1>3. m \in 0 .. n /\ ~\E s : Sums(s, a, m)
  BY <1>2
<1>4. CASE m = 0
  <2>1. \A i : ~(i \in 1 .. 0)
    OBVIOUS
  <2>2. [i \in 0 .. 0 |-> 0] \in [0 .. 0 -> Int] /\ [i \in 0 .. 0 |-> 0][0] = 0
    OBVIOUS
  <2>3. Sums([i \in 0 .. 0 |-> 0], a, 0)
    BY <2>1, <2>2 DEF Sums
  <2> QED
    BY <1>3, <1>4, <2>3
<1>5. CASE m # 0
  <2>1. m - 1 \in 0 .. n /\ ~(m <= m - 1) /\ m - 1 \in Nat
    BY <1>3, <1>5
  <2>2. m - 1 \notin Bad
    BY <1>2, <2>1
  <2>3. PICK s : Sums(s, a, m - 1)
    BY <2>1, <2>2
  <2>4. s \in [0 .. m - 1 -> Int] /\ s[0] = 0 /\ a[m] \in Int /\ s[m - 1] \in Int
    BY <1>3, <1>5, <2>1, <2>3 DEF Sums
  <2> DEFINE t == [i \in 0 .. m |-> IF i = m THEN s[m - 1] + a[m] ELSE s[i]]
  <2>5. t \in [0 .. m -> Int] /\ t[0] = 0
    BY <1>3, <1>5, <2>1, <2>4
  <2>6. ASSUME NEW i \in 1 .. m PROVE t[i] = t[i - 1] + a[i]
    <3>1. i \in 0 .. m /\ i - 1 \in 0 .. m /\ i - 1 # m
      BY <1>3
    <3>2. CASE i = m
      BY <3>1, <3>2
    <3>3. CASE i # m
      <4>1. i \in 1 .. m - 1
        BY <1>3, <3>3
      <4>2. s[i] = s[i - 1] + a[i]
        BY <2>3, <4>1 DEF Sums
      <4> QED
        BY <3>1, <3>3, <4>2
    <3> QED
      BY <3>2, <3>3
  <2>7. Sums(t, a, m)
    <3> HIDE DEF t
    <3> QED
      BY <2>5, <2>6 DEF Sums
  <2> QED
    BY <1>3, <2>7
<1> QED
  BY <1>4, <1>5

\* b is the stretch of m numbers of a that begins after the first k.
Stretch(s, a, n, t, b, m, k) ==
    /\ n \in Nat /\ m \in Nat /\ k \in Nat /\ k + m <= n
    /\ Sums(s, a, n) /\ Sums(t, b, m)
    /\ \A i \in 1 .. n : a[i] \in Int
    /\ \A i \in 1 .. m : b[i] = a[k + i]

\* The sum of a stretch is the difference of the sums at its ends.
LEMMA SumOfStretch ==
    ASSUME NEW s, NEW a, NEW n, NEW t, NEW b, NEW m, NEW k, Stretch(s, a, n, t, b, m, k)
    PROVE  t[m] = s[k + m] - s[k]
<1>0. /\ n \in Nat /\ m \in Nat /\ k \in Nat /\ k + m <= n
      /\ Sums(s, a, n) /\ Sums(t, b, m)
      /\ \A i \in 1 .. n : a[i] \in Int
      /\ \A i \in 1 .. m : b[i] = a[k + i]
  BY DEF Stretch
<1> USE <1>0
<1> DEFINE Bad == {j \in 0 .. m : t[j] # s[k + j] - s[k]}
<1> SUFFICES ASSUME Bad # {} PROVE FALSE
  <2>1. m \in 0 .. m
    OBVIOUS
  <2> QED
    BY <2>1
<1>1. Bad \subseteq Nat
  OBVIOUS
<1>2. PICK j \in Bad : \A i \in Bad : j <= i
  <2> HIDE DEF Bad
  <2> QED
    BY <1>1, LeastNatural
<1>3. j \in 0 .. m /\ t[j] # s[k + j] - s[k]
  BY <1>2
<1>4. s \in [0 .. n -> Int] /\ t \in [0 .. m -> Int] /\ t[0] = 0
  BY DEF Sums
<1>5. s[k] \in Int
  BY <1>4
<1>6. j # 0
  BY <1>3, <1>4, <1>5
<1>7. j - 1 \in 0 .. m /\ ~(j <= j - 1) /\ j \in 1 .. m /\ k + j \in 1 .. n /\ (k + j) - 1 = k + (j - 1)
  BY <1>3, <1>6
<1>8. t[j - 1] = s[k + (j - 1)] - s[k]
  BY <1>2, <1>7
<1>9. t[j] = t[j - 1] + b[j] /\ s[k + j] = s[(k + j) - 1] + a[k + j] /\ b[j] = a[k + j] /\ a[k + j] \in Int
  BY <1>7 DEF Sums
<1>10. k + (j - 1) \in 0 .. n
  BY <1>7
<1>11. s[k + (j - 1)] \in Int
  BY <1>4, <1>10
<1> QED
  BY <1>3, <1>5, <1>7, <1>8, <1>9, <1>11

\* Sums of numbers that are not negative only grow.
LEMMA SumsGrow ==
    ASSUME NEW n \in Nat, NEW a, NEW s, Sums(s, a, n), \A i \in 1 .. n : a[i] \in Nat
    PROVE  \A k \in 0 .. n : \A j \in k .. n : s[k] <= s[j] /\ s[j] \in Nat
<1>0. s \in [0 .. n -> Int] /\ s[0] = 0
  BY DEF Sums
<1>1. ASSUME NEW k \in 0 .. n PROVE \A j \in k .. n : s[k] <= s[j]
  <2> DEFINE Bad == {j \in k .. n : ~(s[k] <= s[j])}
  <2> SUFFICES ASSUME Bad # {} PROVE FALSE
    OBVIOUS
  <2>1. Bad \subseteq Nat
    OBVIOUS
  <2>2. PICK j \in Bad : \A i \in Bad : j <= i
    <3> HIDE DEF Bad
    <3> QED
      BY <2>1, LeastNatural
  <2>3. j \in k .. n /\ ~(s[k] <= s[j])
    BY <2>2
  <2>4. s[k] \in Int
    BY <1>0
  <2>5. j # k
    BY <2>3, <2>4
  <2>6. j - 1 \in k .. n /\ ~(j <= j - 1) /\ j \in 1 .. n /\ j \in 0 .. n /\ j - 1 \in 0 .. n
    BY <2>3, <2>5
  <2>7. s[k] <= s[j - 1]
    BY <2>2, <2>6
  <2>8. s[j] = s[j - 1] + a[j] /\ a[j] \in Nat
    BY <2>6 DEF Sums
  <2>9. s[j] \in Int /\ s[j - 1] \in Int
    BY <1>0, <2>6
  <2> QED
    BY <2>3, <2>4, <2>7, <2>8, <2>9
<1>2. \A j \in 0 .. n : s[0] <= s[j]
  BY <1>1
<1>3. ASSUME NEW k \in 0 .. n, NEW j \in k .. n PROVE s[k] <= s[j] /\ s[j] \in Nat
  <2>1. j \in 0 .. n
    OBVIOUS
  <2>2. s[j] \in Int /\ s[0] <= s[j]
    BY <1>0, <1>2, <2>1
  <2> QED
    BY <1>0, <1>1, <2>2
<1> QED
  BY <1>3

\* What a recursive definition of running sums says is that they are sums.
LEMMA SumsDefined ==
    ASSUME NEW n \in Nat, NEW a, \A i \in 1 .. n : a[i] \in Int,
           NEW f, f = [i \in 0 .. n |-> IF i = 0 THEN 0 ELSE f[i - 1] + a[i]]
    PROVE  Sums(f, a, n)
<1>0. /\ DOMAIN f = 0 .. n /\ f[0] = 0
      /\ \A i \in 1 .. n : f[i] = f[i - 1] + a[i]
  <2>1. \A i \in 1 .. n : i \in 0 .. n /\ i # 0
    OBVIOUS
  <2> DEFINE g == [i \in 0 .. n |-> IF i = 0 THEN 0 ELSE f[i - 1] + a[i]]
  <2>2. DOMAIN g = 0 .. n /\ g[0] = 0 /\ \A i \in 1 .. n : g[i] = f[i - 1] + a[i]
    BY <2>1
  <2> QED
    BY <2>2
<1> DEFINE Bad == {j \in 0 .. n : f[j] \notin Int}
<1>1. Bad = {}
  <2> SUFFICES ASSUME Bad # {} PROVE FALSE
    OBVIOUS
  <2>1. Bad \subseteq Nat
    OBVIOUS
  <2>2. PICK j \in Bad : \A i \in Bad : j <= i
    <3> HIDE DEF Bad
    <3> QED
      BY <2>1, LeastNatural
  <2>3. j \in 0 .. n /\ f[j] \notin Int
    BY <2>2
  <2>4. j # 0
    BY <1>0, <2>3
  <2>5. j - 1 \in 0 .. n /\ ~(j <= j - 1) /\ j \in 1 .. n
    BY <2>3, <2>4
  <2>6. f[j - 1] \in Int
    BY <2>2, <2>5
  <2>7. f[j] = f[j - 1] + a[j] /\ a[j] \in Int
    BY <1>0, <2>5
  <2> QED
    BY <2>3, <2>6, <2>7
<1>2. f = [i \in 0 .. n |-> f[i]]
  BY <1>0
<1>3. f \in [0 .. n -> Int]
  BY <1>1, <1>2
<1> QED
  BY <1>0, <1>3 DEF Sums

-----------------------------------------------------------------------------
(* Division by a number that is not known. *)

LEMMA MultiplesApart ==
    ASSUME NEW T \in Nat \ {0}, NEW q \in Int, NEW d \in Int, q < d
    PROVE  q * T + T <= d * T
<1>1. PICK e \in Nat : d = q + 1 + e
  <2>1. d - q - 1 \in Nat /\ d = q + 1 + (d - q - 1)
    OBVIOUS
  <2> QED
    BY <2>1
<1>2. d * T = q * T + T + e * T
  BY <1>1
<1>3. e * T >= 0
  OBVIOUS
<1> QED
  BY <1>2, <1>3

\* Quotient and remainder are what they say, and nothing else is.
LEMMA Division ==
    ASSUME NEW T \in Nat \ {0}, NEW c \in Nat
    PROVE  /\ c \div T \in Nat /\ c % T \in 0 .. T - 1 /\ c = (c \div T) * T + (c % T)
           /\ \A q \in Nat, r \in 0 .. T - 1 : c = q * T + r => c \div T = q /\ c % T = r
<1>1. c \div T \in Nat /\ c % T \in 0 .. T - 1 /\ c = (c \div T) * T + (c % T)
  OBVIOUS
<1>2. ASSUME NEW q \in Nat, NEW r \in 0 .. T - 1, c = q * T + r
      PROVE  c \div T = q /\ c % T = r
  <2>1. PICK d \in Nat, m \in 0 .. T - 1 : d = c \div T /\ m = c % T /\ c = d * T + m
    BY <1>1
  <2>2. ~(d < q)
    BY <1>2, <2>1, MultiplesApart
  <2>3. ~(q < d)
    BY <1>2, <2>1, MultiplesApart
  <2> QED
    BY <1>2, <2>1, <2>2, <2>3
<1> QED
  BY <1>1, <1>2
=============================================================================
