---------------------------- MODULE HistoryProofs ----------------------------
(***************************************************************************)
(* Proofs about History, for every page size and any number of utterances, *)
(* tears and wishes: what a torn write costs, and that the page shows the  *)
(* newest records with nothing left out.                                   *)
(***************************************************************************)
EXTENDS History, SequenceTheorems, FiniteSetTheorems, WellFoundedInduction, NaturalsInduction, TLAPS

\* A set of numbers has a least one.
LEMMA Least ==
  ASSUME NEW T, T \subseteq Nat, T # {}
  PROVE  \E x \in T : \A y \in T : x <= y
<1> DEFINE R == OpToRel(<, Nat)
<1>1. PICK x \in T : \A y \in T : ~(<<y, x>> \in R)
  BY WFMin, NatLessThanWellFounded
<1>2. ASSUME NEW y \in T PROVE x <= y
  <2>1. y < x => <<y, x>> \in R
    BY DEF OpToRel
  <2> HIDE DEF R
  <2>2. ~(y < x)
    BY <1>1, <2>1
  <2> QED BY <2>2
<1> QED BY <1>2, Zenon

\* What a set without a least element has: nothing.
LEMMA Descent ==
  ASSUME NEW T, T \subseteq Nat, \A x \in T : \E y \in T : y < x
  PROVE  T = {}
<1> SUFFICES ASSUME T # {} PROVE FALSE
  OBVIOUS
<1>1. PICK x \in T : \A y \in T : x <= y
  BY Least, Zenon
<1>2. PICK y \in T : y < x
  BY <1>1
<1> QED BY <1>1, <1>2

-----------------------------------------------------------------------------
(* A filter. *)

\* The recursion of Without, up to a length.
Kept(s, out, m, f) ==
  f = [n \in 0..m |-> IF n = 0 THEN <<>>
                      ELSE IF s[n] \in out THEN f[n - 1] ELSE Append(f[n - 1], s[n])]

\* It has a solution for every length.
LEMMA KeptExists ==
  ASSUME NEW s, NEW out, NEW m \in Nat
  PROVE  \E f : Kept(s, out, m, f)
<1> DEFINE T == {k \in Nat : ~\E f : Kept(s, out, k, f)}
<1>1. ASSUME NEW k \in T PROVE \E j \in T : j < k
  <2>1. k # 0
    <3>1. Kept(s, out, 0, [n \in 0..0 |-> <<>>])
      BY DEF Kept
    <3> QED BY <3>1
  <2>2. k - 1 \in Nat /\ k - 1 < k
    BY <2>1
  <2>3. ASSUME NEW g, Kept(s, out, k - 1, g) PROVE FALSE
    <3> DEFINE f == [n \in 0..k |-> IF n < k THEN g[n]
                                    ELSE IF s[k] \in out THEN g[k - 1] ELSE Append(g[k - 1], s[k])]
    <3>1. \A n \in 0..(k - 1) : f[n] = g[n]
      BY <2>2
    <3>2. f[k] = IF s[k] \in out THEN g[k - 1] ELSE Append(g[k - 1], s[k])
      BY <2>2
    <3>3. f = [n \in 0..k |-> f[n]]
      OBVIOUS
    <3> HIDE DEF f
    <3>4. \A n \in 0..(k - 1) : g[n] = IF n = 0 THEN <<>>
                      ELSE IF s[n] \in out THEN g[n - 1] ELSE Append(g[n - 1], s[n])
      BY <2>3 DEF Kept
    <3>5. ASSUME NEW n \in 0..k
          PROVE  f[n] = IF n = 0 THEN <<>>
                        ELSE IF s[n] \in out THEN f[n - 1] ELSE Append(f[n - 1], s[n])
      <4>1. CASE n = 0
        BY <2>2, <3>1, <3>4, <4>1
      <4>2. CASE n = k
        <5>1. f[n - 1] = g[k - 1]
          BY <2>2, <3>1, <4>2
        <5> QED BY <2>1, <3>2, <4>2, <5>1
      <4>3. CASE n # 0 /\ n # k
        <5>1. n \in 0..(k - 1) /\ n - 1 \in 0..(k - 1)
          BY <2>2, <4>3
        <5>2. f[n] = g[n] /\ f[n - 1] = g[n - 1]
          BY <3>1, <5>1
        <5> QED BY <3>4, <4>3, <5>1, <5>2
      <4> QED BY <4>1, <4>2, <4>3
    <3>6. Kept(s, out, k, f)
      BY <3>3, <3>5 DEF Kept
    <3> QED BY <3>6
  <2> QED BY <2>2, <2>3
<1> HIDE DEF T
<1>2. T \subseteq Nat
  BY DEF T
<1>3. T = {}
  BY <1>1, <1>2, Descent
<1> QED BY <1>3 DEF T

\* The solutions for two sequences are one as far as the sequences are.
LEMMA KeptAgree ==
  ASSUME NEW s, NEW t, NEW out, NEW l \in Nat, NEW m \in Nat, NEW f, NEW g,
         Kept(s, out, l, f), Kept(t, out, m, g), l <= m, \A n \in 1..l : s[n] = t[n]
  PROVE  f[l] = g[l]
<1> DEFINE T == {n \in 0..l : f[n] # g[n]}
<1>1. ASSUME NEW n \in T PROVE \E j \in T : j < n
  <2>1. f[n] = IF n = 0 THEN <<>> ELSE IF s[n] \in out THEN f[n - 1] ELSE Append(f[n - 1], s[n])
    BY DEF Kept
  <2>2. g[n] = IF n = 0 THEN <<>> ELSE IF t[n] \in out THEN g[n - 1] ELSE Append(g[n - 1], t[n])
    <3>1. n \in 0..m
      OBVIOUS
    <3> QED BY <3>1 DEF Kept
  <2>3. n # 0
    BY <2>1, <2>2
  <2>4. s[n] = t[n] /\ n - 1 \in 0..l /\ n - 1 < n
    BY <2>3
  <2>5. f[n - 1] # g[n - 1]
    BY <2>1, <2>2, <2>3, <2>4
  <2> QED BY <2>4, <2>5
<1> HIDE DEF T
<1>2. T \subseteq Nat
  BY DEF T
<1>3. T = {}
  BY <1>1, <1>2, Descent
<1> QED BY <1>3 DEF T

\* What Without is.
LEMMA WithoutIs ==
  ASSUME NEW s, NEW out, Len(s) \in Nat
  PROVE  \E f : Kept(s, out, Len(s), f) /\ Without(s, out) = f[Len(s)]
<1>1. Without(s, out) = (CHOOSE f : Kept(s, out, Len(s), f))[Len(s)]
  BY DEF Without, Kept
<1>2. Kept(s, out, Len(s), CHOOSE f : Kept(s, out, Len(s), f))
  BY KeptExists
<1> QED BY <1>1, <1>2

\* The element at the end stays or goes.
LEMMA WithoutLast ==
  ASSUME NEW S, NEW s \in Seq(S), NEW x \in S, NEW out
  PROVE  /\ Without(<<>>, out) = <<>>
         /\ Without(Append(s, x), out)
              = IF x \in out THEN Without(s, out) ELSE Append(Without(s, out), x)
<1> DEFINE t == Append(s, x)
<1>1. PICK n \in Nat : n = Len(s)
  OBVIOUS
<1>2. Len(t) = n + 1 /\ t[n + 1] = x /\ \A i \in 1..n : s[i] = t[i]
  BY <1>1
<1> HIDE DEF t
<1>3. PICK f : Kept(s, out, n, f) /\ Without(s, out) = f[n]
  BY <1>1, WithoutIs
<1>4. PICK g : Kept(t, out, n + 1, g) /\ Without(t, out) = g[n + 1]
  <2>1. Len(t) \in Nat
    BY <1>2
  <2> QED BY <1>2, <2>1, WithoutIs
<1>5. f[n] = g[n]
  <2>1. n + 1 \in Nat /\ n <= n + 1
    OBVIOUS
  <2> QED BY <1>2, <1>3, <1>4, <2>1, KeptAgree
<1>6. g[n + 1] = IF t[n + 1] \in out THEN g[n] ELSE Append(g[n], t[n + 1])
  <2>1. n + 1 \in 0..(n + 1) /\ n + 1 # 0 /\ (n + 1) - 1 = n
    OBVIOUS
  <2>2. g[n + 1] = IF n + 1 = 0 THEN <<>>
                   ELSE IF t[n + 1] \in out THEN g[(n + 1) - 1] ELSE Append(g[(n + 1) - 1], t[n + 1])
    BY <1>4, <2>1 DEF Kept
  <2> QED BY <2>1, <2>2
<1>7. Without(t, out) = IF x \in out THEN Without(s, out) ELSE Append(Without(s, out), x)
  BY <1>2, <1>3, <1>4, <1>5, <1>6
<1>8. Without(<<>>, out) = <<>>
  <2>1. Len(<<>>) = 0 /\ 0 \in 0..0
    OBVIOUS
  <2>2. PICK h : Kept(<<>>, out, 0, h) /\ Without(<<>>, out) = h[0]
    BY <2>1, WithoutIs
  <2>3. h[0] = <<>>
    BY <2>1, <2>2 DEF Kept
  <2> QED BY <2>2, <2>3
<1> QED BY <1>7, <1>8 DEF t

-----------------------------------------------------------------------------
(* Records in order. *)

Rising(s) == \A i, j \in DOMAIN s : i < j => s[i] < s[j]
Falling(s) == \A i, j \in DOMAIN s : i < j => s[i] > s[j]

\* The elements of a sequence.
LEMMA Elements ==
  ASSUME NEW S, NEW s \in Seq(S)
  PROVE  /\ \A x : x \in ToSet(s) <=> \E i \in 1..Len(s) : s[i] = x
         /\ ToSet(s) \subseteq S
         /\ ToSet(<<>>) = {}
  BY DEF ToSet

\* One more at the end.
LEMMA OneMore ==
  ASSUME NEW s \in Seq(Nat), NEW x \in Nat
  PROVE  /\ Append(s, x) \in Seq(Nat) /\ ToSet(Append(s, x)) = ToSet(s) \cup {x}
         /\ Rising(Append(s, x)) <=> Rising(s) /\ \A y \in ToSet(s) : y < x
         /\ Falling(Append(s, x)) <=> Falling(s) /\ \A y \in ToSet(s) : y > x
<1> DEFINE t == Append(s, x)
<1>1. PICK n \in Nat : n = Len(s)
  OBVIOUS
<1>2. /\ t \in Seq(Nat) /\ Len(t) = n + 1 /\ DOMAIN t = 1..(n + 1) /\ DOMAIN s = 1..n
      /\ t[n + 1] = x /\ \A i \in 1..n : t[i] = s[i] /\ s[i] \in Nat
  BY <1>1
<1> HIDE DEF t
<1>3. ToSet(t) = ToSet(s) \cup {x}
  <2>1. \A i \in 1..(n + 1) : i = n + 1 \/ i \in 1..n
    OBVIOUS
  <2>2. n + 1 \in 1..(n + 1) /\ 1..n \subseteq 1..(n + 1)
    OBVIOUS
  <2>3. ToSet(t) \subseteq ToSet(s) \cup {x}
    BY <1>2, <2>1 DEF ToSet
  <2>4. ToSet(s) \subseteq ToSet(t) /\ x \in ToSet(t)
    BY <1>2, <2>2 DEF ToSet
  <2> QED BY <2>3, <2>4
<1>4. \A i, j \in 1..(n + 1) : i < j => i \in 1..n /\ (j \in 1..n \/ j = n + 1)
  OBVIOUS
<1>5. \A i \in 1..n : i \in 1..(n + 1) /\ i < n + 1
  OBVIOUS
<1>6. n + 1 \in 1..(n + 1)
  OBVIOUS
<1>7. \A y : y \in ToSet(s) <=> \E i \in 1..n : s[i] = y
  BY <1>2 DEF ToSet
<1>8. Rising(t) <=> Rising(s) /\ \A y \in ToSet(s) : y < x
  <2>1. ASSUME Rising(t) PROVE Rising(s) /\ \A y \in ToSet(s) : y < x
    <3>1. \A i, j \in 1..(n + 1) : i < j => t[i] < t[j]
      BY <1>2, <2>1 DEF Rising
    <3>2. \A i, j \in 1..n : i < j => s[i] < s[j]
      BY <1>2, <1>5, <3>1
    <3>3. \A i \in 1..n : s[i] < x
      BY <1>2, <1>5, <1>6, <3>1
    <3> QED BY <1>2, <1>7, <3>2, <3>3 DEF Rising
  <2>2. ASSUME Rising(s), \A y \in ToSet(s) : y < x PROVE Rising(t)
    <3>1. \A i, j \in 1..n : i < j => s[i] < s[j]
      BY <1>2, <2>2 DEF Rising
    <3>2. \A i \in 1..n : s[i] < x
      BY <1>7, <2>2
    <3>3. \A i, j \in 1..(n + 1) : i < j => t[i] < t[j]
      BY <1>2, <1>4, <3>1, <3>2
    <3> QED BY <1>2, <3>3 DEF Rising
  <2> QED BY <2>1, <2>2
<1>9. Falling(t) <=> Falling(s) /\ \A y \in ToSet(s) : y > x
  <2>1. ASSUME Falling(t) PROVE Falling(s) /\ \A y \in ToSet(s) : y > x
    <3>1. \A i, j \in 1..(n + 1) : i < j => t[i] > t[j]
      BY <1>2, <2>1 DEF Falling
    <3>2. \A i, j \in 1..n : i < j => s[i] > s[j]
      BY <1>2, <1>5, <3>1
    <3>3. \A i \in 1..n : s[i] > x
      BY <1>2, <1>5, <1>6, <3>1
    <3> QED BY <1>2, <1>7, <3>2, <3>3 DEF Falling
  <2>2. ASSUME Falling(s), \A y \in ToSet(s) : y > x PROVE Falling(t)
    <3>1. \A i, j \in 1..n : i < j => s[i] > s[j]
      BY <1>2, <2>2 DEF Falling
    <3>2. \A i \in 1..n : s[i] > x
      BY <1>7, <2>2
    <3>3. \A i, j \in 1..(n + 1) : i < j => t[i] > t[j]
      BY <1>2, <1>4, <3>1, <3>2
    <3> QED BY <1>2, <3>3 DEF Falling
  <2> QED BY <2>1, <2>2
<1> QED BY <1>2, <1>3, <1>8, <1>9 DEF t

\* A filter drops what it should, and keeps the order.
Filtered(s, out) ==
  /\ Without(s, out) \in Seq(Nat) /\ ToSet(Without(s, out)) = ToSet(s) \ out
  /\ Rising(s) => Rising(Without(s, out))
  /\ Falling(s) => Falling(Without(s, out))

LEMMA FilteredLast ==
  ASSUME NEW s \in Seq(Nat), NEW x \in Nat, NEW out, Filtered(s, out)
  PROVE  Filtered(Append(s, x), out)
<1> DEFINE w == Without(s, out)
           t == Append(s, x)
           v == Without(t, out)
<1>1. /\ w \in Seq(Nat) /\ ToSet(w) = ToSet(s) \ out
      /\ Rising(s) => Rising(w)
      /\ Falling(s) => Falling(w)
  BY DEF Filtered
<1>2. v = IF x \in out THEN w ELSE Append(w, x)
  BY WithoutLast
<1> HIDE DEF w, v
<1>3. /\ ToSet(t) = ToSet(s) \cup {x}
      /\ Rising(t) <=> Rising(s) /\ \A y \in ToSet(s) : y < x
      /\ Falling(t) <=> Falling(s) /\ \A y \in ToSet(s) : y > x
  BY OneMore
<1> HIDE DEF t
<1>4. /\ v \in Seq(Nat) /\ ToSet(v) = ToSet(t) \ out
      /\ Rising(t) => Rising(v)
      /\ Falling(t) => Falling(v)
  <2>1. CASE x \in out
    BY <1>1, <1>2, <1>3, <2>1
  <2>2. CASE x \notin out
    <3>1. /\ Append(w, x) \in Seq(Nat) /\ ToSet(Append(w, x)) = ToSet(w) \cup {x}
          /\ Rising(Append(w, x)) <=> Rising(w) /\ \A y \in ToSet(w) : y < x
          /\ Falling(Append(w, x)) <=> Falling(w) /\ \A y \in ToSet(w) : y > x
      BY <1>1, OneMore
    <3>2. v = Append(w, x)
      BY <1>2, <2>2
    <3>3. ToSet(w) \subseteq ToSet(s)
      BY <1>1
    <3>4. ToSet(v) = ToSet(t) \ out
      BY <1>1, <1>3, <2>2, <3>1, <3>2
    <3>5. (Rising(t) => Rising(v)) /\ (Falling(t) => Falling(v))
      BY <1>1, <1>3, <3>1, <3>2, <3>3
    <3> QED BY <3>1, <3>2, <3>4, <3>5
  <2> QED BY <2>1, <2>2
<1> QED BY <1>4 DEF Filtered, t, v

LEMMA FilterKeepsOrder ==
  ASSUME NEW s \in Seq(Nat), NEW out
  PROVE  Filtered(s, out)
<1> DEFINE T == {n \in Nat : \E t \in Seq(Nat) : Len(t) = n /\ ~Filtered(t, out)}
<1>1. ASSUME NEW n \in T PROVE \E j \in T : j < n
  <2>1. PICK t \in Seq(Nat) : Len(t) = n /\ ~Filtered(t, out)
    OBVIOUS
  <2>2. t # <<>>
    <3>1. Without(<<>>, out) = <<>>
      <4>1. <<>> \in Seq(Nat) /\ 0 \in Nat
        OBVIOUS
      <4> QED BY <4>1, WithoutLast
    <3>2. <<>> \in Seq(Nat) /\ Rising(<<>>) /\ Falling(<<>>) /\ ToSet(<<>>) = {}
      BY DEF Rising, Falling, ToSet
    <3>3. Filtered(<<>>, out)
      BY <3>1, <3>2 DEF Filtered
    <3> QED BY <2>1, <3>3
  <2>3. PICK u \in Seq(Nat), x \in Nat : t = Append(u, x)
    BY <2>2, SequenceEmptyOrAppend
  <2>4. ~Filtered(u, out)
    BY <2>1, <2>3, FilteredLast
  <2>5. Len(u) \in Nat /\ Len(u) < n
    BY <2>1, <2>3
  <2> QED BY <2>4, <2>5
<1> HIDE DEF T
<1>2. T \subseteq Nat
  BY DEF T
<1>3. T = {}
  BY <1>1, <1>2, Descent
<1>4. Len(s) \in Nat
  OBVIOUS
<1> QED BY <1>3, <1>4 DEF T

\* Turned round.
LEMMA TurnedRound ==
  ASSUME NEW s \in Seq(Nat)
  PROVE  /\ Reverse(s) \in Seq(Nat) /\ Len(Reverse(s)) = Len(s) /\ ToSet(Reverse(s)) = ToSet(s)
         /\ Rising(s) => Falling(Reverse(s))
         /\ \A i \in 1..Len(s) : Reverse(s)[i] = s[Len(s) - i + 1]
<1>1. PICK n \in Nat : n = Len(s)
  OBVIOUS
<1>2. \A i \in 1..n : s[i] \in Nat /\ n - i + 1 \in 1..n
  BY <1>1
<1> DEFINE r == Reverse(s)
<1>3. r = [i \in 1..n |-> s[(n - i) + 1]]
  BY <1>1 DEF Reverse
<1>4. r \in Seq(Nat) /\ Len(r) = n /\ \A i \in 1..n : r[i] = s[n - i + 1]
  <2>1. r \in [1..n -> Nat]
    BY <1>2, <1>3
  <2> QED BY <1>3, <2>1
<1> HIDE DEF r
<1>5. ToSet(r) = ToSet(s)
  <2>1. \A x : x \in ToSet(s) <=> \E i \in 1..n : s[i] = x
    BY <1>1, Elements
  <2>2. \A x : x \in ToSet(r) <=> \E i \in 1..n : r[i] = x
    BY <1>4, Elements
  <2>3. ASSUME NEW i \in 1..n PROVE \E j \in 1..n : r[j] = s[i]
    <3>1. n - i + 1 \in 1..n /\ n - (n - i + 1) + 1 = i
      OBVIOUS
    <3> QED BY <1>4, <3>1
  <2> QED BY <1>2, <1>4, <2>1, <2>2, <2>3
<1>6. ASSUME Rising(s) PROVE Falling(r)
  <2>1. \A i, j \in 1..n : i < j => n - j + 1 < n - i + 1
    OBVIOUS
  <2>2. \A i, j \in 1..n : i < j => s[i] < s[j]
    BY <1>1, <1>6 DEF Rising
  <2>3. \A i, j \in 1..n : i < j => s[n - j + 1] < s[n - i + 1]
    BY <1>2, <2>1, <2>2
  <2>4. DOMAIN r = 1..n
    BY <1>4
  <2>5. \A i, j \in 1..n : i < j => r[i] > r[j]
    BY <1>2, <1>4, <2>3
  <2> QED BY <2>4, <2>5 DEF Falling
<1> QED BY <1>1, <1>4, <1>5, <1>6 DEF r

\* Of records in falling order, those above all the others are the first ones.
LEMMA NewestFirst ==
  ASSUME NEW p \in Seq(Nat), NEW r \in Seq(Nat), Falling(p), Falling(r), ToSet(p) \subseteq ToSet(r),
         \A x \in ToSet(r) \ ToSet(p), y \in ToSet(p) : x < y
  PROVE  Len(p) <= Len(r) /\ \A i \in 1..Len(p) : p[i] = r[i]
<1>1. PICK m, n \in Nat : m = Len(p) /\ n = Len(r)
  OBVIOUS
<1>2. /\ \A x : x \in ToSet(p) <=> \E i \in 1..m : p[i] = x
      /\ \A x : x \in ToSet(r) <=> \E i \in 1..n : r[i] = x
  BY <1>1, Elements
<1>3. /\ \A i, j \in 1..m : i < j => p[i] > p[j]
      /\ \A i, j \in 1..n : i < j => r[i] > r[j]
      /\ \A i \in 1..m : p[i] \in Nat
      /\ \A i \in 1..n : r[i] \in Nat
  <2>1. DOMAIN p = 1..m /\ DOMAIN r = 1..n
    BY <1>1
  <2>2. (\A i \in 1..m : p[i] \in Nat) /\ (\A i \in 1..n : r[i] \in Nat)
    BY <1>1
  <2> QED BY <2>1, <2>2 DEF Falling
<1> DEFINE T == {i \in 1..m : i > n \/ p[i] # r[i]}
<1>4. ASSUME NEW i \in T PROVE \E j \in T : j < i
  <2> SUFFICES ASSUME \A j \in 1..m : j < i => j <= n /\ p[j] = r[j] PROVE FALSE
    OBVIOUS
  <2>1. PICK k \in 1..n : p[i] = r[k]
    BY <1>2
  <2>2. k >= i
    <3> SUFFICES ASSUME k < i PROVE FALSE
      OBVIOUS
    <3>1. k \in 1..m /\ p[k] = r[k] /\ p[k] > p[i] /\ p[k] \in Nat
      BY <1>3
    <3> QED BY <2>1, <3>1
  <2>3. i \in 1..n /\ p[i] # r[i]
    BY <2>2
  <2>4. k > i
    BY <2>1, <2>2, <2>3
  <2>5. r[i] > p[i]
    BY <1>3, <2>1, <2>3, <2>4
  <2>6. r[i] \notin ToSet(p)
    <3> SUFFICES ASSUME NEW j \in 1..m, p[j] = r[i] PROVE FALSE
      BY <1>2
    <3>1. CASE j < i
      <4>1. j \in 1..n /\ p[j] = r[j] /\ r[j] > r[i] /\ r[j] \in Nat
        BY <1>3, <2>3, <3>1
      <4> QED BY <4>1
    <3>2. CASE j = i
      BY <2>3, <3>2
    <3>3. CASE j > i
      <4>1. p[i] > p[j] /\ p[i] \in Nat /\ p[j] \in Nat
        BY <1>3, <3>3
      <4> QED BY <2>5, <4>1
    <3> QED BY <3>1, <3>2, <3>3
  <2>7. r[i] < p[i]
    BY <1>2, <2>3, <2>6
  <2> QED BY <1>3, <2>3, <2>5, <2>7
<1> HIDE DEF T
<1>5. T \subseteq Nat
  BY DEF T
<1>6. T = {}
  BY <1>4, <1>5, Descent
<1>7. \A i \in 1..m : i <= n /\ p[i] = r[i]
  <2>1. \A i \in 1..m : ~(i > n \/ p[i] # r[i])
    BY <1>6 DEF T
  <2> QED BY <2>1
<1>8. m <= n
  <2>1. CASE m = 0
    BY <2>1
  <2>2. CASE m # 0
    BY <1>7, <2>2
  <2> QED BY <2>1, <2>2
<1> QED BY <1>1, <1>7, <1>8

\* A set has one rising order.
LEMMA OneOrder ==
  ASSUME NEW a \in Seq(Nat), NEW b \in Seq(Nat), Rising(a), Rising(b), ToSet(a) = ToSet(b)
  PROVE  a = b
<1>1. /\ Reverse(a) \in Seq(Nat) /\ Len(Reverse(a)) = Len(a) /\ Falling(Reverse(a))
      /\ ToSet(Reverse(a)) = ToSet(a) /\ \A i \in 1..Len(a) : Reverse(a)[i] = a[Len(a) - i + 1]
  BY TurnedRound
<1>2. /\ Reverse(b) \in Seq(Nat) /\ Len(Reverse(b)) = Len(b) /\ Falling(Reverse(b))
      /\ ToSet(Reverse(b)) = ToSet(b) /\ \A i \in 1..Len(b) : Reverse(b)[i] = b[Len(b) - i + 1]
  BY TurnedRound
<1>3. Len(Reverse(a)) <= Len(Reverse(b)) /\ \A i \in 1..Len(Reverse(a)) : Reverse(a)[i] = Reverse(b)[i]
  <2>1. \A x \in ToSet(Reverse(b)) \ ToSet(Reverse(a)), y \in ToSet(Reverse(a)) : x < y
    BY <1>1, <1>2
  <2>2. Reverse(a) \in Seq(Nat) /\ Falling(Reverse(a))
    BY <1>1
  <2>3. Reverse(b) \in Seq(Nat) /\ Falling(Reverse(b))
    BY <1>2
  <2>4. ToSet(Reverse(a)) \subseteq ToSet(Reverse(b))
    BY <1>1, <1>2
  <2> QED BY <2>1, <2>2, <2>3, <2>4, NewestFirst
<1>4. Len(Reverse(b)) <= Len(Reverse(a))
  BY <1>1, <1>2, NewestFirst
<1>5. PICK n \in Nat : n = Len(a) /\ n = Len(b)
  BY <1>1, <1>2, <1>3, <1>4
<1>6. ASSUME NEW i \in 1..n PROVE a[i] = b[i]
  <2>1. n - i + 1 \in 1..n /\ n - (n - i + 1) + 1 = i
    OBVIOUS
  <2> QED BY <1>1, <1>2, <1>3, <1>5, <2>1
<1> QED BY <1>5, <1>6, SeqEqual

-----------------------------------------------------------------------------
(* Types. *)

\* What the file holds of records, and what one more line does to it.
LEMMA Lines ==
  ASSUME NEW f \in Seq(Nat)
  PROVE  /\ Records(f) \in Seq(Nat) /\ ToSet(Records(f)) = ToSet(f) \ {Broken}
         /\ \A x \in Nat : Records(Append(f, x)) =
               IF x = Broken THEN Records(f) ELSE Append(Records(f), x)
<1>1. Filtered(f, {Broken})
  BY FilterKeepsOrder
<1>2. ASSUME NEW x \in Nat
      PROVE  Records(Append(f, x)) = IF x = Broken THEN Records(f) ELSE Append(Records(f), x)
  BY WithoutLast DEF Records
<1> QED BY <1>1, <1>2 DEF Filtered, Records

\* Where an answer ends.
Upto(f, limit, offset) ==
  IF offset + limit <= Len(Records(f)) THEN offset + limit ELSE Len(Records(f))

\* What a query is answered with.
LEMMA Answers ==
  ASSUME NEW f \in Seq(Nat), NEW limit \in Nat, NEW offset \in Nat
  PROVE  /\ Recent(f, limit, offset) \in Seq(Nat)
         /\ Len(Recent(f, limit, offset))
              = IF offset < Upto(f, limit, offset) THEN Upto(f, limit, offset) - offset ELSE 0
         /\ \A i \in 1..(Upto(f, limit, offset) - offset) :
              Recent(f, limit, offset)[i] = Reverse(Records(f))[offset + i]
<1> DEFINE r == Reverse(Records(f))
<1>0. r \in Seq(Nat) /\ Len(r) = Len(Records(f))
  BY Lines, TurnedRound
<1> HIDE DEF r
<1>1. PICK n, m \in Nat : /\ n = Len(r) /\ m = Upto(f, limit, offset)
                          /\ m = IF offset + limit <= n THEN offset + limit ELSE n
  <2>1. PICK n \in Nat : n = Len(r) /\ n = Len(Records(f))
    BY <1>0
  <2>2. /\ Upto(f, limit, offset) \in Nat
        /\ Upto(f, limit, offset) = IF offset + limit <= n THEN offset + limit ELSE n
    BY <2>1 DEF Upto
  <2> QED BY <2>1, <2>2
<1>2. Min({offset + limit, n}) = m
  <2>1. PICK k \in Nat : k = offset + limit
    OBVIOUS
  <2>2. \A x \in {k, n} : (\A y \in {k, n} : x =< y) => x = m
    BY <1>1, <2>1
  <2>3. \E x \in {k, n} : \A y \in {k, n} : x =< y
    OBVIOUS
  <2>4. Min({k, n}) = m
    BY <2>2, <2>3 DEF Min
  <2> QED BY <2>1, <2>4
<1>3. Recent(f, limit, offset) = SubSeq(r, offset + 1, m)
  BY <1>1, <1>2 DEF Recent, r
<1>4. m <= n
  BY <1>1
<1>5. \A i \in (offset + 1)..m : r[i] \in Nat
  BY <1>0, <1>1, <1>4
<1>6. /\ SubSeq(r, offset + 1, m) \in Seq(Nat)
      /\ Len(SubSeq(r, offset + 1, m)) = IF offset + 1 <= m THEN m - (offset + 1) + 1 ELSE 0
      /\ \A i \in 1..(m - (offset + 1) + 1) : SubSeq(r, offset + 1, m)[i] = r[(offset + 1) + i - 1]
  BY <1>5, SubSeqProperties
<1> DEFINE q == SubSeq(r, offset + 1, m)
<1> HIDE DEF q
<1>7. /\ q \in Seq(Nat) /\ Len(q) = IF offset < m THEN m - offset ELSE 0
      /\ \A i \in 1..(m - offset) : q[i] = r[offset + i]
  BY <1>6 DEF q
<1> QED BY <1>1, <1>3, <1>7 DEF q, r

\* All that there is, or as many as are asked for.
LEMMA Newest ==
  ASSUME NEW f \in Seq(Nat), NEW limit \in Nat, limit <= Len(Records(f))
  PROVE  /\ Recent(f, limit, 0) \in Seq(Nat) /\ Len(Recent(f, limit, 0)) = limit
         /\ \A i \in 1..limit : Recent(f, limit, 0)[i] = Reverse(Records(f))[i]
<1>1. PICK n, o \in Nat : n = Len(Records(f)) /\ o = 0
  BY Lines
<1>2. Upto(f, limit, o) = limit
  BY <1>1 DEF Upto
<1>3. /\ Recent(f, limit, o) \in Seq(Nat)
      /\ Len(Recent(f, limit, o)) = IF o < limit THEN limit - o ELSE 0
      /\ \A i \in 1..(limit - o) : Recent(f, limit, o)[i] = Reverse(Records(f))[o + i]
  <2>1. /\ Recent(f, limit, o) \in Seq(Nat)
        /\ Len(Recent(f, limit, o)) = IF o < Upto(f, limit, o) THEN Upto(f, limit, o) - o ELSE 0
        /\ \A i \in 1..(Upto(f, limit, o) - o) : Recent(f, limit, o)[i] = Reverse(Records(f))[o + i]
    BY Answers
  <2> QED BY <1>2, <2>1
<1>4. limit - o = limit /\ (IF o < limit THEN limit - o ELSE 0) = limit /\ \A i \in 1..limit : o + i = i
  BY <1>1
<1> QED BY <1>1, <1>3, <1>4

\* The page takes in a batch.
LEMMA BatchTyped ==
  ASSUME TypeOK, NEW batch \in Seq(Nat), NEW offset \in Nat
  PROVE  /\ WithBatch(batch, offset) \in [records : Seq(Nat), exhausted : BOOLEAN, loading : BOOLEAN]
         /\ ToSet(WithBatch(batch, offset).records) \subseteq ToSet(page.records) \cup ToSet(batch)
<1> DEFINE w == Without(batch, ToSet(page.records))
<1>1. page.records \in Seq(Nat)
  BY DEF TypeOK
<1>2. w \in Seq(Nat) /\ ToSet(w) \subseteq ToSet(batch)
  BY FilterKeepsOrder DEF Filtered
<1> HIDE DEF w
<1>3. /\ page.records \o w \in Seq(Nat)
      /\ ToSet(page.records \o w) \subseteq ToSet(page.records) \cup ToSet(w)
  BY <1>1, <1>2 DEF ToSet
<1>4. (Len(batch) < PageSize) \in BOOLEAN
  OBVIOUS
<1> QED BY <1>1, <1>2, <1>3, <1>4 DEF WithBatch, w

LEMMA InitTyped == Init => TypeOK
<1>1. <<>> \in Seq(Nat) /\ 0 \in Nat /\ Query(0) \in Commands
  BY DEF Query, Commands
<1>2. <<Query(0)>> \in Seq(Commands)
  BY <1>1
<1>3. ASSUME Init PROVE page \in [records : Seq(Nat), exhausted : BOOLEAN, loading : BOOLEAN]
  BY <1>1, <1>3 DEF Init
<1>4. ASSUME Init PROVE commands \in Seq(Commands)
  BY <1>2, <1>4 DEF Init
<1> QED BY <1>1, <1>3, <1>4 DEF Init, TypeOK

\* A command that is asked is one more; the one that is answered is the first.
LEMMA Queue ==
  ASSUME TypeOK
  PROVE  /\ \A c \in Commands : Append(commands, c) \in Seq(Commands)
         /\ commands # <<>> => Tail(commands) \in Seq(Commands) /\ Head(commands) \in Commands
         /\ \A offset \in Nat : Query(offset) \in Commands
         /\ \A k \in {"history", "delete", "clear"}, n \in Nat : [kind |-> k, arg |-> n] \in Commands
<1>1. commands \in Seq(Commands)
  BY DEF TypeOK
<1>2. /\ \A c \in Commands : Append(commands, c) \in Seq(Commands)
      /\ commands # <<>> => Tail(commands) \in Seq(Commands) /\ Head(commands) \in Commands
  BY <1>1
<1>3. \A k \in {"history", "delete", "clear"}, n \in Nat : [kind |-> k, arg |-> n] \in Commands
  BY DEF Commands
<1>4. \A offset \in Nat : Query(offset) \in Commands
  BY <1>3 DEF Query
<1> QED BY <1>2, <1>3, <1>4

\* The records of a rewritten file.
LEMMA Rewritten ==
  ASSUME TypeOK, NEW id
  PROVE  /\ Without(Records(file), {id}) \in Seq(Nat) /\ Without(stored, {id}) \in Seq(Nat)
         /\ Without(page.records, {id}) \in Seq(Nat)
         /\ ToSet(Without(stored, {id})) = ToSet(stored) \ {id}
         /\ ToSet(Without(page.records, {id})) = ToSet(page.records) \ {id}
         /\ ToSet(Records(Without(Records(file), {id}))) = ToSet(Records(file)) \ {id}
         /\ Rising(stored) => Rising(Without(stored, {id}))
         /\ Falling(page.records) => Falling(Without(page.records, {id}))
         /\ Rising(Records(file)) => Rising(Records(Without(Records(file), {id})))
<1>1. file \in Seq(Nat) /\ stored \in Seq(Nat) /\ page.records \in Seq(Nat)
  BY DEF TypeOK
<1>2. Records(file) \in Seq(Nat) /\ ToSet(Records(file)) = ToSet(file) \ {Broken}
  BY <1>1, Lines
<1>3. Filtered(stored, {id}) /\ Filtered(page.records, {id}) /\ Filtered(Records(file), {id})
  BY <1>1, <1>2, FilterKeepsOrder
<1>4. Without(Records(file), {id}) \in Seq(Nat)
  BY <1>3 DEF Filtered
<1>5. Filtered(Without(Records(file), {id}), {Broken})
  BY <1>4, FilterKeepsOrder
<1>6. /\ ToSet(Records(Without(Records(file), {id}))) = ToSet(Without(Records(file), {id})) \ {Broken}
      /\ Rising(Without(Records(file), {id})) => Rising(Records(Without(Records(file), {id})))
  BY <1>5 DEF Filtered, Records
<1>7. ToSet(Without(Records(file), {id})) = ToSet(Records(file)) \ {id}
  BY <1>3 DEF Filtered
<1>8. ToSet(Records(Without(Records(file), {id}))) = ToSet(Records(file)) \ {id}
  BY <1>2, <1>6, <1>7
<1> QED BY <1>3, <1>4, <1>6, <1>8 DEF Filtered

\* What a query finds is in the file.
LEMMA Found ==
  ASSUME TypeOK, NEW offset \in Nat
  PROVE  /\ Recent(file, PageSize, offset) \in Seq(Nat)
         /\ ToSet(Recent(file, PageSize, offset)) \subseteq ToSet(Records(file))
<1>1. PICK r : r = Reverse(Records(file))
  OBVIOUS
<1>2. Records(file) \in Seq(Nat)
  BY Lines DEF TypeOK
<1>3. r \in Seq(Nat) /\ ToSet(r) = ToSet(Records(file))
  BY <1>1, <1>2, TurnedRound
<1>4. file \in Seq(Nat) /\ PageSize \in Nat /\ Len(r) = Len(Records(file))
  BY <1>1, <1>2, PagesHold, TurnedRound DEF TypeOK
<1>5. PICK q, m : q = Recent(file, PageSize, offset) /\ m = Upto(file, PageSize, offset)
  OBVIOUS
<1>6. /\ q \in Seq(Nat) /\ Len(q) = IF offset < m THEN m - offset ELSE 0
      /\ \A i \in 1..(m - offset) : q[i] = r[offset + i]
      /\ m \in Nat /\ m <= Len(r)
  <2>1. m \in Nat /\ m <= Len(r)
    <3>1. PICK n \in Nat : n = Len(r)
      BY <1>3
    <3>2. m = IF offset + PageSize <= n THEN offset + PageSize ELSE n
      BY <1>4, <1>5, <3>1 DEF Upto
    <3> QED BY <1>4, <3>1, <3>2
  <2> QED BY <1>1, <1>4, <1>5, <2>1, Answers
<1>7. ASSUME NEW i \in 1..Len(q) PROVE q[i] \in ToSet(r)
  <2>1. PICK n \in Nat : n = Len(r)
    BY <1>3
  <2>2. i \in 1..(m - offset) /\ m <= n
    BY <1>6, <2>1
  <2>3. offset + i \in 1..n
    BY <1>6, <2>2
  <2> QED BY <1>3, <1>6, <2>1, <2>2, <2>3, Elements
<1>8. ToSet(q) \subseteq ToSet(r)
  BY <1>6, <1>7, Elements
<1> QED BY <1>3, <1>5, <1>6, <1>8

\* One more line, on its own or made one with the last.
LEMMA Lengthened ==
  ASSUME TypeOK, NEW x \in Nat, Written(x)
  PROVE  /\ file' \in Seq(Nat)
         /\ ~torn => file' = Append(file, x)
         /\ torn /\ file # <<>> => \E u \in Seq(Nat), y \in Nat :
                file = Append(u, y) /\ file' = Append(u, Broken)
<1>1. file \in Seq(Nat) /\ torn \in BOOLEAN /\ Broken \in Nat
  BY DEF TypeOK, Broken
<1>2. file' = IF torn THEN Append(Front(file), Broken) ELSE Append(file, x)
  BY DEF Written
<1>3. ASSUME file # <<>>
      PROVE  \E u \in Seq(Nat), y \in Nat : file = Append(u, y) /\ Front(file) = u
  <2>1. PICK u \in Seq(Nat), y \in Nat : file = Append(u, y)
    BY <1>1, <1>3, SequenceEmptyOrAppend
  <2>2. PICK n \in Nat : n = Len(u) /\ Len(file) = n + 1 /\ \A i \in 1..n : file[i] = u[i]
    BY <2>1
  <2>3. Front(file) = SubSeq(file, 1, n)
    BY <2>2 DEF Front
  <2>4. SubSeq(file, 1, n) = u
    <3>1. \A i \in 1..n : file[i] \in Nat
      BY <1>1, <2>2
    <3>2. /\ SubSeq(file, 1, n) \in Seq(Nat) /\ Len(SubSeq(file, 1, n)) = n
          /\ \A i \in 1..n : SubSeq(file, 1, n)[i] = file[i]
      BY <1>1, <2>2, <3>1
    <3> QED BY <2>2, <3>2, SeqEqual
  <2> QED BY <2>1, <2>3, <2>4
<1>4. Front(file) \in Seq(Nat)
  <2>1. CASE file = <<>>
    BY <2>1 DEF Front
  <2>2. CASE file # <<>>
    BY <1>3, <2>2
  <2> QED BY <2>1, <2>2
<1>5. CASE ~torn
  <2>1. file' = Append(file, x)
    BY <1>2, <1>5
  <2>2. Append(file, x) \in Seq(Nat)
    BY <1>1
  <2> QED BY <1>5, <2>1, <2>2
<1>6. CASE torn
  <2>1. file' = Append(Front(file), Broken)
    BY <1>2, <1>6
  <2>2. Append(Front(file), Broken) \in Seq(Nat)
    BY <1>1, <1>4
  <2>3. ASSUME file # <<>>
        PROVE  \E u \in Seq(Nat), y \in Nat : file = Append(u, y) /\ file' = Append(u, Broken)
    <3>1. PICK u \in Seq(Nat), y \in Nat : file = Append(u, y) /\ Front(file) = u
      BY <1>3, <2>3
    <3>2. file' = Append(u, Broken)
      BY <2>1, <3>1
    <3> QED BY <3>1, <3>2
  <2> QED BY <1>6, <2>1, <2>2, <2>3
<1> QED BY <1>5, <1>6

LEMMA FileTyped ==
  ASSUME TypeOK, Appends \/ WriteTears
  PROVE  TypeOK'
<1>1. born + 1 \in Nat /\ tears + 1 \in Nat /\ Broken \in Nat
  BY DEF TypeOK, Broken
<1>2. Append(stored, born + 1) \in Seq(Nat) /\ Append(signals, born + 1) \in Seq(Nat)
  BY <1>1 DEF TypeOK
<1>3. CASE Appends
  <2>1. file' \in Seq(Nat)
    BY <1>1, <1>3, Lengthened DEF Appends
  <2> QED BY <1>1, <1>2, <1>3, <2>1 DEF Appends, TypeOK
<1>4. CASE WriteTears
  <2>1. file' \in Seq(Nat)
    BY <1>1, <1>4, Lengthened DEF WriteTears
  <2>2. garbled' \in BOOLEAN /\ raced' \in BOOLEAN
    BY <1>4 DEF WriteTears, TypeOK
  <2> QED BY <1>1, <1>4, <2>1, <2>2 DEF WriteTears, TypeOK
<1> QED BY <1>3, <1>4

LEMMA UserTyped ==
  ASSUME TypeOK, LoadMore \/ Reload \/ AsksDelete \/ AsksClear
  PROVE  TypeOK'
<1>1. Len(page.records) \in Nat /\ ToSet(page.records) \subseteq Nat /\ 0 \in Nat /\ <<>> \in Seq(Nat)
  BY Elements DEF TypeOK
<1>2. CASE LoadMore
  <2>1. commands' \in Seq(Commands)
    BY <1>1, <1>2, Queue DEF LoadMore, Ask
  <2>2. asked' \in Nat
    BY <1>2 DEF LoadMore, MayAsk, TypeOK
  <2> QED BY <1>2, <2>1, <2>2 DEF LoadMore, OnDisk, TypeOK
<1>3. CASE Reload
  <2>1. commands' \in Seq(Commands)
    BY <1>1, <1>3, Queue DEF Reload, Ask, TypeOK
  <2>2. page' \in [records : Seq(Nat), exhausted : BOOLEAN, loading : BOOLEAN] /\ raced' \in BOOLEAN
    BY <1>1, <1>3 DEF Reload
  <2>3. asked' \in Nat
    BY <1>3 DEF Reload, MayAsk, TypeOK
  <2> QED BY <1>3, <2>1, <2>2, <2>3 DEF Reload, OnDisk, TypeOK
<1>4. CASE AsksDelete \/ AsksClear
  <2>1. commands' \in Seq(Commands)
    BY <1>1, <1>4, Queue DEF AsksDelete, AsksClear, Ask
  <2>2. UNCHANGED <<OnDisk, signals, page, raced>>
    BY <1>4 DEF AsksDelete, AsksClear
  <2>3. asked' \in Nat
    BY <1>4 DEF AsksDelete, AsksClear, MayAsk, TypeOK
  <2> QED BY <2>1, <2>2, <2>3 DEF OnDisk, TypeOK
<1> QED BY <1>2, <1>3, <1>4

LEMMA WorkerTyped ==
  ASSUME TypeOK,
         HistoryAnswered \/ HistoryFails \/ DeleteAnswered \/ ClearAnswered \/ UtteranceHeard
  PROVE  TypeOK'
<1>1. page \in [records : Seq(Nat), exhausted : BOOLEAN, loading : BOOLEAN] /\ <<>> \in Seq(Nat)
  BY DEF TypeOK
<1>2. CASE HistoryAnswered
  <2>1. commands' \in Seq(Commands) /\ Head(commands).arg \in Nat
    BY <1>2, Queue DEF HistoryAnswered, Commands
  <2>2. page' \in [records : Seq(Nat), exhausted : BOOLEAN, loading : BOOLEAN]
    BY <1>2, <2>1, Found, BatchTyped DEF HistoryAnswered
  <2>3. raced' \in BOOLEAN
    BY <1>2 DEF HistoryAnswered, TypeOK
  <2> QED BY <1>2, <2>1, <2>2, <2>3 DEF HistoryAnswered, OnDisk, TypeOK
<1>3. CASE DeleteAnswered
  <2>1. commands' \in Seq(Commands)
    BY <1>3, Queue DEF DeleteAnswered
  <2>2. PICK id : id = Head(commands).arg
    OBVIOUS
  <2>3. CASE garbled \/ ~Contains(file, id)
    BY <1>3, <2>1, <2>2, <2>3 DEF DeleteAnswered, TypeOK
  <2>4. CASE ~garbled /\ Contains(file, id)
    <3>1. /\ Deleted(id) /\ raced' = (raced \/ Contains(signals, id))
          /\ page' = [page EXCEPT !.records = Without(@, {id})]
          /\ UNCHANGED <<garbled, born, tears, signals, asked>>
      BY <1>3, <2>2, <2>4 DEF DeleteAnswered
    <3>2. file' \in Seq(Nat) /\ stored' \in Seq(Nat) /\ torn' \in BOOLEAN
      BY <3>1, Rewritten DEF Deleted
    <3>3. page' \in [records : Seq(Nat), exhausted : BOOLEAN, loading : BOOLEAN]
      BY <1>1, <3>1, Rewritten
    <3>4. raced' \in BOOLEAN
      BY <3>1 DEF TypeOK
    <3> QED BY <2>1, <3>1, <3>2, <3>3, <3>4 DEF TypeOK
  <2> QED BY <2>3, <2>4
<1>4. CASE ClearAnswered
  <2>1. commands' \in Seq(Commands)
    BY <1>4, Queue DEF ClearAnswered
  <2> QED BY <1>1, <1>4, <2>1 DEF ClearAnswered, Cleared, TypeOK
<1>5. CASE UtteranceHeard
  <2>1. Tail(signals) \in Seq(Nat) /\ Head(signals) \in Nat
    BY <1>5 DEF UtteranceHeard, TypeOK
  <2>2. <<Head(signals)>> \o page.records \in Seq(Nat)
    BY <1>1, <2>1
  <2>3. page' \in [records : Seq(Nat), exhausted : BOOLEAN, loading : BOOLEAN]
    BY <1>1, <1>5, <2>2 DEF UtteranceHeard
  <2> QED BY <1>5, <2>1, <2>3 DEF UtteranceHeard, OnDisk, TypeOK
<1>6. CASE HistoryFails
  <2>1. commands' \in Seq(Commands)
    BY <1>6, Queue DEF HistoryFails
  <2> QED BY <1>6, <2>1 DEF HistoryFails, OnDisk, TypeOK
<1> QED BY <1>2, <1>3, <1>4, <1>5, <1>6

LEMMA NextTyped == TypeOK /\ [Next]_vars => TypeOK'
<1>1. CASE UNCHANGED vars
  BY <1>1 DEF vars, TypeOK
<1> QED BY <1>1, FileTyped, UserTyped, WorkerTyped DEF Next

\* history.rs, HistoryPage.qml: lines, records, commands and what the page shows are
\* what they should be, for any number of utterances, tears and wishes of the user.
THEOREM HistoryTyped == Spec => []TypeOK
  BY InitTyped, NextTyped, PTL DEF Spec

-----------------------------------------------------------------------------
(* What a torn write costs. *)

Readable == ToSet(Records(file))
Spent == Lost \cup Unreported
LastLine == file[Len(file)]

\* What was stored and what can be read are in the order they were said, and every tear
\* made at most the difference of one; the last was no loss as long as its line is open.
Filed ==
  /\ Rising(stored) /\ ToSet(stored) \subseteq 1..born
  /\ Rising(Records(file)) /\ Readable \subseteq 1..born
  /\ Cardinality(Spent) <= tears
  /\ torn => /\ file # <<>> /\ LastLine \notin ToSet(stored)
             /\ Cardinality(Spent \ {LastLine}) < tears

\* One more element counts one at most.
LEMMA OneMoreCounts ==
  ASSUME NEW S, NEW x, IsFiniteSet(S)
  PROVE  /\ Cardinality(S) \in Nat /\ Cardinality(S \cup {x}) \in Nat
         /\ Cardinality(S \cup {x}) <= Cardinality(S) + 1
<1>1. Cardinality(S) \in Nat
  BY FS_CardinalityType
<1>2. Cardinality(S \cup {x}) = IF x \in S THEN Cardinality(S) ELSE Cardinality(S) + 1
  BY FS_AddElement
<1> QED BY <1>1, <1>2

\* The difference is finite.
LEMMA SpentCounted ==
  ASSUME TypeOK, Filed
  PROVE  IsFiniteSet(Spent) /\ \A s : s \subseteq Spent =>
            IsFiniteSet(s) /\ Cardinality(s) \in Nat /\ Cardinality(s) <= Cardinality(Spent)
<1>1. IsFiniteSet(1..born)
  BY FS_Interval DEF TypeOK
<1>2. Spent \subseteq 1..born
  BY DEF Spent, Lost, Unreported, Filed, Readable
<1> QED BY <1>1, <1>2, FS_Subset, FS_CardinalityType

\* What can be read after a line that is newer than all, or none at all.
LEMMA Relined ==
  ASSUME TypeOK, Filed, NEW x \in Nat, x = Broken \/ x = born + 1, Written(x)
  PROVE  /\ file' \in Seq(Nat) /\ file' # <<>> /\ Rising(Records(file)')
         /\ ~torn => LastLine' = x /\ Readable' = IF x = Broken THEN Readable ELSE Readable \cup {x}
         /\ torn => LastLine' = Broken /\ Readable' = Readable \ {LastLine}
<1>1. file \in Seq(Nat) /\ born \in Nat /\ torn \in BOOLEAN /\ Broken \in Nat /\ Broken # born + 1
  BY DEF TypeOK, Broken
<1>2. \A r \in Readable : r < born + 1
  BY <1>1 DEF Filed
<1>3. CASE ~torn
  <2>1. file' = Append(file, x) /\ file' \in Seq(Nat)
    BY <1>3, Lengthened
  <2>2. Records(file)' = IF x = Broken THEN Records(file) ELSE Append(Records(file), x)
    BY <1>1, <2>1, Lines
  <2>3. Records(file) \in Seq(Nat)
    BY <1>1, Lines
  <2>4. LastLine' = x /\ file' # <<>>
    BY <1>1, <2>1 DEF LastLine
  <2>5. CASE x = Broken
    <3>1. Records(file)' = Records(file)
      BY <2>2, <2>5
    <3> QED BY <1>3, <2>1, <2>4, <2>5, <3>1 DEF Filed, Readable
  <2>6. CASE x = born + 1
    <3>1. Records(file)' = Append(Records(file), x)
      BY <1>1, <2>2, <2>6
    <3>2. Readable' = Readable \cup {x} /\ Rising(Records(file)')
      BY <1>2, <2>3, <2>6, <3>1, OneMore DEF Filed, Readable
    <3> QED BY <1>1, <1>3, <2>1, <2>4, <2>6, <3>2
  <2> QED BY <2>5, <2>6
<1>4. CASE torn
  <2>1. PICK u \in Seq(Nat), y \in Nat : file = Append(u, y) /\ file' = Append(u, Broken)
    BY <1>4, Lengthened DEF Filed
  <2>2. Records(file)' = Records(u) /\ Records(u) \in Seq(Nat) /\ Broken \notin ToSet(Records(u))
    <3>1. /\ Records(Append(u, Broken)) = Records(u) /\ Records(u) \in Seq(Nat)
          /\ Broken \notin ToSet(Records(u))
      BY <1>1, Lines
    <3> QED BY <2>1, <3>1
  <2>3. Records(file) = IF y = Broken THEN Records(u) ELSE Append(Records(u), y)
    BY <2>1, Lines
  <2>4. Rising(Records(u)) /\ ToSet(Records(u)) = Readable \ {y}
    <3>1. CASE y = Broken
      BY <2>2, <2>3, <3>1 DEF Filed, Readable
    <3>2. CASE y # Broken
      <4>1. Records(file) = Append(Records(u), y)
        BY <2>3, <3>2
      <4>2. /\ Readable = ToSet(Records(u)) \cup {y} /\ Rising(Records(u))
            /\ \A r \in ToSet(Records(u)) : r < y
        BY <2>2, <4>1, OneMore DEF Filed, Readable
      <4>3. y \notin ToSet(Records(u))
        BY <4>2
      <4> QED BY <4>2, <4>3
    <3> QED BY <3>1, <3>2
  <2>5. LastLine = y
    BY <2>1 DEF LastLine
  <2>6. Readable' = ToSet(Records(u)) /\ Rising(Records(file)')
    BY <2>2, <2>4 DEF Readable
  <2>7. file' \in Seq(Nat) /\ file' # <<>> /\ LastLine' = Broken
    BY <1>1, <2>1 DEF LastLine
  <2> QED BY <1>4, <2>4, <2>5, <2>6, <2>7
<1> QED BY <1>3, <1>4

\* A record that is appended is the newest, and can be read unless a tear spoils it.
LEMMA Appended ==
  ASSUME TypeOK, Filed, Appends
  PROVE  /\ born' \in Nat /\ born' = born + 1 /\ \A x \in 1..born : x < born'
         /\ Rising(stored') /\ ToSet(stored') = ToSet(stored) \cup {born'}
         /\ Rising(Records(file)')
         /\ Readable' = IF torn THEN Readable \ {LastLine} ELSE Readable \cup {born'}
<1>1. PICK b \in Nat : b = born + 1 /\ b = born' /\ b # Broken
  BY DEF Appends, TypeOK, Broken
<1>2. stored' = Append(stored, b) /\ Written(b) /\ stored \in Seq(Nat) /\ born \in Nat
  BY <1>1 DEF Appends, TypeOK
<1>3. \A x \in 1..born : x < b
  BY <1>1, <1>2
<1>4. Rising(stored') /\ ToSet(stored') = ToSet(stored) \cup {b}
  BY <1>2, <1>3, OneMore DEF Filed
<1> QED BY <1>1, <1>2, <1>3, <1>4, Relined

LEMMA AppendsFiled ==
  ASSUME TypeOK, Filed, Appends
  PROVE  Filed'
<1>1. PICK b : b = born'
  OBVIOUS
<1>2. /\ b \in Nat /\ b = born + 1 /\ \A x \in 1..born : x < b
      /\ Rising(stored') /\ ToSet(stored') = ToSet(stored) \cup {b}
      /\ Rising(Records(file)')
      /\ Readable' = IF torn THEN Readable \ {LastLine} ELSE Readable \cup {b}
  BY <1>1, Appended
<1>3. tears' = tears /\ torn' = FALSE /\ tears \in Nat /\ born \in Nat /\ torn \in BOOLEAN
  BY DEF Appends, TypeOK
<1>4. \A x \in 1..born \cup {b} : x \in 1..b
  BY <1>2, <1>3
<1>5. b \notin ToSet(stored) /\ b \notin Readable
  BY <1>2, <1>3 DEF Filed
<1>6. ToSet(stored') \subseteq 1..b /\ Readable' \subseteq 1..b
  BY <1>2, <1>4 DEF Filed
<1>7. CASE torn
  <2>1. LastLine \notin ToSet(stored) /\ Cardinality(Spent \ {LastLine}) < tears
    BY <1>7 DEF Filed
  <2>2. Spent' = (Spent \ {LastLine}) \cup {b}
    BY <1>2, <1>5, <1>7, <2>1 DEF Spent, Lost, Unreported, Readable
  <2>3. IsFiniteSet(Spent \ {LastLine}) /\ Cardinality(Spent \ {LastLine}) \in Nat
    BY SpentCounted
  <2>4. Cardinality(Spent') \in Nat /\ Cardinality(Spent') <= Cardinality(Spent \ {LastLine}) + 1
    <3>1. /\ Cardinality((Spent \ {LastLine}) \cup {b}) \in Nat
          /\ Cardinality((Spent \ {LastLine}) \cup {b}) <= Cardinality(Spent \ {LastLine}) + 1
      BY <2>3, OneMoreCounts
    <3> QED BY <2>2, <3>1, Zenon
  <2>5. Cardinality(Spent') <= tears
    BY <1>3, <2>1, <2>3, <2>4
  <2> QED BY <1>1, <1>2, <1>3, <1>6, <2>5 DEF Filed
<1>8. CASE ~torn
  <2>1. Spent' = Spent
    BY <1>2, <1>5, <1>8 DEF Spent, Lost, Unreported, Readable
  <2> QED BY <1>1, <1>2, <1>3, <1>6, <2>1 DEF Filed
<1> QED BY <1>7, <1>8

LEMMA TearFiled ==
  ASSUME TypeOK, Filed, WriteTears
  PROVE  Filed'
<1>1. PICK x \in Nat : (x = Broken \/ x = born + 1) /\ Written(x)
  BY DEF WriteTears, TypeOK, Broken
<1>2. /\ stored' = stored /\ tears' = tears + 1 /\ born' = born + 1 /\ torn' = TRUE
      /\ tears \in Nat /\ born \in Nat /\ torn \in BOOLEAN
  BY <1>1 DEF WriteTears, TypeOK
<1>3. /\ Rising(Records(file)') /\ file' # <<>>
      /\ ~torn => LastLine' = x /\ Readable' = IF x = Broken THEN Readable ELSE Readable \cup {x}
      /\ torn => LastLine' = Broken /\ Readable' = Readable \ {LastLine}
  BY <1>1, Relined
<1>4. \A r \in 1..born \cup {born + 1} : r \in 1..(born + 1)
  BY <1>2
<1>5. /\ \A r \in 1..born : r # born + 1 /\ r # 0
      /\ x \notin ToSet(stored) /\ Broken \notin ToSet(stored) /\ x \notin Readable
  <2>1. \A r \in 1..born : r # born + 1 /\ r # 0
    BY <1>2
  <2> QED BY <1>1, <2>1 DEF Filed, Broken
<1>6. ToSet(stored) \subseteq 1..(born + 1) /\ Readable' \subseteq 1..(born + 1)
  BY <1>1, <1>3, <1>4 DEF Filed
<1>7. IsFiniteSet(Spent) /\ Cardinality(Spent) \in Nat /\ Cardinality(Spent) <= tears
  BY SpentCounted DEF Filed
<1>8. LastLine' \notin ToSet(stored')
  BY <1>2, <1>3, <1>5
<1>9. CASE torn
  <2>1. LastLine \notin ToSet(stored) /\ Cardinality(Spent \ {LastLine}) < tears
    BY <1>9 DEF Filed
  <2>2. Spent' = Spent \ {LastLine}
    BY <1>2, <1>3, <1>9, <2>1 DEF Spent, Lost, Unreported, Readable
  <2>3. IsFiniteSet(Spent') /\ Cardinality(Spent') \in Nat
    BY <2>2, SpentCounted
  <2>4. Spent' \ {LastLine'} \subseteq Spent'
    OBVIOUS
  <2>5. Cardinality(Spent' \ {LastLine'}) \in Nat /\ Cardinality(Spent' \ {LastLine'}) <= Cardinality(Spent')
    BY <2>3, <2>4, FS_Subset, FS_CardinalityType
  <2>6. Cardinality(Spent') <= tears' /\ Cardinality(Spent' \ {LastLine'}) < tears'
    BY <1>2, <2>1, <2>2, <2>3, <2>5
  <2> QED BY <1>2, <1>3, <1>6, <1>8, <2>6 DEF Filed
<1>10. CASE ~torn
  <2>1. Spent' \ {LastLine'} \subseteq Spent /\ (Spent' = Spent \/ Spent' = Spent \cup {x})
    BY <1>2, <1>3, <1>5, <1>10 DEF Spent, Lost, Unreported, Readable
  <2>2. Cardinality(Spent' \ {LastLine'}) \in Nat /\ Cardinality(Spent' \ {LastLine'}) <= Cardinality(Spent)
    BY <2>1, SpentCounted
  <2>3. Cardinality(Spent') \in Nat /\ Cardinality(Spent') <= Cardinality(Spent) + 1
    <3>1. Cardinality(Spent \cup {x}) \in Nat /\ Cardinality(Spent \cup {x}) <= Cardinality(Spent) + 1
      BY <1>7, OneMoreCounts
    <3>2. Cardinality(Spent) <= Cardinality(Spent) + 1
      BY <1>7
    <3> QED BY <1>7, <2>1, <3>1, <3>2, Zenon
  <2>4. Cardinality(Spent') <= tears' /\ Cardinality(Spent' \ {LastLine'}) < tears'
    BY <1>2, <1>7, <2>2, <2>3
  <2> QED BY <1>2, <1>3, <1>6, <1>8, <2>4 DEF Filed
<1> QED BY <1>9, <1>10

LEMMA DeleteFiled ==
  ASSUME TypeOK, Filed, NEW id, Deleted(id), UNCHANGED <<born, tears>>
  PROVE  Filed'
<1>1. /\ Records(file)' = Records(Without(Records(file), {id})) /\ stored' = Without(stored, {id})
      /\ torn' = FALSE
  BY DEF Deleted
<1>2. ToSet(stored') = ToSet(stored) \ {id} /\ Readable' = Readable \ {id}
  BY <1>1, Rewritten DEF Readable
<1>3. Rising(stored') /\ Rising(Records(file)')
  BY <1>1, Rewritten DEF Filed
<1>4. Spent' \subseteq Spent
  BY <1>2 DEF Spent, Lost, Unreported, Readable
<1>5. Cardinality(Spent) \in Nat /\ Cardinality(Spent') \in Nat /\ Cardinality(Spent') <= Cardinality(Spent)
  BY <1>4, SpentCounted
<1>6. Cardinality(Spent') <= tears
  BY <1>5 DEF Filed, TypeOK
<1> QED BY <1>1, <1>2, <1>3, <1>6 DEF Filed

LEMMA ClearFiled ==
  ASSUME TypeOK, Cleared, UNCHANGED <<born, tears>>
  PROVE  Filed'
<1>1. Records(<<>>) = <<>>
  <2>1. <<>> \in Seq(Nat) /\ 0 \in Nat
    OBVIOUS
  <2> QED BY <2>1, WithoutLast DEF Records
<1>2. file' = <<>> /\ stored' = <<>> /\ torn' = FALSE /\ Records(file)' = <<>>
  BY <1>1 DEF Cleared
<1>3. ToSet(<<>>) = {} /\ Rising(<<>>)
  BY DEF ToSet, Rising
<1>4. Spent' = {} /\ Readable' = {}
  BY <1>2, <1>3 DEF Spent, Lost, Unreported, Readable
<1>5. Cardinality({}) = 0
  BY FS_EmptySet
<1> QED BY <1>2, <1>3, <1>4, <1>5 DEF Filed, TypeOK

LEMMA NextFiled == TypeOK /\ Filed /\ [Next]_vars => Filed'
<1> SUFFICES ASSUME TypeOK, Filed, [Next]_vars PROVE Filed'
  OBVIOUS
<1>1. CASE UNCHANGED <<file, torn, stored, born, tears>>
  BY <1>1 DEF Filed, Readable, Spent, Lost, Unreported, LastLine, Records
<1>2. CASE DeleteAnswered
  <2>1. PICK id : id = Head(commands).arg
    OBVIOUS
  <2>2. CASE ~garbled /\ Contains(file, id)
    <3>1. Deleted(id) /\ UNCHANGED <<born, tears>>
      BY <1>2, <2>1, <2>2 DEF DeleteAnswered
    <3> QED BY <3>1, DeleteFiled
  <2>3. CASE garbled \/ ~Contains(file, id)
    BY <1>1, <1>2, <2>1, <2>3 DEF DeleteAnswered
  <2> QED BY <2>2, <2>3
<1>3. CASE ClearAnswered
  BY <1>3, ClearFiled DEF ClearAnswered
<1>4. CASE LoadMore \/ Reload \/ AsksDelete \/ AsksClear
  BY <1>1, <1>4 DEF LoadMore, Reload, AsksDelete, AsksClear, OnDisk
<1>6. CASE HistoryAnswered \/ HistoryFails \/ UtteranceHeard
  BY <1>1, <1>6 DEF HistoryAnswered, HistoryFails, UtteranceHeard, OnDisk
<1>5. CASE UNCHANGED vars
  BY <1>1, <1>5 DEF vars
<1> QED BY <1>2, <1>3, <1>4, <1>5, <1>6, AppendsFiled, TearFiled DEF Next

\* What is left of the stored records without the lost ones is what can be read of them.
LEMMA FiledIsEnough == TypeOK /\ Filed => TearsCostOne
<1> SUFFICES ASSUME TypeOK, Filed
             PROVE  /\ torn => Cardinality(Lost) < tears
                    /\ Without(stored, Lost) = Without(Records(file), Unreported)
  BY DEF Filed, Spent, TearsCostOne
<1>0. ASSUME torn PROVE Cardinality(Lost) < tears
  <2>1. Cardinality(Spent \ {LastLine}) < tears /\ LastLine \notin ToSet(stored)
    BY <1>0 DEF Filed
  <2>2. Lost \subseteq Spent \ {LastLine} /\ tears \in Nat
    BY <2>1 DEF Spent, Lost, TypeOK
  <2>3. IsFiniteSet(Spent \ {LastLine}) /\ Cardinality(Spent \ {LastLine}) \in Nat
    BY SpentCounted
  <2>4. Cardinality(Lost) \in Nat /\ Cardinality(Lost) <= Cardinality(Spent \ {LastLine})
    BY <2>2, <2>3, FS_Subset, FS_CardinalityType
  <2> QED BY <2>1, <2>2, <2>3, <2>4
<1>1. Records(file) \in Seq(Nat) /\ stored \in Seq(Nat)
  BY Lines DEF TypeOK
<1>2. Filtered(stored, Lost) /\ Filtered(Records(file), Unreported)
  BY <1>1, FilterKeepsOrder
<1>3. /\ Without(stored, Lost) \in Seq(Nat) /\ ToSet(Without(stored, Lost)) = ToSet(stored) \ Lost
      /\ Rising(Without(stored, Lost))
  BY <1>2 DEF Filtered, Filed
<1>4. /\ Without(Records(file), Unreported) \in Seq(Nat)
      /\ ToSet(Without(Records(file), Unreported)) = ToSet(Records(file)) \ Unreported
      /\ Rising(Without(Records(file), Unreported))
  BY <1>2 DEF Filtered, Filed
<1>5. ToSet(stored) \ Lost = ToSet(Records(file)) \ Unreported
  BY DEF Lost, Unreported
<1>6. Without(stored, Lost) = Without(Records(file), Unreported)
  BY <1>3, <1>4, <1>5, OneOrder
<1> QED BY <1>0, <1>6

LEMMA InitFiled == Init => Filed
<1> SUFFICES ASSUME Init PROVE Filed
  OBVIOUS
<1>1. Records(<<>>) = <<>>
  <2>1. <<>> \in Seq(Nat) /\ 0 \in Nat
    OBVIOUS
  <2> QED BY <2>1, WithoutLast DEF Records
<1>2. file = <<>> /\ stored = <<>> /\ torn = FALSE /\ Records(file) = <<>> /\ tears = 0
  BY <1>1 DEF Init
<1>3. ToSet(<<>>) = {} /\ Rising(<<>>)
  BY DEF ToSet, Rising
<1>4. Spent = {} /\ Readable = {}
  BY <1>2, <1>3 DEF Spent, Lost, Unreported, Readable
<1> QED BY <1>2, <1>3, <1>4, FS_EmptySet DEF Filed

\* history.rs: as long as no write was cut inside a character since the file was last
\* cleared, a write that tears costs at most one record that was stored, the one whose
\* line it spoils, or leaves its own unreported; whatever is appended, deleted and
\* cleared, all the others are read, in the order they were said.
THEOREM TearsAreCheap == Spec => []TearsCostOne
<1>1. Init => TypeOK /\ Filed
  BY InitTyped, InitFiled
<1>2. TypeOK /\ Filed /\ [Next]_vars => (TypeOK /\ Filed)'
  BY NextTyped, NextFiled
<1> QED BY <1>1, <1>2, FiledIsEnough, PTL DEF Spec

-----------------------------------------------------------------------------
(* The queries of the page. *)

Queries == {i \in DOMAIN commands : commands[i].kind = "history"}

\* The page waits for one batch, or for none; or for one that could not be read.
Awaited ==
  /\ Queries # {} => page.loading
  /\ page.loading => Queries # {} \/ raced
  /\ \A i, j \in Queries : i = j

FromTheTop == \A i \in Queries : commands[i].arg = 0

LEMMA Asked ==
  ASSUME TypeOK, Awaited, NEW c \in Commands, commands' = Append(commands, c)
  PROVE  /\ c.kind # "history" /\ page'.loading = page.loading /\ raced' = raced
              => Awaited' /\ (FromTheTop => FromTheTop')
         /\ c.kind = "history" /\ ~page.loading /\ page'.loading
              => Awaited' /\ (c.arg = 0 => FromTheTop')
<1>1. PICK n \in Nat : n = Len(commands)
  BY DEF TypeOK
<1>2. /\ DOMAIN commands = 1..n /\ DOMAIN commands' = 1..(n + 1) /\ commands'[n + 1] = c
      /\ \A i \in 1..n : commands'[i] = commands[i]
  BY <1>1 DEF TypeOK
<1>3. \A i : i \in 1..(n + 1) <=> i \in 1..n \/ i = n + 1
  BY <1>1
<1>4. n + 1 \notin 1..n
  BY <1>1
<1>5. ASSUME c.kind # "history", page'.loading = page.loading, raced' = raced
      PROVE  Awaited' /\ (FromTheTop => FromTheTop')
  <2>1. \A i : i \in Queries' <=> i \in Queries
    BY <1>2, <1>3, <1>5 DEF Queries
  <2>2. \A i \in Queries : commands'[i] = commands[i]
    BY <1>2 DEF Queries
  <2> QED BY <1>5, <2>1, <2>2 DEF Awaited, FromTheTop
<1>6. ASSUME c.kind = "history", ~page.loading, page'.loading
      PROVE  Awaited' /\ (c.arg = 0 => FromTheTop')
  <2>1. \A i : i \notin Queries
    BY <1>6 DEF Awaited
  <2>2. \A i : i \in Queries' <=> i = n + 1
    BY <1>2, <1>3, <1>4, <1>6, <2>1 DEF Queries
  <2> QED BY <1>2, <1>6, <2>2 DEF Awaited, FromTheTop
<1> QED BY <1>5, <1>6

LEMMA Served ==
  ASSUME TypeOK, Awaited, commands # <<>>, commands' = Tail(commands)
  PROVE  /\ Head(commands).kind # "history" /\ page'.loading = page.loading /\ (raced => raced')
              => Awaited' /\ (FromTheTop => FromTheTop')
         /\ Head(commands).kind = "history" /\ (page'.loading => raced') => Awaited'
         /\ Head(commands).kind = "history"
              => page.loading /\ (FromTheTop => Head(commands).arg = 0)
<1>1. PICK n \in Nat : n = Len(commands) /\ n # 0
  BY DEF TypeOK
<1>2. /\ DOMAIN commands = 1..n /\ DOMAIN commands' = 1..(n - 1) /\ Head(commands) = commands[1]
      /\ \A i \in 1..(n - 1) : commands'[i] = commands[i + 1]
  BY <1>1 DEF TypeOK
<1>3. \A i \in 1..(n - 1) : i + 1 \in 1..n /\ i + 1 # 1 /\ (i + 1) - 1 = i /\ i \in Nat
  BY <1>1
<1>4. \A i \in 1..n : i # 1 => i - 1 \in 1..(n - 1) /\ (i - 1) + 1 = i
  BY <1>1
<1>5. 1 \in 1..n
  BY <1>1
<1>6. \A i \in Queries' : i \in 1..(n - 1) /\ i + 1 \in Queries
  BY <1>2, <1>3 DEF Queries
<1>7. \A i \in Queries : i # 1 => i - 1 \in Queries'
  BY <1>2, <1>4 DEF Queries
<1>8. 1 \in Queries <=> Head(commands).kind = "history"
  BY <1>2, <1>5 DEF Queries
<1>9. ASSUME Head(commands).kind # "history", page'.loading = page.loading, raced => raced'
      PROVE  Awaited' /\ (FromTheTop => FromTheTop')
  <2>1. Queries' = {} <=> Queries = {}
    BY <1>6, <1>7, <1>8, <1>9
  <2>2. ASSUME NEW i \in Queries', NEW j \in Queries' PROVE i = j
    <3>1. i + 1 = j + 1
      BY <1>6 DEF Awaited
    <3> QED BY <1>3, <1>6, <3>1
  <2>3. FromTheTop => FromTheTop'
    BY <1>2, <1>6 DEF FromTheTop
  <2> QED BY <1>9, <2>1, <2>2, <2>3 DEF Awaited
<1>10. ASSUME Head(commands).kind = "history" PROVE Queries' = {}
  <2> SUFFICES ASSUME NEW i \in Queries' PROVE FALSE
    OBVIOUS
  <2>1. i + 1 = 1
    BY <1>6, <1>8, <1>10 DEF Awaited
  <2> QED BY <1>3, <1>6, <2>1
<1>11. ASSUME Head(commands).kind = "history", page'.loading => raced' PROVE Awaited'
  BY <1>10, <1>11 DEF Awaited
<1>12. ASSUME Head(commands).kind = "history"
       PROVE  page.loading /\ (FromTheTop => Head(commands).arg = 0)
  BY <1>2, <1>8, <1>12 DEF Awaited, FromTheTop
<1> QED BY <1>9, <1>11, <1>12

\* What the user wishes is no query.
LEMMA Wishes ==
  ASSUME TypeOK, AsksDelete \/ AsksClear
  PROVE  \E c \in Commands : c.kind # "history" /\ commands' = Append(commands, c)
<1>1. ToSet(page.records) \subseteq Nat /\ 0 \in Nat
  BY Elements DEF TypeOK
<1>2. CASE AsksDelete
  <2>1. PICK id \in Nat : commands' = Append(commands, [kind |-> "delete", arg |-> id])
    BY <1>1, <1>2 DEF AsksDelete, Ask
  <2>2. [kind |-> "delete", arg |-> id] \in Commands /\ [kind |-> "delete", arg |-> id].kind # "history"
    BY DEF Commands
  <2> QED BY <2>1, <2>2
<1>3. CASE AsksClear
  <2>1. commands' = Append(commands, [kind |-> "clear", arg |-> 0])
    BY <1>3 DEF AsksClear, Ask
  <2>2. [kind |-> "clear", arg |-> 0] \in Commands /\ [kind |-> "clear", arg |-> 0].kind # "history"
    BY <1>1 DEF Commands
  <2> QED BY <2>1, <2>2
<1> QED BY <1>2, <1>3

LEMMA NextAwaits == TypeOK /\ Awaited /\ [Next]_vars => Awaited'
<1> SUFFICES ASSUME TypeOK, Awaited, [Next]_vars PROVE Awaited'
  OBVIOUS
<1>1. CASE UNCHANGED <<commands, page>> /\ (raced => raced')
  BY <1>1 DEF Awaited, Queries
<1>2. page \in [records : Seq(Nat), exhausted : BOOLEAN, loading : BOOLEAN]
  BY DEF TypeOK
<1>3. CASE LoadMore
  <2>1. PICK c \in Commands : c = Query(Len(page.records))
    <3>1. Len(page.records) \in Nat
      BY <1>2
    <3> QED BY <3>1, Queue
  <2>2. c.kind = "history" /\ ~page.loading /\ page'.loading /\ commands' = Append(commands, c)
    BY <1>2, <1>3, <2>1 DEF LoadMore, Ask, Query
  <2> QED BY <2>2, Asked
<1>4. CASE Reload
  <2>1. CASE page.loading
    <3>1. UNCHANGED commands /\ page'.loading /\ raced'
      BY <1>4, <2>1 DEF Reload
    <3> QED BY <2>1, <3>1 DEF Awaited, Queries
  <2>2. CASE ~page.loading
    <3>1. PICK c \in Commands : c = Query(0)
      BY Queue
    <3>2. c.kind = "history" /\ page'.loading /\ commands' = Append(commands, c)
      BY <1>4, <2>2, <3>1 DEF Reload, Ask, Query
    <3> QED BY <2>2, <3>2, Asked
  <2> QED BY <2>1, <2>2
<1>5. CASE AsksDelete \/ AsksClear
  <2>1. PICK c \in Commands : c.kind # "history" /\ commands' = Append(commands, c)
    BY <1>5, Wishes
  <2>2. page'.loading = page.loading /\ raced' = raced
    BY <1>5 DEF AsksDelete, AsksClear
  <2> QED BY <2>1, <2>2, Asked
<1>6. CASE HistoryAnswered
  <2>1. /\ commands # <<>> /\ Head(commands).kind = "history"
        /\ commands' = Tail(commands) /\ ~page'.loading
    BY <1>6 DEF HistoryAnswered, WithBatch
  <2> QED BY <2>1, Served
<1>7. CASE DeleteAnswered \/ ClearAnswered
  <2>1. commands # <<>> /\ Head(commands).kind # "history" /\ commands' = Tail(commands)
    BY <1>7 DEF DeleteAnswered, ClearAnswered
  <2>2. page'.loading = page.loading /\ (raced => raced')
    BY <1>2, <1>7 DEF DeleteAnswered, ClearAnswered
  <2> QED BY <2>1, <2>2, Served
<1>8. CASE Appends \/ WriteTears
  BY <1>1, <1>8 DEF Appends, WriteTears
<1>9. CASE UtteranceHeard
  <2>1. UNCHANGED <<commands, raced>> /\ page'.loading = page.loading
    BY <1>2, <1>9 DEF UtteranceHeard
  <2> QED BY <2>1 DEF Awaited, Queries
<1>10. CASE UNCHANGED vars
  BY <1>1, <1>10 DEF vars
<1>11. CASE HistoryFails
  <2>1. commands # <<>> /\ Head(commands).kind = "history" /\ commands' = Tail(commands) /\ raced'
    BY <1>11 DEF HistoryFails
  <2> QED BY <2>1, Served
<1> QED BY <1>3, <1>4, <1>5, <1>6, <1>7, <1>8, <1>9, <1>10, <1>11 DEF Next

LEMMA InitAwaits == Init => Awaited
<1> SUFFICES ASSUME Init PROVE Awaited
  OBVIOUS
<1>1. commands = <<Query(0)>> /\ page.loading
  BY DEF Init
<1>2. DOMAIN commands = {1} /\ commands[1].kind = "history"
  BY <1>1 DEF Query
<1> QED BY <1>1, <1>2 DEF Awaited, Queries

-----------------------------------------------------------------------------
(* The signals. *)

\* What is announced is in the order it was said.
Announced == Rising(signals) /\ ToSet(signals) \subseteq 1..born

\* The first of rising records comes off, and goes before falling ones.
LEMMA Passed ==
  ASSUME NEW s \in Seq(Nat), NEW p \in Seq(Nat), s # <<>>, Rising(s)
  PROVE  /\ Head(s) \in Nat /\ Tail(s) \in Seq(Nat) /\ Rising(Tail(s))
         /\ ToSet(s) = {Head(s)} \cup ToSet(Tail(s)) /\ \A x \in ToSet(Tail(s)) : Head(s) < x
         /\ ToSet(<<Head(s)>> \o p) = {Head(s)} \cup ToSet(p)
         /\ Falling(p) /\ (\A x \in ToSet(p) : x < Head(s)) => Falling(<<Head(s)>> \o p)
<1>1. PICK n, m \in Nat : n = Len(s) /\ n # 0 /\ m = Len(p)
  OBVIOUS
<1>2. PICK h \in Nat : h = Head(s) /\ h = s[1]
  BY <1>1
<1>3. PICK t \in Seq(Nat) : t = Tail(s) /\ Len(t) = n - 1 /\ \A i \in 1..(n - 1) : t[i] = s[i + 1]
  <2>1. Tail(s) \in Seq(Nat) /\ Len(Tail(s)) = n - 1
    BY <1>1
  <2>2. \A i \in 1..(n - 1) : Tail(s)[i] = s[i + 1]
    BY <1>1, <2>1
  <2> QED BY <2>1, <2>2, Zenon
<1>4. PICK q \in Seq(Nat) : /\ q = <<h>> \o p /\ Len(q) = m + 1 /\ q[1] = h
                            /\ \A i \in 1..m : q[i + 1] = p[i]
  <2>1. <<h>> \in Seq(Nat) /\ Len(<<h>>) = 1 /\ <<h>>[1] = h
    OBVIOUS
  <2>2. /\ <<h>> \o p \in Seq(Nat) /\ Len(<<h>> \o p) = 1 + m
        /\ \A i \in 1..(1 + m) : (<<h>> \o p)[i] = IF i <= 1 THEN <<h>>[i] ELSE p[i - 1]
    BY <1>1, <2>1, ConcatProperties
  <2>3. 1 \in 1..(1 + m) /\ 1 <= 1
    OBVIOUS
  <2>4. \A i \in 1..m : i + 1 \in 1..(1 + m) /\ ~(i + 1 <= 1) /\ (i + 1) - 1 = i
    OBVIOUS
  <2>5. (<<h>> \o p)[1] = h /\ \A i \in 1..m : (<<h>> \o p)[i + 1] = p[i]
    BY <2>1, <2>2, <2>3, <2>4
  <2>6. 1 + m = m + 1
    OBVIOUS
  <2> QED BY <2>2, <2>5, <2>6, Zenon
<1>5. \A i \in 1..n : s[i] \in Nat
  BY <1>1
<1>6. \A i \in 1..m : p[i] \in Nat
  BY <1>1
<1>7. \A i \in 1..(n - 1) : i + 1 \in 1..n /\ 1 < i + 1
  OBVIOUS
<1>8. 1 \in 1..n /\ \A i \in 1..n : i = 1 \/ (i - 1 \in 1..(n - 1) /\ (i - 1) + 1 = i)
  BY <1>1
<1>9. \A i, j \in 1..n : i < j => s[i] < s[j]
  <2>1. DOMAIN s = 1..n
    BY <1>1
  <2> QED BY <2>1 DEF Rising
<1>10. /\ \A x : x \in ToSet(s) <=> \E i \in 1..n : s[i] = x
       /\ \A x : x \in ToSet(t) <=> \E i \in 1..(n - 1) : t[i] = x
       /\ \A x : x \in ToSet(p) <=> \E i \in 1..m : p[i] = x
       /\ \A x : x \in ToSet(q) <=> \E i \in 1..(m + 1) : q[i] = x
  <2>1. Len(s) = n /\ Len(t) = n - 1 /\ Len(p) = m /\ Len(q) = m + 1
    BY <1>1, <1>3, <1>4
  <2>2. \A u \in Seq(Nat) : \A x : x \in ToSet(u) <=> \E i \in 1..Len(u) : u[i] = x
    BY Elements
  <2> QED BY <2>1, <2>2, Zenon
<1>11. Rising(t)
  <2>1. \A i, j \in 1..(n - 1) : i < j => t[i] < t[j]
    BY <1>3, <1>7, <1>9
  <2>2. DOMAIN t = 1..(n - 1)
    BY <1>3
  <2> QED BY <2>1, <2>2 DEF Rising
<1>12. ToSet(s) = {h} \cup ToSet(t) /\ \A x \in ToSet(t) : h < x
  <2>1. \A x \in ToSet(t) : x \in ToSet(s) /\ h < x
    BY <1>2, <1>3, <1>7, <1>8, <1>9, <1>10
  <2>2. \A x \in ToSet(s) : x = h \/ x \in ToSet(t)
    <3> SUFFICES ASSUME NEW i \in 1..n, i # 1 PROVE s[i] \in ToSet(t)
      BY <1>2, <1>10
    <3>1. i - 1 \in 1..(n - 1) /\ t[i - 1] = s[i]
      BY <1>3, <1>8
    <3> QED BY <1>10, <3>1
  <2>3. h \in ToSet(s)
    BY <1>2, <1>8, <1>10
  <2> QED BY <2>1, <2>2, <2>3
<1>13. \A i \in 1..m : i + 1 \in 1..(m + 1)
  OBVIOUS
<1>14. 1 \in 1..(m + 1) /\ \A i \in 1..(m + 1) : i = 1 \/ (i - 1 \in 1..m /\ (i - 1) + 1 = i)
  OBVIOUS
<1>15. ToSet(q) = {h} \cup ToSet(p)
  <2>1. \A x \in ToSet(q) : x = h \/ x \in ToSet(p)
    <3> SUFFICES ASSUME NEW i \in 1..(m + 1), i # 1 PROVE q[i] \in ToSet(p)
      BY <1>4, <1>10
    <3>1. i - 1 \in 1..m /\ q[i] = p[i - 1]
      BY <1>4, <1>14
    <3> QED BY <1>10, <3>1
  <2>2. h \in ToSet(q)
    BY <1>4, <1>10, <1>14
  <2>3. \A x \in ToSet(p) : x \in ToSet(q)
    BY <1>4, <1>10, <1>13
  <2> QED BY <2>1, <2>2, <2>3
<1>16. ASSUME Falling(p), \A x \in ToSet(p) : x < h PROVE Falling(q)
  <2>1. \A i, j \in 1..m : i < j => p[i] > p[j]
    <3>1. DOMAIN p = 1..m
      BY <1>1
    <3> QED BY <1>16, <3>1 DEF Falling
  <2>2. ASSUME NEW i \in 1..(m + 1), NEW j \in 1..(m + 1), i < j PROVE q[i] > q[j]
    <3>1. j - 1 \in 1..m /\ (j - 1) + 1 = j /\ q[j] = p[j - 1]
      BY <1>4, <1>14, <2>2
    <3>2. CASE i = 1
      <4>1. p[j - 1] \in ToSet(p) /\ p[j - 1] \in Nat
        BY <1>6, <1>10, <3>1
      <4> QED BY <1>4, <1>16, <3>1, <3>2, <4>1
    <3>3. CASE i # 1
      <4>1. i - 1 \in 1..m /\ (i - 1) + 1 = i /\ q[i] = p[i - 1] /\ i - 1 < j - 1
        BY <1>4, <1>14, <2>2, <3>3
      <4> QED BY <2>1, <3>1, <4>1
    <3> QED BY <3>2, <3>3
  <2>3. DOMAIN q = 1..(m + 1)
    BY <1>4
  <2> QED BY <2>2, <2>3 DEF Falling
<1> QED BY <1>2, <1>3, <1>4, <1>11, <1>12, <1>15, <1>16

LEMMA AppendsAnnounced ==
  ASSUME TypeOK, Filed, Announced, Appends
  PROVE  Announced' /\ ToSet(signals') = ToSet(signals) \cup {born'}
<1>1. PICK b : b = born'
  OBVIOUS
<1>2. b \in Nat /\ b = born + 1 /\ \A x \in 1..born : x < b
  BY <1>1, Appended
<1>3. signals' = Append(signals, b) /\ signals \in Seq(Nat) /\ born \in Nat
  BY <1>1 DEF Appends, TypeOK
<1>4. \A x \in 1..born \cup {b} : x \in 1..b
  BY <1>2, <1>3
<1>5. ToSet(signals') = ToSet(signals) \cup {b} /\ Rising(signals')
  BY <1>2, <1>3, OneMore DEF Announced
<1>6. ToSet(signals') \subseteq 1..b
  BY <1>4, <1>5 DEF Announced
<1> QED BY <1>1, <1>5, <1>6 DEF Announced

LEMMA NextAnnounces == TypeOK /\ Filed /\ Announced /\ [Next]_vars => Announced'
<1> SUFFICES ASSUME TypeOK, Filed, Announced, [Next]_vars PROVE Announced'
  OBVIOUS
<1>1. CASE UNCHANGED <<signals, born>>
  BY <1>1 DEF Announced
<1>2. CASE WriteTears
  <2>1. UNCHANGED signals /\ born' = born + 1 /\ born \in Nat
    BY <1>2 DEF WriteTears, TypeOK
  <2>2. \A x \in 1..born : x \in 1..(born + 1)
    BY <2>1
  <2> QED BY <2>1, <2>2 DEF Announced
<1>3. CASE UtteranceHeard
  <2>1. Rising(Tail(signals)) /\ ToSet(signals) = {Head(signals)} \cup ToSet(Tail(signals))
    BY <1>3, Passed DEF UtteranceHeard, Announced, TypeOK
  <2>2. signals' = Tail(signals) /\ UNCHANGED born
    BY <1>3 DEF UtteranceHeard, OnDisk
  <2> QED BY <2>1, <2>2 DEF Announced
<1>4. CASE LoadMore \/ Reload \/ AsksDelete \/ AsksClear
  BY <1>1, <1>4 DEF LoadMore, Reload, AsksDelete, AsksClear, OnDisk
<1>5. CASE HistoryAnswered \/ HistoryFails \/ DeleteAnswered \/ ClearAnswered
  BY <1>1, <1>5 DEF HistoryAnswered, HistoryFails, DeleteAnswered, ClearAnswered, OnDisk
<1>6. CASE UNCHANGED vars
  BY <1>1, <1>6 DEF vars
<1> QED BY <1>2, <1>3, <1>4, <1>5, <1>6, AppendsAnnounced DEF Next

LEMMA InitAnnounces == Init => Announced
  BY DEF Init, Announced, Rising, ToSet

-----------------------------------------------------------------------------
(* The page. *)

\* Falling records go on with smaller ones.
LEMMA FallsOn ==
  ASSUME NEW p \in Seq(Nat), NEW w \in Seq(Nat), Falling(p), Falling(w),
         \A x \in ToSet(w), y \in ToSet(p) : x < y
  PROVE  p \o w \in Seq(Nat) /\ Falling(p \o w) /\ ToSet(p \o w) = ToSet(p) \cup ToSet(w)
<1>1. PICK m, n \in Nat : m = Len(p) /\ n = Len(w)
  OBVIOUS
<1>2. PICK q \in Seq(Nat) : /\ q = p \o w /\ Len(q) = m + n
                            /\ \A i \in 1..(m + n) : q[i] = IF i <= m THEN p[i] ELSE w[i - m]
  <2>1. /\ p \o w \in Seq(Nat) /\ Len(p \o w) = m + n
        /\ \A i \in 1..(m + n) : (p \o w)[i] = IF i <= m THEN p[i] ELSE w[i - m]
    BY <1>1, ConcatProperties
  <2> QED BY <2>1, Zenon
<1>3. /\ \A i, j \in 1..m : i < j => p[i] > p[j]
      /\ \A i, j \in 1..n : i < j => w[i] > w[j]
  <2>1. DOMAIN p = 1..m /\ DOMAIN w = 1..n
    BY <1>1
  <2> QED BY <2>1 DEF Falling
<1>4. /\ \A x : x \in ToSet(p) <=> \E i \in 1..m : p[i] = x
      /\ \A x : x \in ToSet(w) <=> \E i \in 1..n : w[i] = x
      /\ \A x : x \in ToSet(q) <=> \E i \in 1..(m + n) : q[i] = x
  <2>1. \A u \in Seq(Nat) : \A x : x \in ToSet(u) <=> \E i \in 1..Len(u) : u[i] = x
    BY Elements
  <2> QED BY <1>1, <1>2, <2>1, Zenon
<1>5. \A i \in 1..m : i \in 1..(m + n) /\ i <= m
  OBVIOUS
<1>6. \A i \in 1..n : i + m \in 1..(m + n) /\ ~(i + m <= m) /\ (i + m) - m = i
  OBVIOUS
<1>7. \A i \in 1..(m + n) : i \in 1..m \/ (~(i <= m) /\ i - m \in 1..n)
  OBVIOUS
<1>8. (\A i \in 1..m : p[i] \in Nat) /\ (\A i \in 1..n : w[i] \in Nat)
  BY <1>1
<1>9. \A i \in 1..m : q[i] = p[i]
  BY <1>2, <1>5
<1>10. \A i \in 1..(m + n) : i \notin 1..m => i - m \in 1..n /\ q[i] = w[i - m]
  BY <1>2, <1>7
<1>11. \A i \in 1..n : q[i + m] = w[i]
  BY <1>2, <1>6
<1>12. ToSet(q) = ToSet(p) \cup ToSet(w)
  <2>1. ASSUME NEW i \in 1..(m + n) PROVE q[i] \in ToSet(p) \cup ToSet(w)
    BY <1>4, <1>9, <1>10
  <2>2. ASSUME NEW i \in 1..m PROVE p[i] \in ToSet(q)
    BY <1>4, <1>5, <1>9
  <2>3. ASSUME NEW i \in 1..n PROVE w[i] \in ToSet(q)
    BY <1>4, <1>6, <1>11
  <2> QED BY <1>4, <2>1, <2>2, <2>3
<1>13. ASSUME NEW i \in 1..(m + n), NEW j \in 1..(m + n), i < j PROVE q[i] > q[j]
  <2>1. CASE j \in 1..m
    <3>1. i \in 1..m
      BY <1>13, <2>1
    <3> QED BY <1>3, <1>9, <1>13, <2>1, <3>1
  <2>2. CASE i \in 1..m /\ j \notin 1..m
    <3>1. q[i] \in ToSet(p) /\ q[i] \in Nat
      BY <1>4, <1>8, <1>9, <2>2
    <3>2. q[j] \in ToSet(w) /\ q[j] \in Nat
      BY <1>4, <1>8, <1>10, <2>2
    <3> QED BY <3>1, <3>2
  <2>3. CASE i \notin 1..m /\ j \notin 1..m
    <3>1. i - m \in 1..n /\ j - m \in 1..n /\ q[i] = w[i - m] /\ q[j] = w[j - m]
      BY <1>10, <2>3
    <3>2. i - m < j - m
      BY <1>13
    <3> QED BY <1>3, <3>1, <3>2
  <2>4. CASE i \notin 1..m /\ j \in 1..m
    BY <1>13, <2>4
  <2> QED BY <2>1, <2>2, <2>3, <2>4
<1>14. Falling(q)
  <2>1. DOMAIN q = 1..(m + n)
    BY <1>2
  <2> QED BY <1>13, <2>1 DEF Falling
<1> QED BY <1>2, <1>12, <1>14

\* The first records of r, and the batch of those that follow them.
Follows(b, p, r, k, m) ==
  /\ k = Len(p) /\ k <= m /\ m <= Len(r) /\ Len(b) = m - k
  /\ \A i \in 1..k : p[i] = r[i]
  /\ \A i \in 1..(m - k) : b[i] = r[k + i]

Firsts(r, m) == {r[i] : i \in 1..m}

\* Joined they are the first ones again.
LEMMA BatchJoins ==
  ASSUME NEW p \in Seq(Nat), NEW b \in Seq(Nat), NEW r \in Seq(Nat), Falling(p), Falling(r),
         NEW k \in Nat, NEW m \in Nat, Follows(b, p, r, k, m)
  PROVE  /\ Falling(b) /\ Falling(p \o Without(b, ToSet(p)))
         /\ p \o Without(b, ToSet(p)) \in Seq(Nat)
         /\ ToSet(p \o Without(b, ToSet(p))) = ToSet(p) \cup ToSet(b)
         /\ ToSet(p \o Without(b, ToSet(p))) = Firsts(r, m)
<1> DEFINE w == Without(b, ToSet(p))
<1>0. /\ k = Len(p) /\ k <= m /\ m <= Len(r) /\ Len(b) = m - k
      /\ \A i \in 1..k : p[i] = r[i]
      /\ \A i \in 1..(m - k) : b[i] = r[k + i]
  BY DEF Follows
<1> USE <1>0
<1>1. /\ \A x : x \in ToSet(p) <=> \E i \in 1..k : p[i] = x
      /\ \A x : x \in ToSet(b) <=> \E i \in 1..(m - k) : b[i] = x
  <2>1. /\ \A x : x \in ToSet(p) <=> \E i \in 1..Len(p) : p[i] = x
        /\ \A x : x \in ToSet(b) <=> \E i \in 1..Len(b) : b[i] = x
    BY Elements
  <2> QED BY <2>1
<1>2. \A i \in 1..m : i \in 1..k \/ (i - k \in 1..(m - k) /\ k + (i - k) = i)
  OBVIOUS
<1>3. \A i \in 1..k : i \in 1..m
  OBVIOUS
<1>4. \A i \in 1..(m - k) : k + i \in 1..m /\ k + i > k /\ i \in Int
  OBVIOUS
<1>5. \A i, j \in 1..m : i < j => r[i] > r[j]
  <2>1. \A i \in 1..m : i \in DOMAIN r
    OBVIOUS
  <2> QED BY <2>1 DEF Falling
<1>6. Falling(b)
  <2>1. DOMAIN b = 1..(m - k)
    OBVIOUS
  <2>2. \A i, j \in 1..(m - k) : i < j => k + i < k + j
    OBVIOUS
  <2>3. \A i, j \in 1..(m - k) : i < j => b[i] > b[j]
    BY <1>4, <1>5, <2>2
  <2> QED BY <2>1, <2>3 DEF Falling
<1>7. w \in Seq(Nat) /\ ToSet(w) = ToSet(b) \ ToSet(p) /\ Falling(w)
  BY <1>6, FilterKeepsOrder DEF Filtered
<1>8. ASSUME NEW x \in ToSet(b), NEW y \in ToSet(p) PROVE x < y
  <2>1. PICK i \in 1..(m - k) : b[i] = x
    BY <1>1
  <2>2. PICK j \in 1..k : p[j] = y
    BY <1>1
  <2>3. k + i \in 1..m /\ j \in 1..m /\ j < k + i
    BY <1>3, <1>4
  <2>4. r[k + i] \in Nat /\ r[j] \in Nat /\ r[j] > r[k + i]
    BY <1>5, <2>3
  <2> QED BY <2>1, <2>2, <2>4
<1> HIDE DEF w
<1>9. p \o w \in Seq(Nat) /\ Falling(p \o w) /\ ToSet(p \o w) = ToSet(p) \cup ToSet(w)
  BY <1>7, <1>8, FallsOn
<1>10. ToSet(p \o w) = ToSet(p) \cup ToSet(b)
  BY <1>7, <1>9
<1>11. ASSUME NEW y PROVE y \in ToSet(p) \cup ToSet(b) <=> \E j \in 1..m : r[j] = y
  <2>1. ASSUME NEW i \in 1..k, y = p[i] PROVE \E j \in 1..m : r[j] = y
    BY <1>3, <2>1
  <2>2. ASSUME NEW i \in 1..(m - k), y = b[i] PROVE \E j \in 1..m : r[j] = y
    BY <1>4, <2>2
  <2>3. ASSUME NEW j \in 1..m, r[j] = y PROVE y \in ToSet(p) \cup ToSet(b)
    <3>1. CASE j \in 1..k
      BY <1>1, <2>3, <3>1
    <3>2. CASE j \notin 1..k
      <4>1. j - k \in 1..(m - k) /\ b[j - k] = r[j]
        BY <1>2, <3>2
      <4> QED BY <1>1, <2>3, <4>1
    <3> QED BY <3>1, <3>2
  <2> QED BY <1>1, <2>1, <2>2, <2>3
<1>12. ToSet(p) \cup ToSet(b) = Firsts(r, m)
  BY <1>11 DEF Firsts
<1>13. ToSet(p \o w) = Firsts(r, m)
  BY <1>10, <1>12
<1> QED BY <1>6, <1>9, <1>10, <1>13 DEF w

\* What the page shows, and what it will show when it has heard everything.
Shown == ToSet(page.records) \cup ToSet(signals)

\* The newest records are shown or announced, with nothing left out between them.
Faithful ==
  /\ Falling(page.records) /\ Shown \subseteq Readable
  /\ \A r \in ToSet(page.records), s \in ToSet(signals) : r < s
  /\ \A r \in Readable \ Shown, s \in Shown : r < s
  /\ page.exhausted => Readable \subseteq Shown

\* A record is shown or announced while the first batch is awaited: the answer will
\* meet it.
Doomed == page.loading /\ FromTheTop /\ ~page.exhausted /\ Shown # {}

Showing ==
  /\ ToSet(page.records) \subseteq 1..born
  /\ ~raced => Faithful \/ Doomed

LEMMA AppendsShows ==
  ASSUME TypeOK, Filed, Announced, Showing, Appends
  PROVE  Showing'
<1>1. PICK b : b = born'
  OBVIOUS
<1>2. /\ b \in Nat /\ b = born + 1 /\ \A x \in 1..born : x < b
      /\ Readable' = IF torn THEN Readable \ {LastLine} ELSE Readable \cup {b}
  BY <1>1, Appended
<1>3. ToSet(signals') = ToSet(signals) \cup {b}
  BY <1>1, AppendsAnnounced
<1>4. page' = page /\ commands' = commands /\ raced' = (raced \/ torn) /\ born \in Nat
  BY DEF Appends, TypeOK
<1>5. \A x \in 1..born : x \in 1..b
  BY <1>2, <1>4
<1>6. Shown' = Shown \cup {b}
  BY <1>3, <1>4 DEF Shown
<1>7. \A x \in Shown : x < b
  BY <1>2 DEF Shown, Announced, Showing
<1>8. ToSet(page.records)' \subseteq 1..b
  BY <1>4, <1>5 DEF Showing
<1>9. ASSUME ~raced' PROVE Faithful' \/ Doomed'
  <2>1. ~raced /\ Readable' = Readable \cup {b}
    BY <1>2, <1>4, <1>9
  <2>2. \A x \in Readable : x < b
    BY <1>2 DEF Filed
  <2>3. CASE Faithful
    <3>1. Shown' \subseteq Readable'
      BY <1>6, <2>1, <2>3 DEF Faithful
    <3>2. \A r \in ToSet(page.records), s \in ToSet(signals') : r < s
      BY <1>3, <1>7, <2>3 DEF Faithful, Shown
    <3>3. \A r \in Readable' \ Shown', s \in Shown' : r < s
      BY <1>6, <2>1, <2>2, <2>3 DEF Faithful
    <3>4. page.exhausted => Readable' \subseteq Shown'
      BY <1>6, <2>1, <2>3 DEF Faithful
    <3>5. Faithful'
      BY <1>4, <2>3, <3>1, <3>2, <3>3, <3>4 DEF Faithful
    <3> QED BY <3>5
  <2>4. CASE Doomed
    <3>1. FromTheTop'
      BY <1>4, <2>4 DEF Doomed, FromTheTop, Queries
    <3> QED BY <1>4, <1>6, <2>4, <3>1 DEF Doomed
  <2> QED BY <2>1, <2>3, <2>4 DEF Showing
<1> QED BY <1>1, <1>8, <1>9 DEF Showing

LEMMA UserShows ==
  ASSUME TypeOK, Awaited, Announced, Showing, LoadMore \/ Reload \/ AsksDelete \/ AsksClear
  PROVE  Showing'
<1>1. UNCHANGED <<file, born, signals>> /\ Readable' = Readable
  BY DEF LoadMore, Reload, AsksDelete, AsksClear, OnDisk, Readable, Records
<1>2. page \in [records : Seq(Nat), exhausted : BOOLEAN, loading : BOOLEAN]
  BY DEF TypeOK
<1>3. CASE LoadMore
  <2>1. /\ ~page.loading /\ page'.records = page.records
        /\ page'.exhausted = page.exhausted /\ raced' = raced
    BY <1>2, <1>3 DEF LoadMore
  <2>2. Shown' = Shown
    BY <1>1, <2>1 DEF Shown
  <2>3. Faithful => Faithful'
    BY <1>1, <2>1, <2>2 DEF Faithful
  <2> QED BY <1>1, <2>1, <2>3 DEF Showing, Doomed
<1>4. CASE Reload
  <2>1. page' = [records |-> <<>>, exhausted |-> FALSE, loading |-> TRUE]
    BY <1>4 DEF Reload
  <2>2. ToSet(page'.records) = {} /\ Falling(page'.records) /\ page'.loading /\ ~page'.exhausted
    BY <2>1 DEF ToSet, Falling
  <2>3. Shown' = ToSet(signals)
    BY <1>1, <2>2 DEF Shown
  <2>4. CASE page.loading
    <3>1. raced'
      BY <1>4, <2>4 DEF Reload
    <3> QED BY <2>2, <3>1 DEF Showing
  <2>5. CASE ~page.loading
    <3>1. PICK c \in Commands : c = Query(0)
      BY Queue
    <3>2. c.kind = "history" /\ c.arg = 0 /\ commands' = Append(commands, c)
      BY <1>4, <2>5, <3>1 DEF Reload, Ask, Query
    <3>3. FromTheTop'
      BY <2>2, <2>5, <3>2, Asked
    <3>4. CASE Shown' = {}
      <4>1. ToSet(signals') = {}
        BY <1>1, <2>3, <3>4
      <4>2. Faithful'
        BY <2>2, <3>4, <4>1 DEF Faithful
      <4> QED BY <2>2, <4>2 DEF Showing
    <3>5. CASE Shown' # {}
      <4>1. Doomed'
        BY <2>2, <3>3, <3>5 DEF Doomed
      <4> QED BY <2>2, <4>1 DEF Showing
    <3> QED BY <3>4, <3>5
  <2> QED BY <2>4, <2>5
<1>5. CASE AsksDelete \/ AsksClear
  <2>1. UNCHANGED <<page, raced>>
    BY <1>5 DEF AsksDelete, AsksClear
  <2>2. PICK c \in Commands : c.kind # "history" /\ commands' = Append(commands, c)
    BY <1>5, Wishes
  <2>3. FromTheTop => FromTheTop'
    BY <2>1, <2>2, Asked
  <2>4. Shown' = Shown
    BY <1>1, <2>1 DEF Shown
  <2>5. Faithful => Faithful'
    BY <1>1, <2>1, <2>4 DEF Faithful
  <2>6. Doomed => Doomed'
    BY <1>1, <2>1, <2>3, <2>4 DEF Doomed
  <2> QED BY <1>1, <2>1, <2>5, <2>6 DEF Showing
<1> QED BY <1>3, <1>4, <1>5

\* A batch that nothing has raced with makes the page longer by the next records.
LEMMA BatchShows ==
  ASSUME TypeOK, Filed, Awaited, Showing, HistoryAnswered, ~raced'
  PROVE  Faithful'
<1>1. PICK offset \in Nat : offset = Head(commands).arg
  BY Queue DEF HistoryAnswered, Commands
<1>2. PICK b : b = Recent(file, PageSize, offset)
  OBVIOUS
<1>3. /\ commands # <<>> /\ Head(commands).kind = "history" /\ commands' = Tail(commands)
      /\ page' = WithBatch(b, offset) /\ ~raced /\ signals = <<>> /\ offset = Len(page.records)
      /\ UNCHANGED <<file, signals>>
  BY <1>1, <1>2 DEF HistoryAnswered, OnDisk
<1>4. PICK p \in Seq(Nat) : p = page.records
  BY DEF TypeOK
<1>5. ToSet(signals) = {} /\ Shown = ToSet(p)
  BY <1>3, <1>4 DEF ToSet, Shown
<1>6. Faithful
  <2> SUFFICES ASSUME Doomed PROVE FALSE
    BY <1>3 DEF Showing
  <2>1. offset = 0
    BY <1>1, <1>3, Served DEF Doomed
  <2>2. p = <<>>
    <3>1. Len(p) = 0
      BY <1>3, <1>4, <2>1
    <3> QED BY <3>1, EmptySeq
  <2>3. Shown = {}
    BY <1>5, <2>2 DEF ToSet
  <2> QED BY <2>3 DEF Doomed
<1>7. PICK r : r = Reverse(Records(file))
  OBVIOUS
<1>8. Records(file) \in Seq(Nat) /\ Rising(Records(file))
  BY Lines DEF TypeOK, Filed
<1>9. r \in Seq(Nat) /\ ToSet(r) = Readable /\ Falling(r) /\ Len(r) = Len(Records(file))
  BY <1>7, <1>8, TurnedRound DEF Readable
<1>10. offset <= Len(r) /\ \A i \in 1..offset : p[i] = r[i]
  <2>1. Falling(p) /\ ToSet(p) \subseteq ToSet(r) /\ \A x \in ToSet(r) \ ToSet(p), y \in ToSet(p) : x < y
    BY <1>4, <1>5, <1>6, <1>9 DEF Faithful
  <2> QED BY <1>3, <1>4, <1>9, <2>1, NewestFirst
<1>11. PICK n \in Nat : n = Len(r)
  BY <1>9
<1>12. PICK m \in Nat : m = IF offset + PageSize <= n THEN offset + PageSize ELSE n
  BY PagesHold
<1>13. offset <= m /\ m <= n
  BY <1>10, <1>11, <1>12, PagesHold
<1>14. /\ b \in Seq(Nat) /\ Len(b) = m - offset
       /\ \A i \in 1..(m - offset) : b[i] = r[offset + i]
  <2>1. file \in Seq(Nat) /\ PageSize \in Nat /\ m = Upto(file, PageSize, offset)
    BY <1>9, <1>11, <1>12, PagesHold DEF TypeOK, Upto
  <2>2. /\ Recent(file, PageSize, offset) \in Seq(Nat)
        /\ Len(Recent(file, PageSize, offset)) = IF offset < m THEN m - offset ELSE 0
        /\ \A i \in 1..(m - offset) : Recent(file, PageSize, offset)[i] = r[offset + i]
    BY <1>7, <2>1, Answers
  <2> QED BY <1>2, <1>13, <2>2
<1>15. /\ Falling(b) /\ Falling(p \o Without(b, ToSet(p)))
       /\ ToSet(p \o Without(b, ToSet(p))) = ToSet(p) \cup ToSet(b)
       /\ ToSet(p) \cup ToSet(b) = Firsts(r, m)
  <2>1. Falling(p) /\ Falling(r) /\ r \in Seq(Nat)
    BY <1>4, <1>6, <1>9 DEF Faithful
  <2>2. offset = Len(p) /\ m <= Len(r)
    BY <1>3, <1>4, <1>11, <1>13
  <2>3. Follows(b, p, r, offset, m)
    BY <1>10, <1>13, <1>14, <2>2 DEF Follows
  <2>4. b \in Seq(Nat)
    BY <1>14
  <2>5. Falling(b) /\ Falling(p \o Without(b, ToSet(p)))
    BY <2>1, <2>3, <2>4, BatchJoins
  <2>6. ToSet(p \o Without(b, ToSet(p))) = ToSet(p) \cup ToSet(b)
    BY <2>1, <2>3, <2>4, BatchJoins
  <2>7. ToSet(p \o Without(b, ToSet(p))) = Firsts(r, m)
    BY <2>1, <2>3, <2>4, BatchJoins
  <2> QED BY <2>5, <2>6, <2>7
<1>16. Falling(page'.records) /\ ToSet(page'.records) = ToSet(p) \cup ToSet(b)
  <2>1. CASE offset = 0
    <3>1. page'.records = b
      BY <1>3, <2>1 DEF WithBatch
    <3>2. ToSet(p) = {}
      <4>1. Len(p) = 0
        BY <1>3, <1>4, <2>1
      <4>2. p = <<>>
        BY <4>1, EmptySeq
      <4> QED BY <4>2 DEF ToSet
    <3> QED BY <1>15, <3>1, <3>2
  <2>2. CASE offset # 0
    <3>1. page'.records = p \o Without(b, ToSet(p))
      BY <1>3, <1>4, <2>2 DEF WithBatch
    <3> QED BY <1>15, <3>1
  <2> QED BY <2>1, <2>2
<1>17. ToSet(signals') = {} /\ Readable' = Readable /\ Shown' = ToSet(page'.records)
  BY <1>3, <1>5 DEF Readable, Records, Shown
<1>18. \A y : y \in Shown' <=> \E j \in 1..m : r[j] = y
  BY <1>15, <1>16, <1>17 DEF Firsts
<1>19. \A y : y \in Readable' <=> \E j \in 1..n : r[j] = y
  BY <1>9, <1>11, <1>17, Elements
<1>20. Shown' \subseteq Readable'
  <2>1. \A j \in 1..m : j \in 1..n
    BY <1>13
  <2> QED BY <1>18, <1>19, <2>1
<1>21. ASSUME NEW x \in Readable' \ Shown', NEW y \in Shown' PROVE x < y
  <2>1. PICK i \in 1..n : r[i] = x
    BY <1>19
  <2>2. PICK j \in 1..m : r[j] = y
    BY <1>18
  <2>3. i \notin 1..m
    BY <1>18, <2>1
  <2>4. i \in DOMAIN r /\ j \in DOMAIN r /\ j < i /\ r[i] \in Nat /\ r[j] \in Nat
    BY <1>9, <1>11, <1>13, <2>3
  <2> QED BY <1>9, <2>1, <2>2, <2>4 DEF Falling
<1>22. ASSUME page'.exhausted PROVE Readable' \subseteq Shown'
  <2>1. Len(b) < PageSize
    BY <1>3, <1>22 DEF WithBatch
  <2>2. m = n
    BY <1>12, <1>14, <2>1, PagesHold
  <2> QED BY <1>18, <1>19, <2>2
<1> QED BY <1>16, <1>17, <1>20, <1>21, <1>22 DEF Faithful

LEMMA WorkerShows ==
  ASSUME TypeOK, Filed, Awaited, Announced, Showing,
         HistoryAnswered \/ HistoryFails \/ DeleteAnswered \/ ClearAnswered \/ UtteranceHeard
  PROVE  Showing'
<1>1. page \in [records : Seq(Nat), exhausted : BOOLEAN, loading : BOOLEAN] /\ born' = born
  BY DEF TypeOK, HistoryAnswered, HistoryFails, DeleteAnswered, ClearAnswered, UtteranceHeard, OnDisk
<1>2. CASE HistoryAnswered
  <2>1. PICK offset \in Nat : offset = Head(commands).arg
    BY <1>2, Queue DEF HistoryAnswered, Commands
  <2>2. PICK b \in Seq(Nat) : b = Recent(file, PageSize, offset) /\ ToSet(b) \subseteq Readable
    BY Found DEF Readable
  <2>3. page' = WithBatch(b, offset)
    BY <1>2, <2>1, <2>2 DEF HistoryAnswered
  <2>4. ToSet(page'.records) \subseteq ToSet(page.records) \cup ToSet(b)
    BY <2>2, <2>3, BatchTyped
  <2>5. ToSet(page'.records) \subseteq 1..born
    BY <2>2, <2>4 DEF Showing, Filed
  <2> QED BY <1>1, <1>2, <2>5, BatchShows DEF Showing
<1>3. CASE DeleteAnswered
  <2>1. PICK id : id = Head(commands).arg
    OBVIOUS
  <2>2. FromTheTop => FromTheTop'
    <3>1. page'.loading = page.loading /\ (raced => raced')
      BY <1>1, <1>3 DEF DeleteAnswered
    <3>2. commands # <<>> /\ Head(commands).kind # "history" /\ commands' = Tail(commands)
      BY <1>3 DEF DeleteAnswered
    <3> QED BY <3>1, <3>2, Served
  <2>3. CASE garbled \/ ~Contains(file, id)
    <3>1. UNCHANGED <<file, page, raced, signals>>
      BY <1>3, <2>1, <2>3 DEF DeleteAnswered
    <3>2. Readable' = Readable /\ Shown' = Shown
      BY <3>1 DEF Readable, Records, Shown
    <3>3. Faithful => Faithful'
      BY <3>1, <3>2 DEF Faithful
    <3>4. Doomed => Doomed'
      BY <2>2, <3>1, <3>2 DEF Doomed
    <3> QED BY <1>1, <3>1, <3>3, <3>4 DEF Showing
  <2>4. CASE ~garbled /\ Contains(file, id)
    <3>1. /\ Deleted(id) /\ raced' = (raced \/ Contains(signals, id)) /\ signals' = signals
          /\ page'.records = Without(page.records, {id})
          /\ page'.exhausted = page.exhausted /\ page'.loading = page.loading
      BY <1>1, <1>3, <2>1, <2>4 DEF DeleteAnswered
    <3>2. Readable' = Readable \ {id}
      BY <3>1, Rewritten DEF Deleted, Readable
    <3>3. /\ ToSet(page'.records) = ToSet(page.records) \ {id}
          /\ Falling(page.records) => Falling(page'.records)
      BY <3>1, Rewritten
    <3>4. ASSUME ~raced' PROVE Faithful' \/ Doomed'
      <4>1. ~raced /\ id \notin ToSet(signals)
        <5>1. ~raced /\ ~Contains(signals, id)
          BY <3>1, <3>4
        <5>2. id \in ToSet(signals) <=> \E i \in 1..Len(signals) : signals[i] = id
          BY Elements DEF TypeOK
        <5> QED BY <5>1, <5>2 DEF Contains
      <4>2. Shown' = Shown \ {id}
        BY <3>1, <3>3, <4>1 DEF Shown
      <4>3. CASE Faithful
        <5>1. Faithful'
          BY <3>1, <3>2, <3>3, <4>2, <4>3 DEF Faithful
        <5> QED BY <5>1
      <4>4. CASE Doomed
        <5>1. CASE Shown' = {}
          <6>1. ToSet(page'.records) = {} /\ ToSet(signals') = {}
            BY <5>1 DEF Shown
          <6>2. Falling(page'.records)
            <7>1. page'.records \in Seq(Nat)
              BY <3>1, Rewritten
            <7>2. \A x : x \in ToSet(page'.records) <=> \E i \in 1..Len(page'.records) : page'.records[i] = x
              BY <7>1, Elements
            <7>3. DOMAIN page'.records = 1..Len(page'.records)
              BY <7>1
            <7> QED BY <6>1, <7>2, <7>3 DEF Falling
          <6>3. Faithful'
            BY <3>1, <4>4, <5>1, <6>1, <6>2 DEF Faithful, Doomed
          <6> QED BY <6>3
        <5>2. CASE Shown' # {}
          BY <2>2, <3>1, <4>4, <5>2 DEF Doomed
        <5> QED BY <5>1, <5>2
      <4> QED BY <4>1, <4>3, <4>4 DEF Showing
    <3> QED BY <1>1, <3>3, <3>4 DEF Showing
  <2> QED BY <2>3, <2>4
<1>4. CASE ClearAnswered
  <2>1. /\ file' = <<>> /\ signals' = signals /\ raced' = (raced \/ signals # <<>> \/ page.loading)
        /\ page'.records = <<>>
    BY <1>1, <1>4 DEF ClearAnswered, Cleared
  <2>2. ToSet(<<>>) = {} /\ Falling(<<>>)
    BY DEF ToSet, Falling
  <2>3. Readable' = {}
    <3>1. <<>> \in Seq(Nat) /\ 0 \in Nat
      OBVIOUS
    <3>2. Records(<<>>) = <<>>
      BY <3>1, WithoutLast DEF Records
    <3> QED BY <2>1, <2>2, <3>2 DEF Readable
  <2>4. ASSUME ~raced' PROVE Faithful'
    <3>1. signals' = <<>> /\ Shown' = {}
      BY <2>1, <2>2, <2>4 DEF Shown
    <3> QED BY <2>1, <2>2, <2>3, <3>1 DEF Faithful
  <2> QED BY <1>1, <2>1, <2>2, <2>4 DEF Showing
<1>5. CASE UtteranceHeard
  <2>1. PICK h, t : h = Head(signals) /\ t = Tail(signals)
    OBVIOUS
  <2>2. /\ ToSet(signals) = {h} \cup ToSet(t) /\ \A x \in ToSet(t) : h < x
        /\ ToSet(<<h>> \o page.records) = {h} \cup ToSet(page.records)
        /\ Falling(page.records) /\ (\A x \in ToSet(page.records) : x < h)
             => Falling(<<h>> \o page.records)
    BY <1>1, <1>5, <2>1, Passed DEF UtteranceHeard, Announced, TypeOK
  <2>3. /\ signals' = t /\ page'.records = <<h>> \o page.records
        /\ page'.exhausted = page.exhausted /\ page'.loading = page.loading
        /\ UNCHANGED <<file, commands, raced>>
    BY <1>1, <1>5, <2>1 DEF UtteranceHeard, OnDisk
  <2>4. Readable' = Readable /\ Shown' = Shown
    BY <2>2, <2>3 DEF Readable, Records, Shown
  <2>5. ToSet(page'.records) \subseteq 1..born
    BY <2>2, <2>3 DEF Showing, Announced
  <2>6. ASSUME Faithful PROVE Faithful'
    <3>1. \A x \in ToSet(page.records) : x < h
      BY <2>2, <2>6 DEF Faithful
    <3>2. \A r \in ToSet(page'.records), s \in ToSet(signals') : r < s
      BY <2>2, <2>3, <2>6 DEF Faithful
    <3>3. Falling(page'.records)
      BY <2>2, <2>3, <2>6, <3>1 DEF Faithful
    <3> QED BY <2>3, <2>4, <2>6, <3>2, <3>3 DEF Faithful
  <2>7. ASSUME Doomed PROVE Doomed'
    <3>1. FromTheTop'
      BY <2>3, <2>7 DEF Doomed, FromTheTop, Queries
    <3> QED BY <2>3, <2>4, <2>7, <3>1 DEF Doomed
  <2> QED BY <1>1, <2>3, <2>5, <2>6, <2>7 DEF Showing
<1>6. CASE HistoryFails
  BY <1>1, <1>6 DEF HistoryFails, Showing
<1> QED BY <1>2, <1>3, <1>4, <1>5, <1>6

LEMMA NextShows == TypeOK /\ Filed /\ Awaited /\ Announced /\ Showing /\ [Next]_vars => Showing'
<1> SUFFICES ASSUME TypeOK, Filed, Awaited, Announced, Showing, [Next]_vars PROVE Showing'
  OBVIOUS
<1>1. CASE WriteTears
  <2>1. /\ UNCHANGED <<signals, commands, page>> /\ born' = born + 1 /\ born \in Nat
        /\ raced' = (raced \/ Records(file') # Records(file))
    BY <1>1 DEF WriteTears, TypeOK
  <2>2. \A x \in 1..born : x \in 1..(born + 1)
    BY <2>1
  <2>3. ToSet(page.records)' \subseteq 1..born'
    BY <2>1, <2>2 DEF Showing
  <2>4. ASSUME ~raced' PROVE Faithful' \/ Doomed'
    <3>1. ~raced /\ Records(file)' = Records(file)
      BY <2>1, <2>4
    <3>2. Readable' = Readable /\ Shown' = Shown /\ (FromTheTop <=> FromTheTop')
      BY <2>1, <3>1 DEF Readable, Shown, FromTheTop, Queries
    <3>3. (Faithful => Faithful') /\ (Doomed => Doomed')
      BY <2>1, <3>2 DEF Faithful, Doomed
    <3> QED BY <3>1, <3>3 DEF Showing
  <2> QED BY <2>3, <2>4 DEF Showing
<1>2. CASE UNCHANGED vars
  <2>1. UNCHANGED <<file, signals, commands, page, raced, born>>
    BY <1>2 DEF vars
  <2>2. Readable' = Readable /\ Shown' = Shown /\ (FromTheTop <=> FromTheTop')
    BY <2>1 DEF Readable, Records, Shown, FromTheTop, Queries
  <2>3. (Faithful => Faithful') /\ (Doomed => Doomed')
    BY <2>1, <2>2 DEF Faithful, Doomed
  <2> QED BY <2>1, <2>3 DEF Showing
<1> QED BY <1>1, <1>2, AppendsShows, UserShows, WorkerShows DEF Next

LEMMA InitShows == Init => Showing
<1> SUFFICES ASSUME Init PROVE Showing
  OBVIOUS
<1>1. page.records = <<>> /\ signals = <<>> /\ file = <<>> /\ ~page.exhausted
  BY DEF Init
<1>2. ToSet(<<>>) = {} /\ Falling(<<>>)
  BY DEF ToSet, Falling
<1>3. Readable = {}
  <2>1. <<>> \in Seq(Nat) /\ 0 \in Nat
    OBVIOUS
  <2>2. Records(<<>>) = <<>>
    BY <2>1, WithoutLast DEF Records
  <2> QED BY <1>1, <1>2, <2>2 DEF Readable
<1>4. Faithful
  BY <1>1, <1>2, <1>3 DEF Faithful, Shown
<1> QED BY <1>1, <1>2, <1>4 DEF Showing

\* When nothing is on its way, no batch is awaited.
LEMMA ShowingIsEnough ==
  ASSUME TypeOK, Filed, Awaited, Showing
  PROVE  PageIsTrue
<1> SUFFICES ASSUME signals = <<>>, commands = <<>>, ~raced
             PROVE  /\ page.records = Recent(file, Len(page.records), 0)
                    /\ page.exhausted => Len(page.records) = Len(Records(file))
  BY DEF PageIsTrue, Quiet
<1>1. PICK p \in Seq(Nat) : p = page.records
  BY DEF TypeOK
<1>2. ~page.loading
  BY DEF Awaited, Queries
<1>3. Faithful
  BY <1>2 DEF Showing, Doomed
<1>4. Shown = ToSet(p)
  BY <1>1 DEF Shown, ToSet
<1>5. PICK r : r = Reverse(Records(file))
  OBVIOUS
<1>6. Records(file) \in Seq(Nat) /\ Rising(Records(file))
  BY Lines DEF TypeOK, Filed
<1>7. r \in Seq(Nat) /\ ToSet(r) = Readable /\ Falling(r) /\ Len(r) = Len(Records(file))
  BY <1>5, <1>6, TurnedRound DEF Readable
<1>8. /\ Falling(p) /\ ToSet(p) \subseteq ToSet(r)
      /\ \A x \in ToSet(r) \ ToSet(p), y \in ToSet(p) : x < y
      /\ page.exhausted => ToSet(r) \subseteq ToSet(p)
  BY <1>1, <1>3, <1>4, <1>7 DEF Faithful
<1>9. Len(p) <= Len(r) /\ \A i \in 1..Len(p) : p[i] = r[i]
  BY <1>7, <1>8, NewestFirst
<1>10. PICK k, n \in Nat : k = Len(p) /\ n = Len(r) /\ k <= n
  BY <1>7, <1>9
<1>11. /\ Recent(file, k, 0) \in Seq(Nat) /\ Len(Recent(file, k, 0)) = k
       /\ \A i \in 1..k : Recent(file, k, 0)[i] = p[i]
  <2>1. file \in Seq(Nat) /\ k <= Len(Records(file))
    BY <1>7, <1>10 DEF TypeOK
  <2> QED BY <1>5, <1>9, <1>10, <2>1, Newest
<1>12. p = Recent(file, k, 0)
  BY <1>10, <1>11, SeqEqual
<1>13. ASSUME page.exhausted PROVE k = n
  <2>1. n <= k
    <3>1. ToSet(p) = ToSet(r)
      BY <1>8, <1>13
    <3>2. \A x \in ToSet(p) \ ToSet(r), y \in ToSet(r) : x < y
      BY <3>1
    <3> QED BY <1>7, <1>8, <1>10, <3>1, <3>2, NewestFirst
  <2> QED BY <1>10, <2>1
<1> QED BY <1>1, <1>7, <1>10, <1>12, <1>13

\* HistoryPage.qml: the page shows the newest records, each once and with nothing left
\* out between them, and says that there are no more only when there are none,
\* whatever is said, deleted, cleared and asked for meanwhile, unless a batch was
\* raced by an utterance or by a list that changed, a batch could not be read, or a
\* torn write changed what can be read without a signal for it.
THEOREM PageShowsNewest == Spec => []PageIsTrue
<1> DEFINE Inv == TypeOK /\ Filed /\ Awaited /\ Announced /\ Showing
<1>1. Init => Inv
  BY InitTyped, InitFiled, InitAwaits, InitAnnounces, InitShows
<1>2. Inv /\ [Next]_vars => Inv'
  BY NextTyped, NextFiled, NextAwaits, NextAnnounces, NextShows
<1>3. Inv => PageIsTrue
  BY ShowingIsEnough
<1> HIDE DEF Inv
<1> QED BY <1>1, <1>2, <1>3, PTL DEF Spec
=============================================================================
