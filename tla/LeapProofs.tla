------------------------------ MODULE LeapProofs ------------------------------
(***************************************************************************)
(* Leap, for every program, statement, array and tape.                      *)
(*                                                                         *)
(* Sums and stores; the shape of a machine; what is sound between two      *)
(* keystrokes (Machine) and during a run (Exec); every statement, RUN and  *)
(* immediate statements; the ways to empty a machine; entries of the Array *)
(* Store; what is on the tape (TapeOK) and what a tape can do to it; how   *)
(* each such tape answers; LOAD, VERIFY, LOAD of an array, SAVE and LOAD   *)
(* of a package; the invariant (IInv) and the five properties.             *)
(***************************************************************************)
EXTENDS Leap, FiniteSetTheorems, TLAPS


-----------------------------------------------------------------------------
\* Natural numbers, sums along a sequence, sequences.

\* A set of natural numbers that is not empty has a least one.
LEMMA LeastNat ==
  ASSUME NEW T, T \subseteq Nat, T # {}
  PROVE  \E x \in T : \A y \in T : x <= y
<1> DEFINE R == {ss \in Nat \X Nat : ss[1] < ss[2]}
<1>1. IsWellFoundedOn(R, Nat)
  BY NatLessThanWellFounded DEF OpToRel
<1>2. PICK x \in T : \A y \in T : ~ (<<y, x>> \in R)
  <2> HIDE DEF R
  <2> QED BY <1>1, WFMin
<1>3. \A y \in T : x <= y
  <2> SUFFICES ASSUME NEW y \in T, y < x PROVE FALSE
    OBVIOUS
  <2>1. <<y, x>> \in Nat \X Nat
    OBVIOUS
  <2>2. <<y, x>> \in R
    BY <2>1
  <2> QED BY <2>2, <1>2
<1> QED BY <1>3

\* The least of a set of natural numbers is one of them.
LEMMA MinIn ==
  ASSUME NEW T, T \subseteq Nat, T # {}
  PROVE  Min(T) \in T /\ \A y \in T : Min(T) <= y
BY LeastNat DEF Min

\* g holds the sums of f[1], ..., f[n].
Sums(g, f, n) == g \in [0 .. n -> Int] /\ g[0] = 0 /\ \A i \in 1 .. n : g[i] = g[i - 1] + f[i]

\* A function has its partial sums.
LEMMA SumsExist ==
  ASSUME NEW f, NEW n \in Nat, \A i \in 1 .. n : f[i] \in Int
  PROVE  \E g : Sums(g, f, n)
<1> DEFINE Bad == {k \in Nat : k <= n /\ ~ \E g : Sums(g, f, k)}
<1>1. Bad = {}
  <2> SUFFICES ASSUME Bad # {} PROVE FALSE
    OBVIOUS
  <2>1. PICK k \in Bad : \A j \in Bad : k <= j
    <3>1. Bad \subseteq Nat
      OBVIOUS
    <3> HIDE DEF Bad
    <3> QED BY <3>1, LeastNat
  <2>2. k \in Nat /\ k <= n
    OBVIOUS
  <2>3. k # 0
    <3>1. Sums([i \in 0 .. 0 |-> 0], f, 0)
      BY DEF Sums
    <3> QED BY <3>1
  <2>4. k - 1 \in Nat /\ k - 1 <= n /\ k - 1 \notin Bad
    <3> HIDE DEF Bad
    <3> QED BY <2>1, <2>2, <2>3
  <2>5. PICK g : Sums(g, f, k - 1)
    BY <2>4
  <2> DEFINE h == [i \in 0 .. k |-> IF i = k THEN g[k - 1] + f[k] ELSE g[i]]
  <2>6. Sums(h, f, k)
    <3>1. g[k - 1] \in Int /\ f[k] \in Int
      BY <2>2, <2>3, <2>4, <2>5 DEF Sums
    <3>2. h \in [0 .. k -> Int]
      BY <2>2, <2>4, <2>5, <3>1 DEF Sums
    <3>3. h[0] = 0
      BY <2>2, <2>3, <2>5 DEF Sums
    <3>4. \A i \in 1 .. k : h[i] = h[i - 1] + f[i]
      BY <2>2, <2>3, <2>5 DEF Sums
    <3> QED BY <3>2, <3>3, <3>4 DEF Sums
  <2> QED BY <2>6
<1> QED BY <1>1

\* Two such functions agree.
LEMMA SumsUnique ==
  ASSUME NEW f, NEW n \in Nat, NEW g, Sums(g, f, n), NEW h, NEW k \in Nat, k <= n, h[0] = 0, \A i \in 1 .. k : h[i] = h[i - 1] + f[i]
  PROVE  h[k] = g[k]
<1> DEFINE Bad == {i \in Nat : i <= k /\ h[i] # g[i]}
<1>1. Bad = {}
  <2> SUFFICES ASSUME Bad # {} PROVE FALSE
    OBVIOUS
  <2>1. PICK i \in Bad : \A j \in Bad : i <= j
    <3>1. Bad \subseteq Nat
      OBVIOUS
    <3> HIDE DEF Bad
    <3> QED BY <3>1, LeastNat
  <2>2. i \in Nat /\ i <= k /\ h[i] # g[i]
    OBVIOUS
  <2>3. i # 0
    BY <2>2 DEF Sums
  <2>4. i - 1 \in Nat /\ i - 1 \notin Bad
    <3> HIDE DEF Bad
    <3> QED BY <2>1, <2>2, <2>3
  <2>5. h[i - 1] = g[i - 1]
    BY <2>2, <2>4
  <2> HIDE DEF Bad
  <2> QED BY <2>2, <2>3, <2>5 DEF Sums
<1> QED BY <1>1

\* sum_of is the last of the sums.
LEMMA SumIs ==
  ASSUME NEW f, NEW n \in Nat, NEW g, Sums(g, f, n)
  PROVE  sum_of(f, n) = g[n]
<1> DEFINE total(h) == [i \in 0 .. n |-> IF i = 0 THEN 0 ELSE h[i - 1] + f[i]]
           sum == CHOOSE h : h = total(h)
<1>1. sum_of(f, n) = sum[n]
  BY DEF sum_of
<1>2. g = total(g)
  BY DEF Sums
<1>3. sum = total(sum)
  <2>1. \E h : h = total(h)
    BY <1>2
  <2> HIDE DEF total
  <2> QED BY <2>1
<1>4. sum[0] = 0 /\ \A i \in 1 .. n : sum[i] = sum[i - 1] + f[i]
  <2> HIDE DEF sum
  <2> QED BY <1>3
<1> HIDE DEF sum
<1> QED BY <1>1, <1>4, SumsUnique

\* A sum of no terms; a sum's last term; what a sum depends on.
LEMMA SumStep ==
  ASSUME NEW f, NEW n \in Nat, \A i \in 1 .. n + 1 : f[i] \in Int
  PROVE  /\ sum_of(f, n) \in Int
         /\ sum_of(f, n + 1) = sum_of(f, n) + f[n + 1]
<1>1. PICK g : Sums(g, f, n + 1)
  BY SumsExist
<1>2. PICK h : Sums(h, f, n)
  BY SumsExist
<1>3. h[n] = g[n]
  <2>1. h[0] = 0 /\ \A i \in 1 .. n : h[i] = h[i - 1] + f[i]
    BY <1>2 DEF Sums
  <2> QED BY <1>1, <2>1, SumsUnique
<1>4. sum_of(f, n + 1) = g[n + 1] /\ sum_of(f, n) = h[n]
  BY <1>1, <1>2, SumIs
<1> QED BY <1>1, <1>2, <1>3, <1>4 DEF Sums

\* A sum of no terms is 0.
LEMMA SumNone ==
  ASSUME NEW f
  PROVE  sum_of(f, 0) = 0
<1>1. PICK g : Sums(g, f, 0)
  <2>1. 0 \in Nat /\ \A i \in 1 .. 0 : f[i] \in Int
    OBVIOUS
  <2> QED BY <2>1, SumsExist
<1>2. 0 \in Nat
  OBVIOUS
<1>3. sum_of(f, 0) = g[0]
  BY ONLY <1>1, <1>2, SumIs
<1> QED BY <1>1, <1>3 DEF Sums

\* A sum depends on its terms alone.
LEMMA SumSame ==
  ASSUME NEW f, NEW h, NEW n \in Nat, \A i \in 1 .. n : f[i] \in Int /\ h[i] = f[i]
  PROVE  sum_of(h, n) = sum_of(f, n)
<1>1. PICK g : Sums(g, f, n)
  BY SumsExist
<1>2. Sums(g, h, n)
  BY <1>1 DEF Sums
<1> QED BY <1>1, <1>2, SumIs

\* A sum of naturals is a natural; one of positive terms grows with each.
LEMMA SumGrows ==
  ASSUME NEW f, NEW n \in Nat, NEW k \in Nat, k <= n, NEW d \in {0, 1}, \A i \in 1 .. n : f[i] \in Nat /\ f[i] >= d
  PROVE  sum_of(f, n) \in Nat /\ sum_of(f, k) \in Nat /\ sum_of(f, k) + d * (n - k) <= sum_of(f, n)
<1>1. PICK g : Sums(g, f, n)
  BY SumsExist
<1>2. PICK h : Sums(h, f, k)
  BY SumsExist
<1>3. h[k] = g[k]
  <2>1. h[0] = 0 /\ \A i \in 1 .. k : h[i] = h[i - 1] + f[i]
    BY <1>2 DEF Sums
  <2> QED BY <1>1, <2>1, SumsUnique
<1>4. sum_of(f, n) = g[n] /\ sum_of(f, k) = g[k]
  BY <1>1, <1>2, <1>3, SumIs
<1> DEFINE Bad == {i \in Nat : i <= n /\ ~(g[i] >= 0 /\ (i >= k => g[k] + d * (i - k) <= g[i]))}
<1>5. Bad = {}
  <2> SUFFICES ASSUME Bad # {} PROVE FALSE
    OBVIOUS
  <2>1. PICK i \in Bad : \A j \in Bad : i <= j
    <3>1. Bad \subseteq Nat
      OBVIOUS
    <3> HIDE DEF Bad
    <3> QED BY <3>1, LeastNat
  <2>2. i \in Nat /\ i <= n /\ ~(g[i] >= 0 /\ (i >= k => g[k] + d * (i - k) <= g[i]))
    OBVIOUS
  <2>3. g \in [0 .. n -> Int] /\ g[0] = 0
    BY <1>1 DEF Sums
  <2>4. i # 0
    BY <2>2, <2>3
  <2>5. i - 1 \in Nat /\ i - 1 \notin Bad
    <3> HIDE DEF Bad
    <3> QED BY <2>1, <2>2, <2>4
  <2>6. g[i - 1] >= 0 /\ (i - 1 >= k => g[k] + d * (i - 1 - k) <= g[i - 1])
    BY <2>2, <2>5
  <2>7. g[i] = g[i - 1] + f[i] /\ f[i] \in Nat /\ f[i] >= d /\ g[i] \in Int /\ g[i - 1] \in Int /\ g[k] \in Int
    BY <1>1, <2>2, <2>3, <2>4, <2>5, SMTT(40) DEF Sums
  <2> HIDE DEF Bad
  <2>8. CASE d = 0
    BY <2>2, <2>6, <2>7, <2>8
  <2>9. CASE d = 1
    BY <2>2, <2>6, <2>7, <2>9
  <2> QED BY <2>8, <2>9
<1>6. g[n] >= 0 /\ g[k] >= 0 /\ g[k] + d * (n - k) <= g[n] /\ g[n] \in Int /\ g[k] \in Int
  <2>1. n \notin Bad /\ k \notin Bad
    BY <1>5
  <2> QED BY <1>1, <2>1 DEF Sums
<1> QED BY <1>4, <1>6

IsSeq(s) == s \in Seq(ToSet(s))

\* What a sequence is.
LEMMA SeqFacts ==
  ASSUME NEW s, IsSeq(s)
  PROVE  Len(s) \in Nat /\ DOMAIN s = 1 .. Len(s) /\ \A i \in DOMAIN s : s[i] \in ToSet(s)
BY DEF IsSeq, ToSet

\* A function on 1 .. n is a sequence.
LEMMA SeqBuilt ==
  ASSUME NEW n \in Nat, NEW s, DOMAIN s = 1 .. n, s = [i \in 1 .. n |-> s[i]]
  PROVE  IsSeq(s) /\ Len(s) = n
<1>1. \A i \in 1 .. n : s[i] \in ToSet(s)
  BY DEF ToSet
<1>2. s \in [1 .. n -> ToSet(s)]
  BY <1>1
<1> HIDE DEF ToSet
<1>3. s \in Seq(ToSet(s))
  BY <1>2
<1> QED BY <1>3 DEF IsSeq

\* A sequence of one element at the end of another.
LEMMA SeqLonger ==
  ASSUME NEW s, IsSeq(s), NEW e, NEW t, t = s \o <<e>>
  PROVE  /\ IsSeq(t) /\ Len(t) = Len(s) + 1 /\ t[Len(s) + 1] = e
         /\ \A i \in 1 .. Len(s) : t[i] = s[i]
<1> DEFINE T == ToSet(s) \cup {e}
<1>1. s \in Seq(T) /\ <<e>> \in Seq(T)
  <2>1. s \in Seq(ToSet(s))
    BY DEF IsSeq
  <2> HIDE DEF ToSet
  <2> QED BY <2>1
<1>2. t \in Seq(T)
  BY <1>1
<1> HIDE DEF T
<1>3. Len(t) = Len(s) + 1 /\ t[Len(s) + 1] = e /\ \A i \in 1 .. Len(s) : t[i] = s[i]
  BY <1>1
<1>4. Len(t) \in Nat /\ DOMAIN t = 1 .. Len(t) /\ t = [i \in 1 .. Len(t) |-> t[i]]
  BY <1>2
<1> QED BY <1>3, <1>4, SeqBuilt

\* A sequence without its element i.
LEMMA SeqShorter ==
  ASSUME NEW s, IsSeq(s), NEW i \in DOMAIN s, NEW t, t = RemoveAt(s, i)
  PROVE  /\ IsSeq(t) /\ Len(t) = Len(s) - 1
         /\ \A j \in 1 .. Len(s) - 1 : t[j] = IF j < i THEN s[j] ELSE s[j + 1]
<1>1. s \in Seq(ToSet(s)) /\ Len(s) \in Nat /\ i \in 1 .. Len(s)
  BY SeqFacts DEF IsSeq
<1>2. PICK a, b : a = SubSeq(s, 1, i - 1) /\ b = SubSeq(s, i + 1, Len(s))
  OBVIOUS
<1> HIDE DEF ToSet
<1>3. a \in Seq(ToSet(s)) /\ Len(a) = i - 1 /\ \A j \in 1 .. i - 1 : a[j] = s[j]
  BY <1>1, <1>2
<1>4. b \in Seq(ToSet(s)) /\ Len(b) = Len(s) - i /\ \A j \in 1 .. Len(s) - i : b[j] = s[j + i]
  BY <1>1, <1>2
<1>5. t = a \o b
  BY <1>2 DEF RemoveAt
<1>6. t \in Seq(ToSet(s)) /\ Len(t) = Len(s) - 1
  BY <1>1, <1>3, <1>4, <1>5
<1>7. \A j \in 1 .. Len(s) - 1 : t[j] = IF j < i THEN s[j] ELSE s[j + 1]
  <2> SUFFICES ASSUME NEW j \in 1 .. Len(s) - 1 PROVE t[j] = IF j < i THEN s[j] ELSE s[j + 1]
    OBVIOUS
  <2>1. CASE j < i
    <3>1. t[j] = a[j]
      BY <1>1, <1>3, <1>4, <1>5, <2>1
    <3> QED BY <1>1, <1>3, <2>1, <3>1
  <2>2. CASE ~(j < i)
    <3>1. t[j] = b[j - Len(a)]
      <4>1. j \in 1 .. Len(a) + Len(b) /\ ~(j <= Len(a))
        BY <1>1, <1>3, <1>4, <2>2
      <4>2. a \in Seq(ToSet(s)) /\ b \in Seq(ToSet(s))
        BY <1>3, <1>4
      <4> QED BY ONLY <4>1, <4>2, <1>5
    <3>2. j - Len(a) \in 1 .. Len(s) - i /\ j - Len(a) + i = j + 1
      BY <1>1, <1>3, <2>2
    <3> QED BY <1>4, <2>2, <3>1, <3>2
  <2> QED BY <2>1, <2>2
<1>8. Len(t) \in Nat /\ DOMAIN t = 1 .. Len(t) /\ t = [j \in 1 .. Len(t) |-> t[j]]
  BY <1>6
<1> QED BY <1>6, <1>7, <1>8, SeqBuilt

-----------------------------------------------------------------------------
\* The bytes of the store, and of a program.

Sized(s) == IsSeq(s) /\ \A i \in DOMAIN s : s[i].size \in Nat

\* An empty store takes no bytes.
LEMMA BytesNone == bytes(<<>>) = 0
<1>1. Len(<<>>) = 0
  OBVIOUS
<1> QED BY <1>1, SumNone DEF bytes

\* The bytes a store takes.
LEMMA BytesNat ==
  ASSUME NEW s, Sized(s)
  PROVE  bytes(s) \in Nat
<1> DEFINE f == [i \in DOMAIN s |-> s[i].size]
<1>1. Len(s) \in Nat /\ \A i \in 1 .. Len(s) : f[i] \in Nat /\ f[i] >= 0
  BY SeqFacts DEF Sized
<1>2. bytes(s) = sum_of(f, Len(s))
  BY DEF bytes
<1> HIDE DEF f
<1> QED BY <1>1, <1>2, SumGrows

\* They depend on the sizes of its entries alone: a value that is assigned moves nothing.
LEMMA BytesSame ==
  ASSUME NEW s, Sized(s), NEW t, IsSeq(t), Len(t) = Len(s), \A i \in DOMAIN s : t[i].size = s[i].size
  PROVE  bytes(t) = bytes(s)
<1> DEFINE f == [i \in DOMAIN s |-> s[i].size]
           h == [i \in DOMAIN t |-> t[i].size]
<1>1. Len(s) \in Nat /\ \A i \in 1 .. Len(s) : f[i] \in Int /\ h[i] = f[i]
  BY SeqFacts DEF Sized
<1>2. bytes(s) = sum_of(f, Len(s)) /\ bytes(t) = sum_of(h, Len(s))
  BY DEF bytes
<1> HIDE DEF f, h
<1> QED BY <1>1, <1>2, SumSame

\* An entry that is appended takes its size.
LEMMA BytesLonger ==
  ASSUME NEW s, Sized(s), NEW e, e.size \in Nat, NEW t, t = s \o <<e>>
  PROVE  Sized(t) /\ bytes(t) = bytes(s) + e.size
<1>1. /\ IsSeq(t) /\ Len(t) = Len(s) + 1 /\ t[Len(s) + 1] = e
      /\ \A i \in 1 .. Len(s) : t[i] = s[i]
  <2>1. IsSeq(s)
    BY DEF Sized
  <2>2. IsSeq(t) /\ Len(t) = Len(s) + 1
    BY <2>1, SeqLonger
  <2>3. t[Len(s) + 1] = e
    BY <2>1, SeqLonger
  <2>4. \A i \in 1 .. Len(s) : t[i] = s[i]
    BY <2>1, SeqLonger
  <2> QED BY ONLY <2>2, <2>3, <2>4
<1> DEFINE f == [i \in DOMAIN s |-> s[i].size]
           h == [i \in DOMAIN t |-> t[i].size]
<1>2. Len(s) \in Nat /\ DOMAIN s = 1 .. Len(s) /\ DOMAIN t = 1 .. Len(s) + 1
  BY <1>1, SeqFacts DEF Sized
<1>3. Sized(t)
  BY <1>1, <1>2 DEF Sized
<1>4. \A i \in 1 .. Len(s) : f[i] \in Int /\ h[i] = f[i]
  BY <1>1, <1>2 DEF Sized
<1>5. h[Len(s) + 1] = e.size /\ \A i \in 1 .. Len(s) + 1 : h[i] \in Int
  BY <1>1, <1>2, <1>3, SMTT(40) DEF Sized
<1>6. bytes(s) = sum_of(f, Len(s)) /\ bytes(t) = sum_of(h, Len(s) + 1)
  BY <1>1 DEF bytes
<1> HIDE DEF f, h
<1>7. sum_of(h, Len(s)) = sum_of(f, Len(s))
  BY <1>2, <1>4, SumSame
<1>8. sum_of(h, Len(s) + 1) = sum_of(h, Len(s)) + h[Len(s) + 1]
  BY <1>2, <1>5, SumStep
<1> QED BY <1>3, <1>5, <1>6, <1>7, <1>8

\* An entry that is removed gives its size back (the gap is closed).
LEMMA BytesShorter ==
  ASSUME NEW s, Sized(s), NEW i \in DOMAIN s, NEW t, t = RemoveAt(s, i)
  PROVE  Sized(t) /\ bytes(t) = bytes(s) - s[i].size
<1>1. /\ IsSeq(t) /\ Len(t) = Len(s) - 1
      /\ \A j \in 1 .. Len(s) - 1 : t[j] = IF j < i THEN s[j] ELSE s[j + 1]
  BY SeqShorter DEF Sized
<1> DEFINE f == [j \in DOMAIN s |-> s[j].size]
           h == [j \in DOMAIN t |-> t[j].size]
<1>2. PICK n : n = Len(s) - 1
  OBVIOUS
<1>3. n \in Nat /\ Len(s) = n + 1 /\ DOMAIN s = 1 .. n + 1 /\ DOMAIN t = 1 .. n /\ i \in 1 .. n + 1 /\ Len(t) = n
  BY <1>1, <1>2, SeqFacts DEF Sized
<1>4. \A j \in 1 .. n + 1 : s[j].size \in Nat
  BY <1>3 DEF Sized
<1>5. \A j \in 1 .. n : t[j].size \in Nat
  BY <1>1, <1>3, <1>4
<1>6. Sized(t)
  BY <1>1, <1>3, <1>5 DEF Sized
<1>7. \A j \in 1 .. n + 1 : f[j] \in Int
  BY <1>3, <1>4
<1>8. \A j \in 1 .. n : h[j] = IF j < i THEN f[j] ELSE f[j + 1]
  BY <1>1, <1>3
<1>9. bytes(s) = sum_of(f, n + 1) /\ bytes(t) = sum_of(h, n) /\ f[i] = s[i].size
  BY <1>3 DEF bytes
<1> HIDE DEF f, h
<1>10. PICK g : Sums(g, f, n + 1)
  BY <1>3, <1>7, SumsExist
<1> DEFINE d == [j \in 0 .. n |-> IF j < i THEN g[j] ELSE g[j + 1] - f[i]]
<1>11. g \in [0 .. n + 1 -> Int] /\ g[0] = 0 /\ \A j \in 1 .. n + 1 : g[j] = g[j - 1] + f[j]
  BY <1>10 DEF Sums
<1>12. Sums(d, h, n)
  <2>1. d \in [0 .. n -> Int] /\ d[0] = 0
    <3>1. f[i] \in Int /\ \A j \in 0 .. n : g[j] \in Int /\ g[j + 1] \in Int
      BY <1>3, <1>7, <1>11
    <3>2. \A j \in 0 .. n : d[j] \in Int
      BY <3>1
    <3>3. 0 \in 0 .. n /\ 0 < i
      BY <1>3
    <3> QED BY <1>11, <3>2, <3>3
  <2>2. \A j \in 1 .. n : d[j] = d[j - 1] + h[j]
    <3> SUFFICES ASSUME NEW j \in 1 .. n PROVE d[j] = d[j - 1] + h[j]
      OBVIOUS
    <3>1. d[j] = (IF j < i THEN g[j] ELSE g[j + 1] - f[i]) /\ d[j - 1] = IF j - 1 < i THEN g[j - 1] ELSE g[j] - f[i]
      BY <1>3
    <3>2. g[j] = g[j - 1] + f[j] /\ g[j + 1] = g[j] + f[j + 1]
      BY <1>3, <1>11
    <3>3. g[j] \in Int /\ g[j - 1] \in Int /\ f[j] \in Int /\ f[j + 1] \in Int /\ f[i] \in Int
      BY <1>3, <1>7, <1>11, SMTT(40)
    <3> HIDE DEF d
    <3>4. CASE j < i
      BY <1>3, <1>8, <3>1, <3>2, <3>3, <3>4
    <3>5. CASE j = i
      BY <1>3, <1>8, <3>1, <3>2, <3>3, <3>5, SMTT(40)
    <3>6. CASE j > i
      BY <1>3, <1>8, <3>1, <3>2, <3>3, <3>6
    <3> QED BY <1>3, <3>4, <3>5, <3>6
  <2> HIDE DEF d
  <2> QED BY <2>1, <2>2 DEF Sums
<1>13. d[n] = g[n + 1] - f[i]
  <2>1. CASE n < i
    <3>1. i = n + 1
      BY <1>3, <2>1
    <3> QED BY <1>3, <1>7, <1>11, <2>1, <3>1
  <2>2. CASE ~(n < i)
    BY <1>3, <2>2
  <2> QED BY <2>1, <2>2
<1> HIDE DEF d
<1>14. sum_of(f, n + 1) = g[n + 1] /\ sum_of(h, n) = d[n]
  BY <1>3, <1>10, <1>12, SumIs
<1> QED BY <1>6, <1>9, <1>13, <1>14

\* A well formed program's size, and a prefix of the same size.
LEMMA SizeNat ==
  ASSUME NEW p, well_formed(p)
  PROVE  size(p) \in Nat
<1> DEFINE f == [i \in DOMAIN p |-> IF p[i][1] = "rem" THEN p[i][2] ELSE LINE]
<1>1. Len(p) \in Nat /\ DOMAIN p = 1 .. Len(p) /\ \A i \in DOMAIN p : p[i] \in ToSet(p)
  BY SeqFacts DEF well_formed, IsSeq
<1>2. \A i \in 1 .. Len(p) : f[i] \in Nat /\ f[i] >= 0
  BY <1>1, SizesAssumption DEF well_formed
<1>3. size(p) = sum_of(f, Len(p))
  BY DEF size
<1> HIDE DEF f
<1> QED BY <1>1, <1>2, <1>3, SumGrows

\* Two programs of one size, one a prefix of the other, are the same program: every line takes at least a byte.
LEMMA SizeGrows ==
  ASSUME NEW p, well_formed(p), NEW q, well_formed(q), IsPrefix(p, q), size(p) = size(q)
  PROVE  p = q
<1> DEFINE f == [i \in DOMAIN p |-> IF p[i][1] = "rem" THEN p[i][2] ELSE LINE]
           h == [i \in DOMAIN q |-> IF q[i][1] = "rem" THEN q[i][2] ELSE LINE]
<1>1. /\ Len(p) \in Nat /\ DOMAIN p = 1 .. Len(p) /\ p \in Seq(ToSet(p))
      /\ Len(q) \in Nat /\ DOMAIN q = 1 .. Len(q) /\ q \in Seq(ToSet(q))
      /\ \A i \in DOMAIN p : p[i] \in ToSet(p)
      /\ \A i \in DOMAIN q : q[i] \in ToSet(q)
  BY SeqFacts DEF well_formed, IsSeq
<1>2. Len(p) <= Len(q) /\ SubSeq(p, 1, Len(p)) = SubSeq(q, 1, Len(p))
  BY DEF IsPrefix
<1>3. \A i \in 1 .. Len(p) : p[i] = q[i]
  <2> HIDE DEF ToSet
  <2> SUFFICES ASSUME NEW i \in 1 .. Len(p) PROVE p[i] = q[i]
    OBVIOUS
  <2>1. SubSeq(p, 1, Len(p))[i] = p[i]
    BY <1>1
  <2>2. SubSeq(q, 1, Len(p))[i] = q[i]
    BY <1>1, <1>2
  <2> QED BY <1>2, <2>1, <2>2
<1>4. \A i \in 1 .. Len(q) : h[i] \in Nat /\ h[i] >= 1
  BY <1>1, SizesAssumption DEF well_formed
<1>5. \A i \in 1 .. Len(p) : f[i] \in Int /\ f[i] = h[i]
  BY <1>1, <1>2, <1>3, <1>4
<1>6. size(p) = sum_of(f, Len(p)) /\ size(q) = sum_of(h, Len(q))
  BY DEF size
<1> HIDE DEF f, h
<1>7. sum_of(f, Len(p)) = sum_of(h, Len(p))
  BY <1>1, <1>2, <1>4, <1>5, SumSame
<1>8. sum_of(h, Len(p)) + 1 * (Len(q) - Len(p)) <= sum_of(h, Len(q)) /\ sum_of(h, Len(p)) \in Nat
  BY <1>1, <1>2, <1>4, SumGrows
<1>9. Len(p) = Len(q)
  <2>1. PICK x, y : x = Len(p) /\ y = Len(q)
    OBVIOUS
  <2>2. x \in Nat /\ y \in Nat /\ x <= y
    BY <1>1, <1>2, <2>1
  <2>3. sum_of(h, x) = sum_of(h, y)
    BY <1>6, <1>7, <2>1
  <2>4. sum_of(h, x) + 1 * (y - x) <= sum_of(h, y) /\ sum_of(h, x) \in Nat
    BY <1>8, <2>1
  <2>5. x = y
    BY ONLY <2>2, <2>3, <2>4
  <2> QED BY <2>1, <2>5
<1> HIDE DEF ToSet
<1> QED BY <1>1, <1>3, <1>9

-----------------------------------------------------------------------------
\* The machine as a record.

Fields == {"prog", "sess", "vars", "decl", "arr", "arena", "end2", "store",
           "package", "registry", "grabbed", "mode", "ram", "msg", "ce", "ve"}
Shape(x) == DOMAIN x = Fields /\ x = [f \in Fields |-> x[f]]
\* The fields SessionSound speaks of, and the others.
Kept == {"prog", "sess", "decl", "arr", "arena", "end2", "store"}
Same(x, y) == /\ y.prog = x.prog /\ y.sess = x.sess /\ y.decl = x.decl /\ y.arr = x.arr
              /\ y.arena = x.arena /\ y.end2 = x.end2 /\ y.store = x.store

\* One field of a machine changes, and no other.
LEMMA SetField ==
  ASSUME NEW x, Shape(x), NEW f \in Fields, NEW v, NEW y, y = [x EXCEPT ![f] = v]
  PROVE  Shape(y) /\ y[f] = v /\ \A g \in Fields \ {f} : y[g] = x[g]
BY SMT DEF Shape

\* A field SessionSound does not speak of changes.
LEMMA SetOther ==
  ASSUME NEW x, Shape(x), NEW f \in Fields \ Kept, NEW v, NEW y, y = [x EXCEPT ![f] = v]
  PROVE  Shape(y) /\ Same(x, y)
<1>1. f \in Fields
  OBVIOUS
<1>4. Shape(y)
  BY <1>1, SetField
<1>5. \A g \in Fields \ {f} : y[g] = x[g]
  BY <1>1, SetField
<1>2. Kept \subseteq Fields \ {f}
  BY DEF Fields, Kept
<1>3. \A g \in Kept : y[g] = x[g]
  BY <1>5, <1>2
<1> QED BY <1>4, <1>3 DEF Kept, Same

\* Machines that agree on every field are the same.
LEMMA Extensional ==
  ASSUME NEW x, Shape(x), NEW y, Shape(y), \A f \in Fields : x[f] = y[f]
  PROVE  x = y
BY SMT DEF Shape

\* The machine that is switched on.
LEMMA BootShape == Shape(Boot) /\ Boot.prog = <<>> /\ Boot.sess = FALSE /\ Boot.decl = {} /\ Boot.store = <<>>
                   /\ Boot.mode = 0 /\ Boot.msg = "none" /\ Boot.ce = 0 /\ Boot.ve = 0
                   /\ DOMAIN Boot.arr = {} /\ Boot.arr = [k \in {} |-> 0] /\ DOMAIN Boot.vars = {}
<1>1. DOMAIN Boot = Fields
  BY DEF Boot, Fields
<1>2. Boot = [f \in Fields |-> Boot[f]]
  BY DEF Boot, Fields
<1> QED BY <1>1, <1>2 DEF Shape, Boot

-----------------------------------------------------------------------------
\* Finite sets.

\* The image of a finite set is finite.
LEMMA ImageFinite ==
  ASSUME NEW S, IsFiniteSet(S), NEW f
  PROVE  IsFiniteSet({f[x] : x \in S})
<1> DEFINE T == {f[x] : x \in S}
           g == [x \in S |-> f[x]]
<1>1. g \in Surjection(S, T)
  BY DEF Surjection
<1> HIDE DEF T, g
<1>2. IsFiniteSet(T)
  BY <1>1, FS_Surjection
<1> QED BY <1>2 DEF T

\* The cells 1 .. n of one array.
LEMMA CellsFinite ==
  ASSUME NEW k, NEW n \in Nat
  PROVE  IsFiniteSet({k} \X (1 .. n)) /\ Cardinality({k} \X (1 .. n)) = n
<1> DEFINE g == [i \in 1 .. n |-> <<k, i>>]
           T == {k} \X (1 .. n)
<1>1. IsFiniteSet(1 .. n) /\ Cardinality(1 .. n) = n
  BY FS_Interval
<1>2. g \in Bijection(1 .. n, T)
  <2>1. g \in [1 .. n -> T]
    OBVIOUS
  <2>2. \A i, j \in 1 .. n : g[i] = g[j] => i = j
    OBVIOUS
  <2>3. \A z \in T : \E i \in 1 .. n : g[i] = z
    <3> SUFFICES ASSUME NEW z \in T PROVE \E i \in 1 .. n : g[i] = z
      OBVIOUS
    <3>1. z = <<k, z[2]>> /\ z[2] \in 1 .. n
      OBVIOUS
    <3>2. g[z[2]] = z
      BY <3>1
    <3> QED BY <3>1, <3>2
  <2> HIDE DEF g, T
  <2> QED BY <2>1, <2>2, <2>3 DEF Bijection, Injection, Surjection, IsInjective
<1>3. ExistsBijection(1 .. n, T)
  BY <1>2 DEF ExistsBijection
<1> HIDE DEF T, g
<1>4. IsFiniteSet(T) /\ Cardinality(T) = n
  BY <1>1, <1>3, FS_Bijection
<1> QED BY <1>4 DEF T

-----------------------------------------------------------------------------
\* What holds of the machine between two keystrokes.

\* An array's body: its length follows from its elements, a string is shorter than its element.
SoundBody(k, b) ==
  /\ DOMAIN b = {"dims", "count", "width", "vals", "len"}
  /\ b.dims = 1 /\ b.count \in Nat \ {0} /\ b.width \in Nat /\ b.len \in Nat
  /\ b.len = IF k[2] = 2 THEN 3 + 2 * b.count ELSE 4 + b.count * b.width
  /\ k[2] = 3 => b.width >= 2 /\ \A i \in DOMAIN b.vals : b.vals[i] < STRING_MAX /\ b.vals[i] < b.width

\* The store: sound entries of different keys, within segment 2.
SoundEntry(e) ==
  /\ DOMAIN e = {"key", "size", "body"} /\ e.key[2] \in {2, 3} /\ e.size \in Nat
  /\ SoundBody(e.key, e.body) /\ e.body.count <= 4095
StoreOK(s) ==
  /\ IsSeq(s) /\ \A i \in DOMAIN s : SoundEntry(s[i])
  /\ \A i, j \in DOMAIN s : s[i].key = s[j].key => i = j
  /\ bytes(s) <= SEG2

DeclOK(decl) == IsFiniteSet(decl) /\ \A d \in decl : d = <<d[1], d[2], d[3]>> /\ shaped(d[1], d[2], d[3])

\* The arrays: declared, each where its entry says, a body of its own if it has none.
SoundArray(x, k) ==
  /\ x.arr[k] = [at |-> x.arr[k].at, body |-> x.arr[k].body] /\ x.arr[k].at \in {"pool", "seg2", "store"}
  /\ x.arr[k].at = "store" <=> stored(x, k) # {}
  /\ IF x.arr[k].at = "store" THEN x.arr[k] = Stored ELSE SoundBody(k, x.arr[k].body)
Segment(x) == UNION {{k} \X (1 .. x.arr[k].body.len) : k \in placed(x, "seg2")}
ArrOK(x) ==
  /\ x.arr = [k \in DOMAIN x.arr |-> x.arr[k]]
  /\ \A k \in DOMAIN x.arr : Declared(x, k) /\ SoundArray(x, k)
  /\ IsFiniteSet(Segment(x))
\* Slots of tables that were never laid out.
StaleOK(x) ==
  /\ x.arr = [k \in DOMAIN x.arr |-> x.arr[k]]
  /\ \A k \in DOMAIN x.arr : /\ Declared(x, k) /\ SoundBody(k, x.arr[k].body)
                            /\ x.arr[k] = [at |-> "stale", body |-> x.arr[k].body]

\* The cells, once there is a session.
Bound(x) == ~mismatch(x, x.decl) => \A d \in x.decl : stored(x, d[1]) # {} => d[1] \in DOMAIN x.arr
Layout(x) ==
  /\ x.end2 \in Nat /\ bytes(x.store) + Overflow(x) <= x.end2 /\ x.end2 <= SEG2
  /\ x.arena \in Nat /\ pool_used(x) <= POOL
  /\ Bound(x)

\* During a run, and between two keystrokes.
Exec(x) ==
  /\ Shape(x) /\ x.prog \in PROGS \cup {<<>>} /\ x.sess \in BOOLEAN
  /\ StoreOK(x.store) /\ DeclOK(x.decl) /\ ArrOK(x) /\ Layout(x)
Machine(x) ==
  /\ Shape(x) /\ x.prog \in PROGS \cup {<<>>} /\ x.mode = 0 /\ x.sess \in BOOLEAN
  /\ StoreOK(x.store) /\ DeclOK(x.decl) /\ (ArrOK(x) \/ StaleOK(x))
  /\ x.sess => Dims(x.prog) \subseteq x.decl
  /\ x.sess /\ ~unfit(x) => ArrOK(x) /\ Layout(x)
  /\ unfit(x) => StaleOK(x) /\ x.end2 = 0 /\ x.arena = 0

\* A step of a run keeps the program, the declarations, and the store but for the values of declared entries.
KeepsStore(x, y) ==
  /\ Shapes(y.store) = Shapes(x.store)
  /\ \A i \in DOMAIN x.store : y.store[i] = x.store[i] \/ Declared(x, x.store[i].key)
Within(x, y) == Exec(y) /\ y.prog = x.prog /\ y.sess = x.sess /\ y.decl = x.decl /\ KeepsStore(x, y)

-----------------------------------------------------------------------------
\* The cells of segment 2.

\* The bytes of segment 2 outside the store are counted as pairs of an array and an offset.
LEMMA OverflowIs == \A x : Overflow(x) = Cardinality(Segment(x))
BY DEF Overflow, Segment

\* Fewer arrays in segment 2 take no more of it.
LEMMA OverflowFewer ==
  ASSUME NEW x, IsFiniteSet(Segment(x)), NEW y, Segment(y) \subseteq Segment(x)
  PROVE  IsFiniteSet(Segment(y)) /\ Overflow(y) <= Overflow(x) /\ Overflow(y) \in Nat /\ Overflow(x) \in Nat
BY FS_Subset, FS_CardinalityType, OverflowIs

\* One more array takes at most its own bytes.
LEMMA OverflowMore ==
  ASSUME NEW x, IsFiniteSet(Segment(x)), NEW k, NEW n \in Nat, NEW y, Segment(y) \subseteq Segment(x) \cup ({k} \X (1 .. n))
  PROVE  /\ IsFiniteSet(Segment(y)) /\ Overflow(y) <= Overflow(x) + n
         /\ Overflow(y) \in Nat /\ Overflow(x) \in Nat
<1> DEFINE S == Segment(x)
           C == {k} \X (1 .. n)
<1>1. IsFiniteSet(C) /\ Cardinality(C) = n
  BY CellsFinite
<1> HIDE DEF C
<1>2. IsFiniteSet(S \cup C) /\ Cardinality(S \cup C) <= Cardinality(S) + n /\ Cardinality(S) \in Nat
  <2>1. IsFiniteSet(S \cup C)
        /\ Cardinality(S \cup C) = Cardinality(S) + Cardinality(C) - Cardinality(S \cap C)
    BY <1>1, FS_Union
  <2>2. Cardinality(S \cap C) \in Nat
    <3>1. S \cap C \in SUBSET S
      OBVIOUS
    <3>2. IsFiniteSet(S \cap C)
      BY <3>1, FS_Subset
    <3> QED BY <3>2, FS_CardinalityType
  <2>3. Cardinality(S) \in Nat
    BY FS_CardinalityType
  <2> QED BY <1>1, <2>1, <2>2, <2>3
<1>3. Segment(y) \in SUBSET (S \cup C)
  BY DEF C
<1> HIDE DEF S
<1>4. IsFiniteSet(Segment(y)) /\ Cardinality(Segment(y)) <= Cardinality(S \cup C)
  BY <1>2, <1>3, FS_Subset
<1>5. Cardinality(Segment(y)) \in Nat /\ Cardinality(S \cup C) \in Nat
  BY <1>2, <1>4, FS_CardinalityType
<1> QED BY <1>2, <1>4, <1>5, OverflowIs DEF S

\* No arrays, no bytes.
LEMMA OverflowNone ==
  ASSUME NEW x, DOMAIN x.arr = {}
  PROVE  IsFiniteSet(Segment(x)) /\ Overflow(x) = 0 /\ Segment(x) = {}
<1>1. Segment(x) = {}
  BY DEF Segment, placed
<1> QED BY <1>1, FS_EmptySet, OverflowIs

-----------------------------------------------------------------------------
\* The slots of the declared arrays.

\* They take a number of bytes.
LEMMA SlotsNat ==
  ASSUME NEW d, DeclOK(d)
  PROVE  SLOT * Cardinality(d) \in Nat
<1>1. Cardinality(d) \in Nat
  BY FS_CardinalityType DEF DeclOK
<1> QED BY <1>1 DEF SLOT

\* More declarations take no fewer bytes.
LEMMA SlotsMore ==
  ASSUME NEW d, NEW e, DeclOK(e), d \subseteq e
  PROVE  IsFiniteSet(d) /\ SLOT * Cardinality(d) \in Nat /\ SLOT * Cardinality(e) \in Nat /\ SLOT * Cardinality(d) <= SLOT * Cardinality(e)
<1>1. IsFiniteSet(e)
  BY DEF DeclOK
<1>2. IsFiniteSet(d) /\ Cardinality(d) <= Cardinality(e)
  BY <1>1, FS_Subset
<1>3. Cardinality(d) \in Nat /\ Cardinality(e) \in Nat
  BY <1>1, <1>2, FS_CardinalityType
<1> QED BY <1>2, <1>3 DEF SLOT

-----------------------------------------------------------------------------
\* What one statement keeps.

\* A sound store is a sequence of sized entries.
LEMMA StoreFacts ==
  ASSUME NEW s, StoreOK(s)
  PROVE  IsSeq(s) /\ Sized(s) /\ Len(s) \in Nat /\ DOMAIN s = 1 .. Len(s) /\ bytes(s) \in Nat
<1>1. IsSeq(s) /\ Sized(s)
  BY DEF StoreOK, Sized, SoundEntry
<1>2. Len(s) \in Nat /\ DOMAIN s = 1 .. Len(s)
  BY <1>1, SeqFacts
<1>3. bytes(s) \in Nat
  BY <1>1, BytesNat
<1> QED BY <1>1, <1>2, <1>3

\* The entry of a key is the only one.
LEMMA Found ==
  ASSUME NEW x, StoreOK(x.store), NEW k, stored(x, k) # {}
  PROVE  \E i \in DOMAIN x.store : /\ x.store[i].key = k /\ Min(stored(x, k)) = i /\ found(x, k) = x.store[i] /\ i \in Nat
                                  /\ \A j \in DOMAIN x.store : x.store[j].key = k => j = i
<1>1. DOMAIN x.store = 1 .. Len(x.store) /\ Len(x.store) \in Nat
  BY StoreFacts
<1>2. stored(x, k) \subseteq Nat /\ stored(x, k) \subseteq DOMAIN x.store /\ \A j \in stored(x, k) : x.store[j].key = k
  BY <1>1 DEF stored
<1>3. PICK i : i = Min(stored(x, k))
  OBVIOUS
<1>4. i \in stored(x, k)
  BY <1>2, <1>3, MinIn
<1>5. \A j \in DOMAIN x.store : x.store[j].key = k => j = i
  BY <1>2, <1>4 DEF StoreOK
<1> QED BY <1>2, <1>3, <1>4, <1>5 DEF found

\* A step that leaves the store alone keeps it.
LEMMA KeepsItself ==
  ASSUME NEW x, NEW y, y.store = x.store
  PROVE  KeepsStore(x, y)
BY DEF KeepsStore

\* The arrays are judged by the declarations, their own table and the store.
LEMMA SameArr ==
  ASSUME NEW x, ArrOK(x), NEW y, y.decl = x.decl, y.arr = x.arr, y.store = x.store
  PROVE  ArrOK(y) /\ Segment(y) = Segment(x) /\ Overflow(y) = Overflow(x)
<1>1. \A k : Declared(y, k) = Declared(x, k) /\ stored(y, k) = stored(x, k)
  BY DEF Declared, stored
<1>2. \A k : SoundArray(y, k) = SoundArray(x, k)
  BY <1>1 DEF SoundArray
<1>3. Segment(y) = Segment(x)
  BY DEF Segment, placed
<1> QED BY <1>1, <1>2, <1>3, OverflowIs DEF ArrOK

\* More arrays with the same declarations stay bound.
LEMMA SameBound ==
  ASSUME NEW x, Bound(x), NEW y, y.decl = x.decl, DOMAIN x.arr \subseteq DOMAIN y.arr, y.store = x.store
  PROVE  Bound(y)
<1>1. \A k : found(y, k) = found(x, k) /\ stored(y, k) = stored(x, k)
  BY DEF found, stored
<1>2. mismatch(y, y.decl) <=> mismatch(x, x.decl)
  BY <1>1 DEF mismatch
<1> QED BY <1>1, <1>2 DEF Bound

\* A step that changes none of the fields in Kept stays within the run.
LEMMA SameWithin ==
  ASSUME NEW x, Exec(x), NEW y, Shape(y), Same(x, y)
  PROVE  Within(x, y)
<1>1. ArrOK(y) /\ Overflow(y) = Overflow(x)
  BY SameArr DEF Exec, Same
<1>2. Bound(y)
  BY SameBound DEF Exec, Same, Layout
<1>3. pool_used(y) = pool_used(x)
  BY DEF pool_used, Same
<1>4. Layout(y)
  BY <1>1, <1>2, <1>3 DEF Exec, Layout, Same
<1>5. KeepsStore(x, y)
  BY KeepsItself DEF Same
<1> QED BY <1>1, <1>4, <1>5 DEF Exec, Within, Same

\* So does one that assigns a single other field.
LEMMA OneField ==
  ASSUME NEW x, Exec(x), NEW f \in Fields \ Kept, NEW v
  PROVE  Within(x, [x EXCEPT ![f] = v])
<1>1. Shape([x EXCEPT ![f] = v]) /\ Same(x, [x EXCEPT ![f] = v])
  BY SetOther DEF Exec
<1> QED BY <1>1, SameWithin

\* So does a step that changes nothing.
LEMMA Itself ==
  ASSUME NEW x, Exec(x)
  PROVE  Within(x, x)
BY KeepsItself DEF Within

\* Steps of a run compose.
LEMMA Transitive ==
  ASSUME NEW x, NEW y, NEW z, Within(x, y), Within(y, z), Exec(x)
  PROVE  Within(x, z)
<1>1. Shapes(z.store) = Shapes(x.store) /\ Shapes(y.store) = Shapes(x.store)
  BY DEF Within, KeepsStore
<1>2. DOMAIN y.store = DOMAIN x.store /\ \A i \in DOMAIN x.store : y.store[i].key = x.store[i].key
  BY <1>1 DEF Shapes
<1>3. \A k : Declared(y, k) = Declared(x, k)
  BY DEF Within, Declared
<1>4. \A i \in DOMAIN x.store : z.store[i] = x.store[i] \/ Declared(x, x.store[i].key)
  BY <1>2, <1>3 DEF Within, KeepsStore
<1> QED BY <1>1, <1>4 DEF Within, KeepsStore

\* The fields outside Kept.
LEMMA Others == {"vars", "ve", "mode", "grabbed", "ram", "msg", "ce", "package", "registry"} = Fields \ Kept
BY DEF Fields, Kept

\* A package statement touches only what packages own (the registry, grabbed keywords, memory, the message).
LEMMA PackageKeeps ==
  ASSUME NEW x, Exec(x), NEW w, NEW v
  PROVE  Within(x, package(x, w, v))
<1>1. "ve" \in Fields \ Kept /\ "mode" \in Fields \ Kept /\ "grabbed" \in Fields \ Kept
  BY Others
<1>2. \A u : Within(x, [x EXCEPT !.ve = u])
  BY <1>1, OneField
<1>3. \A u : Within(x, [x EXCEPT !.mode = u])
  BY <1>1, OneField
<1>4. \A u : Within(x, [x EXCEPT !.grabbed = u])
  BY <1>1, OneField
<1>5. Within(x, x)
  BY Itself
<1>6. package(x, w, v) \in {[x EXCEPT !.ve = 12], [x EXCEPT !.ve = 13], [x EXCEPT !.ve = 14], [x EXCEPT !.ve = 15], [x EXCEPT !.ve = 17],
                            [x EXCEPT !.ve = 64], [x EXCEPT !.mode = v], [x EXCEPT !.grabbed = x.grabbed \cup {v}], x}
  BY DEF package
<1> QED BY <1>2, <1>3, <1>4, <1>5, <1>6

\* A program is well formed and fits the pool.
LEMMA Programs ==
  ASSUME NEW p \in PROGS \cup {<<>>}
  PROVE  well_formed(p) /\ size(p) \in Nat /\ size(p) <= POOL
<1>1. CASE p \in PROGS
  BY <1>1, CodeAssumption, SizeNat
<1>2. CASE p = <<>>
  <2>1. ToSet(<<>>) = {} /\ <<>> \in Seq({})
    BY DEF ToSet
  <2>2. well_formed(<<>>)
    BY <2>1 DEF well_formed
  <2>3. size(<<>>) = 0
    <3>1. Len(<<>>) = 0
      OBVIOUS
    <3> QED BY <3>1, SumNone DEF size
  <2> QED BY <1>2, <2>2, <2>3, SizesAssumption
<1> QED BY <1>1, <1>2

\* One array is placed, or its body changes.
LEMMA NewArray ==
  ASSUME NEW x, Exec(x), NEW k, Declared(x, k), NEW at \in {"pool", "seg2", "store"}, NEW b,
         at = "store" <=> stored(x, k) # {},
         IF at = "store" THEN b = Stored.body ELSE SoundBody(k, b),
         NEW y, y.arr = updated(x.arr, k, [at |-> at, body |-> b]), y.decl = x.decl, y.store = x.store
  PROVE  /\ ArrOK(y) /\ Bound(y)
         /\ Segment(y) \subseteq Segment(x) \cup ({k} \X (1 .. b.len))
         /\ at # "seg2" => Segment(y) \subseteq Segment(x)
<1>1. ArrOK(x) /\ Bound(x)
  BY DEF Exec, Layout
<1>2. y.arr = [j \in DOMAIN x.arr \cup {k} |-> IF j = k THEN [at |-> at, body |-> b] ELSE x.arr[j]]
  BY DEF updated
<1>3. DOMAIN y.arr = DOMAIN x.arr \cup {k} /\ y.arr = [j \in DOMAIN y.arr |-> y.arr[j]]
  BY <1>2
<1>4. y.arr[k] = [at |-> at, body |-> b] /\ \A j \in DOMAIN x.arr : j # k => y.arr[j] = x.arr[j]
  BY <1>2
<1>5. \A j : stored(y, j) = stored(x, j) /\ (Declared(y, j) <=> Declared(x, j))
  BY DEF stored, Declared
<1>6. \A j \in DOMAIN y.arr : Declared(y, j)
  BY <1>1, <1>3, <1>5 DEF ArrOK
<1>7. SoundArray(y, k)
  <2>1. y.arr[k].at = at /\ y.arr[k].body = b
    BY <1>4
  <2>2. at = "store" => y.arr[k] = Stored
    BY <1>4 DEF Stored
  <2> QED BY <1>4, <1>5, <2>1, <2>2 DEF SoundArray
<1>8. \A j \in DOMAIN x.arr : j # k => SoundArray(y, j)
  BY <1>1, <1>4, <1>5 DEF ArrOK, SoundArray
<1>9. \A j \in DOMAIN y.arr : SoundArray(y, j)
  BY <1>3, <1>7, <1>8
<1>10. Segment(y) \subseteq Segment(x) \cup (IF at = "seg2" THEN {k} \X (1 .. b.len) ELSE {})
  <2> SUFFICES ASSUME NEW c \in Segment(y)
               PROVE  c \in Segment(x) \cup (IF at = "seg2" THEN {k} \X (1 .. b.len) ELSE {})
    OBVIOUS
  <2>1. PICK j \in DOMAIN y.arr : y.arr[j].at = "seg2" /\ c \in {j} \X (1 .. y.arr[j].body.len)
    BY DEF Segment, placed
  <2>2. CASE j = k
    BY <1>4, <2>1, <2>2
  <2>3. CASE j # k
    <3>1. j \in placed(x, "seg2") /\ y.arr[j] = x.arr[j]
      BY <1>3, <1>4, <2>1, <2>3 DEF placed
    <3> QED BY <2>1, <3>1 DEF Segment
  <2> QED BY <2>2, <2>3
<1>11. IsFiniteSet(Segment(y))
  <2>1. IsFiniteSet(Segment(x))
    BY <1>1 DEF ArrOK
  <2>2. CASE at = "seg2"
    <3>1. b.len \in Nat
      BY <2>2 DEF SoundBody
    <3> QED BY <1>10, <2>1, <2>2, <3>1, OverflowMore
  <2>3. CASE at # "seg2"
    BY <1>10, <2>1, <2>3, OverflowFewer
  <2> QED BY <2>2, <2>3
<1>12. Bound(y)
  BY <1>1, <1>3, SameBound
<1>13. Segment(y) \subseteq Segment(x) \cup ({k} \X (1 .. b.len)) /\ (at # "seg2" => Segment(y) \subseteq Segment(x))
  BY <1>10
<1> QED BY <1>3, <1>6, <1>9, <1>11, <1>12, <1>13 DEF ArrOK

\* DIM makes a sound body.
LEMMA FreshBody ==
  ASSUME NEW k, NEW n, NEW w, shaped(k, n, w), NEW b, b = array(k[2], n, w)
  PROVE  SoundBody(k, b)
<1>1. k[2] \in {2, 3} /\ n \in Nat \ {0} /\ w \in Nat /\ (k[2] = 3 => w >= 2)
  BY DEF shaped
<1>2. n * w \in Nat /\ 3 + 2 * n \in Nat /\ 4 + n * w \in Nat
  BY <1>1
<1>3. DOMAIN b = {"dims", "count", "width", "vals", "len"} /\ b.dims = 1 /\ b.count = n /\ b.width = w /\ DOMAIN b.vals = {}
      /\ b.len = IF k[2] = 2 THEN 3 + 2 * n ELSE 4 + n * w
  BY DEF array
<1> QED BY <1>1, <1>2, <1>3 DEF SoundBody

\* DIM places the array in the pool, in segment 2 or nowhere, and never beyond the end of either (ARR_DIM).
LEMMA DimKeeps ==
  ASSUME NEW x, Exec(x), NEW k, NEW n, NEW w, <<k, n, w>> \in x.decl
  PROVE  Within(x, dim(x, k, n, w))
<1>1. PICK b : b = array(k[2], n, w)
  OBVIOUS
<1>2. shaped(k, n, w) /\ Declared(x, k)
  <2>1. PICK d : d = <<k, n, w>>
    OBVIOUS
  <2>2. d[1] = k /\ d[2] = n /\ d[3] = w /\ d \in x.decl
    BY <2>1
  <2>3. shaped(d[1], d[2], d[3])
    BY <2>2 DEF Exec, DeclOK
  <2> QED BY <2>2, <2>3 DEF Declared
<1>3. SoundBody(k, b) /\ b.len \in Nat
  <2>1. SoundBody(k, b)
    BY <1>1, <1>2, FreshBody
  <2> QED BY <2>1 DEF SoundBody
<1>4. PICK top : top = IF x.mode = 1 THEN MODE1 ELSE SEG2
  OBVIOUS
<1>5. top \in Nat /\ top <= SEG2 /\ SEG2 \in Nat
  BY <1>4, SizesAssumption
<1>6. Shape(x) /\ ArrOK(x) /\ Layout(x)
  BY DEF Exec
<1>7. \A u : LET y == [x EXCEPT !.arr = u] IN
        /\ Shape(y) /\ y.arr = u /\ y.decl = x.decl /\ y.store = x.store /\ y.prog = x.prog /\ y.sess = x.sess
        /\ y.arena = x.arena /\ y.end2 = x.end2
  <2> SUFFICES ASSUME NEW u, NEW y, y = [x EXCEPT !.arr = u]
               PROVE  /\ Shape(y) /\ y.arr = u /\ y.decl = x.decl /\ y.store = x.store /\ y.prog = x.prog /\ y.sess = x.sess
                      /\ y.arena = x.arena /\ y.end2 = x.end2
    OBVIOUS
  <2>1. "arr" \in Fields /\ {"decl", "store", "prog", "sess", "arena", "end2"} \subseteq Fields \ {"arr"}
    BY DEF Fields
  <2>2. Shape(y)
    BY <1>6, <2>1, SetField
  <2>3. y["arr"] = u
    BY <1>6, <2>1, SetField
  <2>4. \A g \in Fields \ {"arr"} : y[g] = x[g]
    BY <1>6, <2>1, SetField
  <2> QED BY <2>1, <2>2, <2>3, <2>4
<1>8. CASE stored(x, k) # {}
  <2>1. PICK y : y = [x EXCEPT !.arr = updated(x.arr, k, Stored)]
    OBVIOUS
  <2>2. dim(x, k, n, w) = y
    BY <1>8, <2>1 DEF dim
  <2>3. /\ Shape(y) /\ y.arr = updated(x.arr, k, Stored) /\ y.decl = x.decl /\ y.store = x.store /\ y.prog = x.prog
        /\ y.sess = x.sess /\ y.arena = x.arena /\ y.end2 = x.end2
    BY <1>7, <2>1
  <2>4. Stored = [at |-> "store", body |-> Stored.body]
    BY DEF Stored
  <2>5. ArrOK(y) /\ Bound(y) /\ Segment(y) \subseteq Segment(x)
    <3>1. y.arr = updated(x.arr, k, [at |-> "store", body |-> Stored.body])
      BY <2>3, <2>4
    <3>2. ArrOK(y) /\ Bound(y) /\ Segment(y) \subseteq Segment(x)
      BY <1>2, <1>8, <2>3, <3>1, NewArray
    <3> QED BY <3>2
  <2>6. Overflow(y) <= Overflow(x) /\ Overflow(y) \in Nat /\ Overflow(x) \in Nat
    BY <1>6, <2>5, OverflowFewer DEF ArrOK
  <2>7. pool_used(y) = pool_used(x)
    BY <2>3 DEF pool_used
  <2>8. bytes(x.store) \in Nat
    BY StoreFacts DEF Exec
  <2>9. Layout(y)
    BY <1>5, <1>6, <2>3, <2>5, <2>6, <2>7, <2>8 DEF Layout
  <2>10. KeepsStore(x, y)
    BY <2>3, KeepsItself
  <2> QED BY <2>2, <2>3, <2>5, <2>9, <2>10 DEF Within, Exec
<1>9. ASSUME stored(x, k) = {} PROVE Within(x, dim(x, k, n, w))
  <2>1. ASSUME NEW at \in {"pool", "seg2"}, NEW y, y = [x EXCEPT !.arr = updated(x.arr, k, [at |-> at, body |-> b])],
               NEW f \in {"arena", "end2"}, NEW v \in Nat, NEW z, z = [y EXCEPT ![f] = v],
               f = "end2" => at = "seg2" /\ v = x.end2 + b.len /\ v <= SEG2,
               f = "arena" => at = "pool" /\ v = x.arena + b.len /\ size(x.prog) + TABLES + SLOT * Cardinality(x.decl) + v <= POOL
        PROVE  Within(x, z)
    <3>1. /\ Shape(y) /\ y.arr = updated(x.arr, k, [at |-> at, body |-> b]) /\ y.decl = x.decl /\ y.store = x.store /\ y.prog = x.prog
          /\ y.sess = x.sess /\ y.arena = x.arena /\ y.end2 = x.end2
      BY <1>7, <2>1
    <3>2. f \in Fields /\ {"decl", "store", "prog", "sess", "arr"} \subseteq Fields \ {f} /\ {"arena", "end2"} \subseteq Fields
      BY <2>1 DEF Fields
    <3>3. Shape(z)
      BY <2>1, <3>1, <3>2, SetField
    <3>4. z[f] = v
      BY <2>1, <3>1, <3>2, SetField
    <3>5. \A g \in Fields \ {f} : z[g] = y[g]
      BY <2>1, <3>1, <3>2, SetField
    <3>6. z.arr = y.arr /\ z.decl = x.decl /\ z.store = x.store /\ z.prog = x.prog /\ z.sess = x.sess
      BY <3>1, <3>2, <3>5
    <3>7. f = "end2" => z.end2 = v /\ z.arena = x.arena
      BY <3>1, <3>2, <3>4, <3>5
    <3>8. f = "arena" => z.arena = v /\ z.end2 = x.end2
      BY <3>1, <3>2, <3>4, <3>5
    <3>9. /\ ArrOK(z) /\ Bound(z)
          /\ Segment(z) \subseteq Segment(x) \cup ({k} \X (1 .. b.len)) /\ (at # "seg2" => Segment(z) \subseteq Segment(x))
      <4>1. at \in {"pool", "seg2", "store"} /\ at # "store"
        BY <2>1
      <4>2. z.arr = updated(x.arr, k, [at |-> at, body |-> b])
        BY <3>1, <3>6
      <4> QED BY <1>2, <1>3, <1>9, <3>6, <4>1, <4>2, NewArray
    <3>10. bytes(x.store) \in Nat
      BY StoreFacts DEF Exec
    <3>11. KeepsStore(x, z)
      BY <3>6, KeepsItself
    <3>12. CASE f = "end2"
      <4>1. Overflow(z) <= Overflow(x) + b.len /\ Overflow(z) \in Nat /\ Overflow(x) \in Nat
        BY <1>3, <1>6, <2>1, <3>9, <3>12, OverflowMore DEF ArrOK
      <4>2. pool_used(z) = pool_used(x)
        BY <3>6, <3>7, <3>12 DEF pool_used
      <4>3. Layout(z)
        BY <1>3, <1>6, <2>1, <3>6, <3>7, <3>9, <3>10, <3>12, <4>1, <4>2 DEF Layout
      <4> QED BY <3>3, <3>6, <3>9, <3>11, <4>3 DEF Within, Exec
    <3>13. CASE f = "arena"
      <4>1. Overflow(z) <= Overflow(x) /\ Overflow(z) \in Nat /\ Overflow(x) \in Nat
        <5>1. Segment(z) \subseteq Segment(x)
          BY <2>1, <3>9, <3>13
        <5> QED BY <1>6, <5>1, OverflowFewer DEF ArrOK
      <4>2. pool_used(z) <= POOL
        BY <2>1, <3>6, <3>8, <3>13 DEF pool_used
      <4>3. Layout(z)
        BY <1>3, <1>6, <2>1, <3>6, <3>8, <3>9, <3>10, <3>13, <4>1, <4>2 DEF Layout
      <4> QED BY <3>3, <3>6, <3>9, <3>11, <4>3 DEF Within, Exec
    <3> QED BY <2>1, <3>12, <3>13
  <2>2. PICK yp, ys : /\ yp = [x EXCEPT !.arr = updated(x.arr, k, [at |-> "pool", body |-> b])]
                      /\ ys = [x EXCEPT !.arr = updated(x.arr, k, [at |-> "seg2", body |-> b])]
    OBVIOUS
  <2>3. yp.arena = x.arena /\ ys.end2 = x.end2
    BY <1>7, <2>2
  <2>4. x.arena \in Nat /\ x.end2 \in Nat
    BY <1>6 DEF Layout
  <2>5. dim(x, k, n, w) =
          IF n >= MAX_ELEMENTS THEN [x EXCEPT !.ve = 64]
          ELSE IF pool_used(x) + b.len < POOL THEN [yp EXCEPT !.arena = x.arena + b.len]
          ELSE IF x.end2 + b.len < top THEN [ys EXCEPT !.end2 = x.end2 + b.len] ELSE [x EXCEPT !.ve = 64]
    BY <1>1, <1>4, <1>9, <2>2, <2>3 DEF dim
  <2>6. Within(x, [x EXCEPT !.ve = 64])
    BY Others, OneField
  <2>7. pool_used(x) + b.len < POOL => Within(x, [yp EXCEPT !.arena = x.arena + b.len])
    <3>1. PICK v : v = x.arena + b.len
      OBVIOUS
    <3>2. v \in Nat
      BY <1>3, <2>4, <3>1
    <3>3. size(x.prog) \in Nat /\ TABLES \in Nat /\ POOL \in Nat
      BY Programs, SizesAssumption DEF Exec
    <3>4. PICK s : s = SLOT * Cardinality(x.decl)
      OBVIOUS
    <3>5. s \in Nat
      BY <3>4, SlotsNat DEF Exec
    <3>6. pool_used(x) = size(x.prog) + TABLES + s + x.arena
      BY <3>4 DEF pool_used
    <3>7. pool_used(x) + b.len < POOL => size(x.prog) + TABLES + s + v <= POOL
      BY ONLY <1>3, <2>4, <3>1, <3>3, <3>5, <3>6
    <3> QED BY <2>1, <2>2, <3>1, <3>2, <3>4, <3>7
  <2>8. x.end2 + b.len < top => Within(x, [ys EXCEPT !.end2 = x.end2 + b.len])
    <3>1. PICK v : v = x.end2 + b.len
      OBVIOUS
    <3>2. v \in Nat /\ (v < top => v <= SEG2)
      BY <1>3, <1>5, <2>4, <3>1
    <3> QED BY <2>1, <2>2, <3>1, <3>2
  <2> QED BY <2>5, <2>6, <2>7, <2>8
<1> QED BY <1>8, <1>9

-----------------------------------------------------------------------------
\* Several fields at once.

Agree(x, y, S) == \A g \in Fields \ S : y[g] = x[g]

\* One field changes: its value, and all the other fields.
LEMMA Change ==
  ASSUME NEW x, Shape(x), NEW f \in Fields, NEW v
  PROVE  Shape([x EXCEPT ![f] = v]) /\ [x EXCEPT ![f] = v][f] = v /\ Agree(x, [x EXCEPT ![f] = v], {f})
BY SMT DEF Shape, Agree

\* The names of the fields.
LEMMA Names == \A f \in {"prog", "sess", "vars", "decl", "arr", "arena", "end2", "store",
                         "package", "registry", "grabbed", "mode", "ram", "msg", "ce", "ve"} : f \in Fields
BY DEF Fields

\* fresh, field by field.
LEMMA FreshFacts ==
  ASSUME NEW x, Shape(x), NEW y, y = fresh(x)
  PROVE  /\ Shape(y) /\ y.vars = Boot.vars /\ y.arr = Boot.arr /\ y.arena = 0 /\ y.end2 = bytes(x.store)
         /\ Agree(x, y, {"vars", "arr", "arena", "end2"})
<1> DEFINE a1 == [x EXCEPT !.vars = Boot.vars]
           a2 == [a1 EXCEPT !.arr = Boot.arr]
           a3 == [a2 EXCEPT !.arena = 0]
           a4 == [a3 EXCEPT !.end2 = bytes(x.store)]
<1>1. Shape(a1) /\ a1.vars = Boot.vars /\ Agree(x, a1, {"vars"})
  BY Change, Names
<1> HIDE DEF a1
<1>2. Shape(a2) /\ a2.arr = Boot.arr /\ Agree(a1, a2, {"arr"})
  BY <1>1, Change, Names
<1> HIDE DEF a2
<1>3. Shape(a3) /\ a3.arena = 0 /\ Agree(a2, a3, {"arena"})
  BY <1>2, Change, Names
<1> HIDE DEF a3
<1>4. Shape(a4) /\ a4.end2 = bytes(x.store) /\ Agree(a3, a4, {"end2"})
  BY <1>3, Change, Names
<1>5. y = a4
  BY DEF fresh, a1, a2, a3
<1> HIDE DEF a4
<1> QED BY <1>1, <1>2, <1>3, <1>4, <1>5, Names DEF Agree, Fields

\* ended, field by field.
LEMMA EndedFacts ==
  ASSUME NEW x, Shape(x), NEW y, y = ended(x)
  PROVE  /\ Shape(y) /\ y.sess = FALSE /\ y.vars = Boot.vars /\ y.decl = {} /\ y.arr = Boot.arr
         /\ Agree(x, y, {"sess", "vars", "decl", "arr"})
<1> DEFINE a1 == [x EXCEPT !.sess = FALSE]
           a2 == [a1 EXCEPT !.vars = Boot.vars]
           a3 == [a2 EXCEPT !.decl = {}]
           a4 == [a3 EXCEPT !.arr = Boot.arr]
<1>1. Shape(a1) /\ a1.sess = FALSE /\ Agree(x, a1, {"sess"})
  BY Change, Names
<1> HIDE DEF a1
<1>2. Shape(a2) /\ a2.vars = Boot.vars /\ Agree(a1, a2, {"vars"})
  BY <1>1, Change, Names
<1> HIDE DEF a2
<1>3. Shape(a3) /\ a3.decl = {} /\ Agree(a2, a3, {"decl"})
  BY <1>2, Change, Names
<1> HIDE DEF a3
<1>4. Shape(a4) /\ a4.arr = Boot.arr /\ Agree(a3, a4, {"arr"})
  BY <1>3, Change, Names
<1>5. y = a4
  BY DEF ended, a1, a2, a3
<1> HIDE DEF a4
<1> QED BY <1>1, <1>2, <1>3, <1>4, <1>5, Names DEF Agree, Fields

\* quiet, field by field.
LEMMA QuietFacts ==
  ASSUME NEW x, Shape(x), NEW y, y = quiet(x)
  PROVE  /\ Shape(y) /\ y.msg = "none" /\ y.ce = 0 /\ y.ve = 0
         /\ Agree(x, y, {"msg", "ce", "ve"})
<1> DEFINE a1 == [x EXCEPT !.msg = "none"]
           a2 == [a1 EXCEPT !.ce = 0]
           a3 == [a2 EXCEPT !.ve = 0]
<1>1. Shape(a1) /\ a1.msg = "none" /\ Agree(x, a1, {"msg"})
  BY Change, Names
<1> HIDE DEF a1
<1>2. Shape(a2) /\ a2.ce = 0 /\ Agree(a1, a2, {"ce"})
  BY <1>1, Change, Names
<1> HIDE DEF a2
<1>3. Shape(a3) /\ a3.ve = 0 /\ Agree(a2, a3, {"ve"})
  BY <1>2, Change, Names
<1>4. y = a3
  BY DEF quiet, a1, a2
<1> HIDE DEF a3
<1> QED BY <1>1, <1>2, <1>3, <1>4, Names DEF Agree, Fields

\* show, field by field.
LEMMA ShowFacts ==
  ASSUME NEW x, Shape(x), NEW t, NEW y, y = show(x, t)
  PROVE  /\ Shape(y) /\ y.msg = t
         /\ Agree(x, y, {"msg"})
<1> DEFINE a1 == [x EXCEPT !.msg = t]
<1>1. Shape(a1) /\ a1.msg = t /\ Agree(x, a1, {"msg"})
  BY Change, Names
<1>2. y = a1
  BY DEF show
<1> HIDE DEF a1
<1> QED BY <1>1, <1>2, Names DEF Agree, Fields

\* The declarations and the two errors are set.
LEMMA SetDecl ==
  ASSUME NEW x, Shape(x), NEW d, NEW e, NEW y, y = [x EXCEPT !.decl = d, !.ce = 0, !.ve = e]
  PROVE  /\ Shape(y) /\ y.decl = d /\ y.ce = 0 /\ y.ve = e
         /\ Agree(x, y, {"decl", "ce", "ve"})
<1> DEFINE a1 == [x EXCEPT !.decl = d]
           a2 == [a1 EXCEPT !.ce = 0]
           a3 == [a2 EXCEPT !.ve = e]
<1>1. Shape(a1) /\ a1.decl = d /\ Agree(x, a1, {"decl"})
  BY Change, Names
<1> HIDE DEF a1
<1>2. Shape(a2) /\ a2.ce = 0 /\ Agree(a1, a2, {"ce"})
  BY <1>1, Change, Names
<1> HIDE DEF a2
<1>3. Shape(a3) /\ a3.ve = e /\ Agree(a2, a3, {"ve"})
  BY <1>2, Change, Names
<1>4. y = a3
  BY DEF a1, a2
<1> HIDE DEF a3
<1> QED BY <1>1, <1>2, <1>3, <1>4, Names DEF Agree, Fields

\* A session is started.
LEMMA SetSess ==
  ASSUME NEW x, Shape(x), NEW d, NEW y, y = [x EXCEPT !.sess = TRUE, !.decl = d, !.ce = 0, !.ve = 0]
  PROVE  /\ Shape(y) /\ y.sess = TRUE /\ y.decl = d /\ y.ce = 0 /\ y.ve = 0
         /\ Agree(x, y, {"sess", "decl", "ce", "ve"})
<1> DEFINE a1 == [x EXCEPT !.sess = TRUE]
           a2 == [a1 EXCEPT !.decl = d]
           a3 == [a2 EXCEPT !.ce = 0]
           a4 == [a3 EXCEPT !.ve = 0]
<1>1. Shape(a1) /\ a1.sess = TRUE /\ Agree(x, a1, {"sess"})
  BY Change, Names
<1> HIDE DEF a1
<1>2. Shape(a2) /\ a2.decl = d /\ Agree(a1, a2, {"decl"})
  BY <1>1, Change, Names
<1> HIDE DEF a2
<1>3. Shape(a3) /\ a3.ce = 0 /\ Agree(a2, a3, {"ce"})
  BY <1>2, Change, Names
<1> HIDE DEF a3
<1>4. Shape(a4) /\ a4.ve = 0 /\ Agree(a3, a4, {"ve"})
  BY <1>3, Change, Names
<1>5. y = a4
  BY DEF a1, a2, a3
<1> HIDE DEF a4
<1> QED BY <1>1, <1>2, <1>3, <1>4, <1>5, Names, ZenonT(40) DEF Agree, Fields

\* The room of a session, and all that holds of a machine but that its declared arrays are bound.
Room(x) ==
  /\ x.end2 \in Nat /\ bytes(x.store) + Overflow(x) <= x.end2 /\ x.end2 <= SEG2
  /\ x.arena \in Nat /\ pool_used(x) <= POOL
Loose(x) ==
  /\ Shape(x) /\ x.prog \in PROGS \cup {<<>>} /\ x.sess \in BOOLEAN
  /\ StoreOK(x.store) /\ DeclOK(x.decl) /\ ArrOK(x) /\ Room(x)

\* A run is sound when its layout is and its declared arrays are bound.
LEMMA ExecIs ==
  ASSUME NEW x
  PROVE  Exec(x) <=> Loose(x) /\ Bound(x)
BY DEF Exec, Loose, Layout, Room

\* ARR_RUN_BIND.
LEMMA BindKeeps ==
  ASSUME NEW x, Loose(x), NEW y, y = bind(x, x.decl)
  PROVE  /\ Exec(y) /\ Agree(x, y, {"arr"})
         /\ \A d \in x.decl : stored(x, d[1]) # {} => d[1] \in DOMAIN y.arr
<1> DEFINE ks == {d[1] : d \in {e \in x.decl : stored(x, e[1]) # {}}}
           u == [k \in DOMAIN x.arr \cup ks |-> IF k \in ks THEN Stored ELSE x.arr[k]]
<1>1. y = [x EXCEPT !.arr = u]
  BY DEF bind
<1>2. /\ \A k \in ks : stored(x, k) # {} /\ Declared(x, k)
      /\ \A d \in x.decl : stored(x, d[1]) # {} => d[1] \in ks
  BY DEF Declared
<1>3. /\ DOMAIN u = DOMAIN x.arr \cup ks /\ u = [k \in DOMAIN u |-> u[k]]
      /\ \A k \in ks : u[k] = Stored
      /\ \A k \in DOMAIN x.arr \ ks : u[k] = x.arr[k]
  OBVIOUS
<1> HIDE DEF ks, u
<1>4. Shape(y) /\ y.arr = u /\ Agree(x, y, {"arr"})
  <2>1. Shape(x)
    BY DEF Loose
  <2>2. Shape([x EXCEPT !.arr = u]) /\ [x EXCEPT !.arr = u].arr = u /\ Agree(x, [x EXCEPT !.arr = u], {"arr"})
    BY <2>1, Change, Names
  <2> QED BY ONLY <1>1, <2>2
<1>5. /\ y.prog = x.prog /\ y.sess = x.sess /\ y.decl = x.decl /\ y.arena = x.arena /\ y.end2 = x.end2
      /\ y.store = x.store
  BY <1>4, Names DEF Agree, Fields
<1>6. \A k : stored(y, k) = stored(x, k) /\ (Declared(y, k) <=> Declared(x, k))
  BY <1>5 DEF stored, Declared
<1>7. ArrOK(x)
  BY DEF Loose
<1>8. \A k \in DOMAIN y.arr : Declared(y, k)
  BY <1>2, <1>3, <1>4, <1>6, <1>7 DEF ArrOK
<1>9. \A k \in ks : SoundArray(y, k)
  BY <1>2, <1>3, <1>4, <1>6 DEF SoundArray, Stored
<1>10. \A k \in DOMAIN x.arr \ ks : SoundArray(y, k)
  BY <1>3, <1>4, <1>6, <1>7 DEF ArrOK, SoundArray
<1>11. Segment(y) \subseteq Segment(x)
  <2> SUFFICES ASSUME NEW c \in Segment(y) PROVE c \in Segment(x)
    OBVIOUS
  <2>1. PICK k \in DOMAIN y.arr : y.arr[k].at = "seg2" /\ c \in {k} \X (1 .. y.arr[k].body.len)
    BY DEF Segment, placed
  <2>2. k \notin ks
    BY <1>3, <1>4, <2>1 DEF Stored
  <2>3. k \in placed(x, "seg2") /\ y.arr[k] = x.arr[k]
    BY <1>3, <1>4, <2>1, <2>2 DEF placed
  <2> QED BY <2>1, <2>3 DEF Segment
<1>12. IsFiniteSet(Segment(y)) /\ Overflow(y) <= Overflow(x) /\ Overflow(y) \in Nat /\ Overflow(x) \in Nat
  BY <1>7, <1>11, OverflowFewer DEF ArrOK
<1>13. ArrOK(y)
  BY <1>3, <1>4, <1>8, <1>9, <1>10, <1>12 DEF ArrOK
<1>14. pool_used(y) = pool_used(x)
  BY <1>5 DEF pool_used
<1>15. bytes(x.store) \in Nat
  BY StoreFacts DEF Loose
<1>16. Room(y)
  <2>1. Room(x)
    BY DEF Loose
  <2> QED BY <1>5, <1>12, <1>14, <1>15, <2>1 DEF Room
<1>17. \A d \in x.decl : stored(x, d[1]) # {} => d[1] \in DOMAIN y.arr
  BY <1>2, <1>3, <1>4
<1>18. Bound(y)
  BY <1>5, <1>6, <1>17 DEF Bound
<1>19. Exec(y)
  BY <1>4, <1>5, <1>13, <1>16, <1>18, ExecIs DEF Loose
<1> QED BY <1>4, <1>17, <1>19

\* The variables and arrays are gone, segment 2 holds the store alone.
LEMMA FreshKeeps ==
  ASSUME NEW x, Shape(x), x.prog \in PROGS \cup {<<>>}, x.sess \in BOOLEAN, StoreOK(x.store), DeclOK(x.decl), x.arr = Boot.arr,
         x.arena = 0, x.end2 = bytes(x.store), pool_used(x) <= POOL
  PROVE  Loose(x)
<1>1. DOMAIN x.arr = {} /\ x.arr = [k \in DOMAIN x.arr |-> x.arr[k]]
  BY BootShape
<1>2. IsFiniteSet(Segment(x)) /\ Overflow(x) = 0
  BY <1>1, OverflowNone
<1>3. ArrOK(x)
  BY <1>1, <1>2 DEF ArrOK
<1>4. bytes(x.store) \in Nat /\ bytes(x.store) <= SEG2
  BY StoreFacts DEF StoreOK
<1>5. Room(x)
  BY <1>2, <1>4 DEF Room
<1> QED BY <1>3, <1>5 DEF Loose

\* CLEAR: the arrays go, and the ones with entries are bound again.
LEMMA ClearKeeps ==
  ASSUME NEW x, Exec(x)
  PROVE  Within(x, bind(fresh(x), x.decl))
<1>1. PICK y : y = fresh(x)
  OBVIOUS
<1>2. PICK z : z = bind(y, x.decl)
  OBVIOUS
<1>3. /\ Shape(y) /\ y.arr = Boot.arr /\ y.arena = 0 /\ y.end2 = bytes(x.store) /\ Agree(x, y, {"vars", "arr", "arena", "end2"})
  BY <1>1, FreshFacts DEF Exec
<1>4. y.prog = x.prog /\ y.sess = x.sess /\ y.decl = x.decl /\ y.store = x.store
  BY <1>3, Names DEF Agree, Fields
<1>5. Loose(y)
  <2>1. PICK s, n : s = size(x.prog) + TABLES /\ n = SLOT * Cardinality(x.decl)
    OBVIOUS
  <2>2. s \in Nat /\ n \in Nat /\ x.arena \in Nat /\ POOL \in Nat
    BY <2>1, Programs, SizesAssumption, SlotsNat DEF Exec, Layout
  <2>3. pool_used(x) = s + n + x.arena /\ pool_used(y) = s + n + 0 /\ pool_used(x) <= POOL
    BY <1>3, <1>4, <2>1 DEF pool_used, Exec, Layout
  <2>4. pool_used(y) <= POOL
    BY ONLY <2>2, <2>3
  <2> QED BY <1>3, <1>4, <2>4, FreshKeeps DEF Exec
<1>6. Exec(z) /\ Agree(y, z, {"arr"})
  BY <1>2, <1>4, <1>5, BindKeeps
<1>7. z.prog = x.prog /\ z.sess = x.sess /\ z.decl = x.decl /\ z.store = x.store
  BY <1>4, <1>6, Names DEF Agree, Fields
<1>8. KeepsStore(x, z)
  BY <1>7, KeepsItself
<1> QED BY <1>1, <1>2, <1>6, <1>7, <1>8 DEF Within

-----------------------------------------------------------------------------
\* An element is assigned.

\* An element is assigned: the clipped value fits the width, the shape stays.
LEMMA PutSound ==
  ASSUME NEW k, k[2] \in {2, 3}, NEW b, SoundBody(k, b), NEW i, NEW v, NEW w, w = clipped(k, b, v), NEW c, c = put(b, i, w)
  PROVE  SoundBody(k, c) /\ c.count = b.count /\ c.width = b.width /\ c.len = b.len /\ c.dims = b.dims
<1>1. PICK f : f = [j \in (DOMAIN b.vals \ {i}) \cup {n \in {i} : w # 0} |-> IF j = i THEN w ELSE b.vals[j]]
  OBVIOUS
<1>2. c = [b EXCEPT !.vals = f]
  BY <1>1 DEF put
<1>3. DOMAIN b = {"dims", "count", "width", "vals", "len"}
  BY DEF SoundBody
<1>4. DOMAIN c = DOMAIN b /\ c.vals = f /\ c.dims = b.dims /\ c.count = b.count /\ c.width = b.width /\ c.len = b.len
  BY <1>2, <1>3
<1>5. k[2] = 3 => w < STRING_MAX /\ w < b.width
  <2> SUFFICES ASSUME k[2] = 3 PROVE w < STRING_MAX /\ w < b.width
    OBVIOUS
  <2>1. PICK most : most = IF b.width < STRING_MAX THEN b.width - 1 ELSE STRING_MAX - 1
    OBVIOUS
  <2>2. b.width \in Nat /\ b.width >= 2
    BY DEF SoundBody
  <2>3. most \in Nat /\ most < STRING_MAX /\ most < b.width
    BY <2>1, <2>2 DEF STRING_MAX
  <2>4. w \in 0 .. most
    BY <2>1, <2>3 DEF clipped
  <2> QED BY <2>2, <2>3, <2>4 DEF STRING_MAX
<1>6. \A j \in DOMAIN f : f[j] = w \/ (j \in DOMAIN b.vals /\ f[j] = b.vals[j])
  BY <1>1
<1>7. k[2] = 3 => \A j \in DOMAIN c.vals : c.vals[j] < STRING_MAX /\ c.vals[j] < c.width
  BY <1>4, <1>5, <1>6 DEF SoundBody
<1> QED BY <1>3, <1>4, <1>7 DEF SoundBody

\* A stored entry's body changes, not its elements' number or width.
LEMMA StoredBody ==
  ASSUME NEW s, StoreOK(s), NEW i \in DOMAIN s, NEW b, SoundBody(s[i].key, b), b.count = s[i].body.count,
         NEW t, t = with_body(s, i, b)
  PROVE  /\ StoreOK(t) /\ Shapes(t) = Shapes(s) /\ DOMAIN t = DOMAIN s /\ bytes(t) = bytes(s)
         /\ \A j \in DOMAIN s : j # i => t[j] = s[j]
         /\ t[i].key = s[i].key /\ t[i].body = b
<1>1. DOMAIN s = 1 .. Len(s) /\ Len(s) \in Nat /\ Sized(s)
  BY StoreFacts
<1>2. PICK e : e = [s[i] EXCEPT !.body = b]
  OBVIOUS
<1>3. t = [s EXCEPT ![i] = e]
  BY <1>2 DEF with_body
<1>4. DOMAIN t = DOMAIN s /\ t[i] = e /\ \A j \in DOMAIN s : j # i => t[j] = s[j]
  BY <1>3
<1>5. SoundEntry(s[i])
  BY DEF StoreOK
<1>6. DOMAIN e = DOMAIN s[i] /\ e.key = s[i].key /\ e.size = s[i].size /\ e.body = b
  BY <1>2, <1>5 DEF SoundEntry
<1>7. SoundEntry(e)
  BY <1>5, <1>6 DEF SoundEntry
<1>8. IsSeq(t) /\ Len(t) = Len(s)
  <2>1. DOMAIN t = 1 .. Len(s) /\ t = [j \in 1 .. Len(s) |-> t[j]]
    BY <1>1, <1>3, <1>4
  <2> QED BY <1>1, <2>1, SeqBuilt
<1>9. \A j \in DOMAIN s : t[j].key = s[j].key /\ t[j].size = s[j].size
  BY <1>4, <1>6
<1>10. bytes(t) = bytes(s)
  BY <1>1, <1>8, <1>9, BytesSame
<1>11. StoreOK(t)
  BY <1>4, <1>7, <1>8, <1>9, <1>10 DEF StoreOK
<1>12. Shapes(t) = Shapes(s)
  BY <1>4, <1>9 DEF Shapes
<1> QED BY <1>4, <1>6, <1>10, <1>11, <1>12

\* An element of an array in the store is assigned in place.
LEMMA AssignStored ==
  ASSUME NEW x, Exec(x), NEW k \in DOMAIN x.arr, stored(x, k) # {}, NEW b, SoundBody(k, b), b.count = found(x, k).body.count,
         b.width = found(x, k).body.width, NEW y, y = [x EXCEPT !.store = with_body(x.store, Min(stored(x, k)), b)]
  PROVE  Within(x, y)
<1>1. StoreOK(x.store) /\ ArrOK(x) /\ Room(x) /\ Bound(x) /\ Shape(x)
  BY DEF Exec, Layout, Room
<1>2. PICK i \in DOMAIN x.store : /\ x.store[i].key = k /\ Min(stored(x, k)) = i /\ found(x, k) = x.store[i]
                                 /\ \A j \in DOMAIN x.store : x.store[j].key = k => j = i
  BY <1>1, Found
<1>3. PICK t : t = with_body(x.store, i, b)
  OBVIOUS
<1>4. /\ StoreOK(t) /\ Shapes(t) = Shapes(x.store) /\ DOMAIN t = DOMAIN x.store /\ bytes(t) = bytes(x.store)
      /\ \A j \in DOMAIN x.store : j # i => t[j] = x.store[j]
      /\ t[i].key = x.store[i].key /\ t[i].body = b
  BY <1>1, <1>2, <1>3, StoredBody
<1>5. y = [x EXCEPT !.store = t]
  BY <1>2, <1>3
<1>6. Shape(y) /\ y.store = t /\ Agree(x, y, {"store"})
  <2>1. Shape([x EXCEPT !.store = t]) /\ [x EXCEPT !.store = t].store = t /\ Agree(x, [x EXCEPT !.store = t], {"store"})
    BY <1>1, Change, Names
  <2> QED BY ONLY <1>5, <2>1
<1>7. /\ y.prog = x.prog /\ y.sess = x.sess /\ y.decl = x.decl /\ y.arena = x.arena /\ y.end2 = x.end2
      /\ y.arr = x.arr
  BY <1>6, Names DEF Agree, Fields
<1>8. \A j \in DOMAIN x.store : t[j].key = x.store[j].key
  BY <1>4
<1>9. \A c : stored(y, c) = stored(x, c) /\ (Declared(y, c) <=> Declared(x, c))
  BY <1>4, <1>6, <1>7, <1>8, ZenonT(40) DEF stored, Declared
<1>10. \A c : stored(x, c) # {} => found(y, c).body.count = found(x, c).body.count /\ found(y, c).body.width = found(x, c).body.width
  <2> SUFFICES ASSUME NEW c, stored(x, c) # {}
               PROVE  found(y, c).body.count = found(x, c).body.count /\ found(y, c).body.width = found(x, c).body.width
    OBVIOUS
  <2>1. PICK j \in DOMAIN x.store : Min(stored(x, c)) = j /\ found(x, c) = x.store[j]
    BY <1>1, Found
  <2>2. found(y, c) = t[j]
    BY <1>6, <1>9, <2>1 DEF found
  <2> QED BY <1>2, <1>4, <2>1, <2>2
<1>11. mismatch(y, y.decl) <=> mismatch(x, x.decl)
  <2>1. \A d \in x.decl : stored(y, d[1]) = stored(x, d[1]) /\ (stored(x, d[1]) # {} =>
          found(y, d[1]).body.count = found(x, d[1]).body.count /\ found(y, d[1]).body.width = found(x, d[1]).body.width)
    BY <1>9, <1>10
  <2> QED BY <1>7, <2>1 DEF mismatch
<1>12. \A c : SoundArray(y, c) <=> SoundArray(x, c)
  BY <1>7, <1>9 DEF SoundArray
<1>13. Segment(y) = Segment(x)
  BY <1>7 DEF Segment, placed
<1>14. ArrOK(y)
  BY <1>1, <1>7, <1>9, <1>12, <1>13 DEF ArrOK
<1>15. Room(y)
  <2>1. Overflow(y) = Overflow(x) /\ pool_used(y) = pool_used(x)
    BY <1>7, <1>13, OverflowIs DEF pool_used
  <2> QED BY <1>1, <1>4, <1>6, <1>7, <2>1 DEF Room
<1>16. Bound(y)
  BY <1>1, <1>7, <1>9, <1>11 DEF Bound
<1>17. Exec(y)
  BY <1>4, <1>6, <1>7, <1>14, <1>15, <1>16 DEF Exec, Layout, Room
<1>18. Declared(x, k)
  BY <1>1 DEF ArrOK
<1>19. KeepsStore(x, y)
  BY <1>2, <1>4, <1>6, <1>18 DEF KeepsStore
<1> QED BY <1>7, <1>17, <1>19 DEF Within

\* An element of an array in the pool or in segment 2 is assigned in place.
LEMMA AssignOwn ==
  ASSUME NEW x, Exec(x), NEW k \in DOMAIN x.arr, stored(x, k) = {}, NEW b, SoundBody(k, b), b.len = x.arr[k].body.len,
         NEW y, y = [x EXCEPT !.arr = updated(x.arr, k, [at |-> x.arr[k].at, body |-> b])]
  PROVE  Within(x, y)
<1>1. StoreOK(x.store) /\ ArrOK(x) /\ Room(x) /\ Bound(x) /\ Shape(x)
  BY DEF Exec, Layout, Room
<1>2. PICK at : at = x.arr[k].at
  OBVIOUS
<1>3. at \in {"pool", "seg2", "store"} /\ at # "store" /\ Declared(x, k)
  BY <1>1, <1>2 DEF ArrOK, SoundArray
<1>4. Shape(y) /\ y.arr = updated(x.arr, k, [at |-> at, body |-> b]) /\ Agree(x, y, {"arr"})
  <2> DEFINE u == updated(x.arr, k, [at |-> at, body |-> b])
  <2>1. Shape([x EXCEPT !.arr = u]) /\ [x EXCEPT !.arr = u].arr = u /\ Agree(x, [x EXCEPT !.arr = u], {"arr"})
    BY <1>1, Change, Names
  <2>2. y = [x EXCEPT !.arr = u]
    BY <1>2
  <2> HIDE DEF u
  <2>3. Shape(y) /\ y.arr = u /\ Agree(x, y, {"arr"})
    BY ONLY <2>1, <2>2
  <2> QED BY <2>3 DEF u
<1>5. /\ y.prog = x.prog /\ y.sess = x.sess /\ y.decl = x.decl /\ y.arena = x.arena /\ y.end2 = x.end2
      /\ y.store = x.store
  BY <1>4, Names DEF Agree, Fields
<1>6. /\ ArrOK(y) /\ Bound(y)
      /\ Segment(y) \subseteq Segment(x) \cup ({k} \X (1 .. b.len)) /\ (at # "seg2" => Segment(y) \subseteq Segment(x))
  <2>1. (at = "store" <=> stored(x, k) # {}) /\ IF at = "store" THEN b = Stored.body ELSE SoundBody(k, b)
    BY <1>3
  <2>2. at \in {"pool", "seg2", "store"} /\ Declared(x, k)
    BY <1>3
  <2>3. y.arr = updated(x.arr, k, [at |-> at, body |-> b]) /\ y.decl = x.decl /\ y.store = x.store
    BY <1>4, <1>5
  <2>4. ArrOK(y)
    BY <2>1, <2>2, <2>3, NewArray
  <2>5. Bound(y)
    BY <2>1, <2>2, <2>3, NewArray
  <2>8. Exec(x)
    OBVIOUS
  <2>6. Segment(y) \subseteq Segment(x) \cup ({k} \X (1 .. b.len))
    BY ONLY <2>1, <2>2, <2>3, <2>8, NewArray
  <2>7. at # "seg2" => Segment(y) \subseteq Segment(x)
    BY <2>1, <2>2, <2>3, NewArray
  <2> QED BY <2>4, <2>5, <2>6, <2>7
<1>7. at = "seg2" => {k} \X (1 .. b.len) \subseteq Segment(x)
  <2>1. at = "seg2" => k \in placed(x, "seg2")
    BY <1>2 DEF placed
  <2> QED BY <2>1 DEF Segment
<1>8. Segment(y) \subseteq Segment(x)
  BY <1>6, <1>7
<1>9. Overflow(y) <= Overflow(x) /\ Overflow(y) \in Nat /\ Overflow(x) \in Nat
  BY <1>1, <1>8, OverflowFewer DEF ArrOK
<1>10. pool_used(y) = pool_used(x)
  BY <1>5 DEF pool_used
<1>11. bytes(x.store) \in Nat
  BY <1>1, StoreFacts
<1>12. Room(y)
  BY <1>1, <1>5, <1>9, <1>10, <1>11 DEF Room
<1>13. Exec(y)
  BY <1>1, <1>4, <1>5, <1>6, <1>12 DEF Exec, Layout, Room
<1>14. KeepsStore(x, y)
  BY <1>5, KeepsItself
<1> QED BY <1>5, <1>13, <1>14 DEF Within

\* Every assignment to an element, whether or not the array and the index exist.
LEMMA AssignKeeps ==
  ASSUME NEW x, Exec(x), NEW k, NEW i, NEW v
  PROVE  Within(x, assign(x, k, i, v))
<1>1. Within(x, [x EXCEPT !.ve = 1])
  BY Others, OneField
<1>2. CASE v = -1 \/ k \notin DOMAIN x.arr
  BY <1>1, <1>2 DEF assign
<1>3. CASE v # -1 /\ k \in DOMAIN x.arr /\ i \notin 0 .. body(x, k).count - 1
  BY <1>1, <1>3 DEF assign
<1>4. CASE v # -1 /\ k \in DOMAIN x.arr /\ i \in 0 .. body(x, k).count - 1
  <2>1. StoreOK(x.store) /\ SoundArray(x, k) /\ Declared(x, k)
    BY <1>4 DEF Exec, ArrOK
  <2>2. k[2] \in {2, 3}
    BY <2>1 DEF Declared, Exec, DeclOK, shaped
  <2>3. PICK b, w, c : b = body(x, k) /\ w = clipped(k, b, v) /\ c = put(b, i, w)
    OBVIOUS
  <2>4. assign(x, k, i, v) = set_body(x, k, c)
    BY <1>4, <2>3 DEF assign
  <2>5. CASE stored(x, k) # {}
    <3>1. x.arr[k].at = "store"
      BY <2>1, <2>5 DEF SoundArray
    <3>2. b = found(x, k).body
      BY <2>3, <3>1 DEF body
    <3>3. SoundBody(k, b)
      BY <2>1, <2>5, <3>2, Found DEF StoreOK, SoundEntry
    <3>4. SoundBody(k, c) /\ c.count = b.count /\ c.width = b.width
      BY <2>2, <2>3, <3>3, PutSound
    <3>5. assign(x, k, i, v) = [x EXCEPT !.store = with_body(x.store, Min(stored(x, k)), c)]
      BY <2>4, <3>1 DEF set_body
    <3> QED BY <1>4, <2>5, <3>2, <3>4, <3>5, AssignStored
  <2>6. CASE stored(x, k) = {}
    <3>1. x.arr[k].at # "store" /\ b = x.arr[k].body /\ SoundBody(k, b)
      BY <2>1, <2>3, <2>6 DEF SoundArray, body
    <3>2. SoundBody(k, c) /\ c.len = b.len
      BY <2>2, <2>3, <3>1, PutSound
    <3>3. assign(x, k, i, v) = [x EXCEPT !.arr = updated(x.arr, k, [at |-> x.arr[k].at, body |-> c])]
      BY <2>4, <3>1 DEF set_body
    <3> QED BY <1>4, <2>6, <3>1, <3>2, <3>3, AssignOwn
  <2> QED BY <2>5, <2>6
<1> QED BY <1>2, <1>3, <1>4

-----------------------------------------------------------------------------
\* A statement, and a run.

\* No package has a word of the language's own.
LEMMA Words == \A w \in {"let", "dim", "set", "clear", "poke"} : w \notin Package
<1>1. /\ ToSet(<<"CIRCLE", "FILL">>) = {"CIRCLE", "FILL"}
      /\ ToSet(<<"MODE", "ULAPLUS", "PALETTE">>) = {"MODE", "ULAPLUS", "PALETTE"}
      /\ ToSet(<<"GRAB", "SHOW", "MOVE", "HIDE">>) = {"GRAB", "SHOW", "MOVE", "HIDE"}
      /\ ToSet(<<"LPRINT", "LPRINT$", "LLIST">>) = {"LPRINT", "LPRINT$", "LLIST"}
  BY DEF ToSet
<1>2. DOMAIN Packages = {"shapes", "mode", "sprite", "printer"}
  BY DEF Packages
<1>3. /\ Packages["shapes"] = <<"CIRCLE", "FILL">> /\ Packages["mode"] = <<"MODE", "ULAPLUS", "PALETTE">>
      /\ Packages["sprite"] = <<"GRAB", "SHOW", "MOVE", "HIDE">> /\ Packages["printer"] = <<"LPRINT", "LPRINT$", "LLIST">>
  BY DEF Packages
<1>4. \A p \in DOMAIN Packages : \A w \in {"let", "dim", "set", "clear", "poke"} : w \notin ToSet(Packages[p])
  BY <1>1, <1>2, <1>3
<1> QED BY <1>4 DEF Package

\* One statement.
LEMMA StatementKeeps ==
  ASSUME NEW x, Exec(x), NEW st, st[1] = "dim" => <<st[2], st[3], st[4]>> \in x.decl
  PROVE  Within(x, statement(x, st))
<1>1. \A f \in Fields \ Kept : \A v : Within(x, [x EXCEPT ![f] = v])
  BY OneField
<1>2. "vars" \in Fields \ Kept /\ "ve" \in Fields \ Kept /\ "ram" \in Fields \ Kept
  BY Others
<1>9. st[1] \in {"let", "dim", "set", "clear", "poke"} => st[1] \notin Package
  BY Words
<1>3. CASE st[1] = "let"
  <2>1. PICK v, u : v = eval(x, st[3]) /\ u = updated(x.vars, st[2], v)
    OBVIOUS
  <2>2. statement(x, st) = IF v = -1 THEN [x EXCEPT !.ve = 1] ELSE [x EXCEPT !.vars = u]
    BY <1>3, <1>9, <2>1 DEF statement
  <2>3. Within(x, [x EXCEPT !.ve = 1]) /\ Within(x, [x EXCEPT !.vars = u])
    BY <1>1, <1>2
  <2> QED BY <2>2, <2>3
<1>4. CASE st[1] = "dim"
  <2>1. statement(x, st) = dim(x, st[2], st[3], st[4])
    BY <1>4, <1>9 DEF statement
  <2> QED BY <1>4, <2>1, DimKeeps
<1>5. CASE st[1] = "set"
  <2>1. statement(x, st) = assign(x, st[2], eval(x, st[3]), eval(x, st[4]))
    BY <1>5, <1>9 DEF statement
  <2> QED BY <2>1, AssignKeeps
<1>6. CASE st[1] = "clear"
  <2>1. statement(x, st) = bind(fresh(x), x.decl)
    BY <1>6, <1>9 DEF statement
  <2> QED BY <2>1, ClearKeeps
<1>7. CASE st[1] = "poke"
  <2>1. PICK u : u = updated(x.ram, eval(x, st[2]), eval(x, st[3]) % 256)
    OBVIOUS
  <2>2. statement(x, st) = [x EXCEPT !.ram = u]
    BY <1>7, <1>9, <2>1 DEF statement
  <2> QED BY <1>1, <1>2, <2>2
<1>8. CASE st[1] \notin {"let", "dim", "set", "clear", "poke"}
  <2>1. statement(x, st) = IF st[1] \in Package THEN package(x, st[1], st[2]) ELSE x
    BY <1>8 DEF statement
  <2> QED BY <2>1, PackageKeeps, Itself
<1> QED BY <1>3, <1>4, <1>5, <1>6, <1>7, <1>8

\* The declarations of a piece of code are among the session's.
Covers(code, decl) == IsSeq(code) /\ \A st \in ToSet(code) : st[1] = "dim" => <<st[2], st[3], st[4]>> \in decl

\* One statement of a program whose declarations are covered.
LEMMA AdvancedKeeps ==
  ASSUME NEW x, Exec(x), NEW code, Covers(code, x.decl), NEW r, Within(x, r.m)
  PROVE  Within(x, advanced(r, code).m)
<1>1. CASE r.m.ve # 0 \/ r.pc \notin DOMAIN code
  BY <1>1 DEF advanced
<1>2. CASE ~(r.m.ve # 0 \/ r.pc \notin DOMAIN code)
  <2>1. PICK y, st : y = r.m /\ st = code[r.pc]
    OBVIOUS
  <2>2. advanced(r, code).m = statement(y, st)
    BY <1>2, <2>1 DEF advanced
  <2>3. st \in ToSet(code)
    BY <1>2, <2>1 DEF ToSet
  <2>4. Exec(y) /\ y.decl = x.decl
    BY <2>1 DEF Within
  <2>5. st[1] = "dim" => <<st[2], st[3], st[4]>> \in y.decl
    BY <2>3, <2>4 DEF Covers
  <2>6. Within(y, statement(y, st))
    BY <2>4, <2>5, StatementKeeps
  <2> QED BY <2>1, <2>2, <2>6, Transitive
<1> QED BY <1>1, <1>2

\* A run is a function of the number of steps.
LEMMA ExecuteRuns ==
  ASSUME NEW x, NEW code
  PROVE  \E run : /\ execute(x, code) = run[FUEL].m /\ run[0] = [m |-> x, pc |-> 1]
                  /\ \A i \in 1 .. FUEL : run[i] = advanced(run[i - 1], code)
<1> DEFINE first == [m |-> x, pc |-> 1]
           steps(g, n) == [i \in 0 .. n |-> IF i = 0 THEN first ELSE advanced(g[i - 1], code)]
           run == CHOOSE g : g = steps(g, FUEL)
           Bad == {n \in Nat : n <= FUEL /\ ~ \E g : g = steps(g, n)}
<1>1. FUEL \in Nat
  BY SizesAssumption
<1>2. execute(x, code) = run[FUEL].m
  BY DEF execute
<1>3. Bad = {}
  <2> SUFFICES ASSUME Bad # {} PROVE FALSE
    OBVIOUS
  <2>1. PICK n \in Bad : \A j \in Bad : n <= j
    <3>1. Bad \subseteq Nat
      OBVIOUS
    <3> HIDE DEF Bad
    <3> QED BY <3>1, LeastNat
  <2>2. n \in Nat /\ n <= FUEL
    OBVIOUS
  <2>3. n # 0
    <3> DEFINE z == [i \in 0 .. 0 |-> first]
    <3>1. z = steps(z, 0)
      OBVIOUS
    <3> QED BY <3>1
  <2>4. n - 1 \in Nat /\ n - 1 <= FUEL /\ n - 1 \notin Bad
    <3> HIDE DEF Bad
    <3> QED BY <1>1, <2>1, <2>2, <2>3
  <2>5. PICK g : g = steps(g, n - 1)
    BY <2>4
  <2> DEFINE h == [i \in 0 .. n |-> IF i = n THEN advanced(g[n - 1], code) ELSE g[i]]
  <2>6. h = steps(h, n)
    <3>1. \A i \in 0 .. n : h[i] = IF i = 0 THEN first ELSE advanced(h[i - 1], code)
      <4> SUFFICES ASSUME NEW i \in 0 .. n PROVE h[i] = IF i = 0 THEN first ELSE advanced(h[i - 1], code)
        OBVIOUS
      <4>1. CASE i = n
        <5>1. h[n] = advanced(g[n - 1], code) /\ h[n - 1] = g[n - 1]
          BY <2>2, <2>3
        <5> HIDE DEF h
        <5> QED BY <2>3, <4>1, <5>1
      <4>2. CASE i = 0
        <5>1. h[0] = g[0] /\ g[0] = first
          BY <2>2, <2>3, <2>5
        <5> QED BY <4>2, <5>1
      <4>3. CASE i # n /\ i # 0
        <5>1. i \in 0 .. n - 1 /\ i - 1 \in 0 .. n - 1 /\ i - 1 # n
          BY <2>2, <4>3
        <5>2. h[i] = g[i] /\ h[i - 1] = g[i - 1]
          BY <2>2, <4>3, <5>1
        <5>3. g[i] = advanced(g[i - 1], code)
          BY <2>5, <4>3, <5>1
        <5> QED BY <4>3, <5>2, <5>3
      <4> QED BY <4>1, <4>2, <4>3
    <3>2. h = [i \in 0 .. n |-> h[i]]
      OBVIOUS
    <3> HIDE DEF h, first
    <3> QED BY <3>1, <3>2
  <2> QED BY <2>2, <2>6
<1>4. run = steps(run, FUEL)
  <2>1. \E g : g = steps(g, FUEL)
    BY <1>1, <1>3, SMTT(40)
  <2> HIDE DEF steps
  <2> QED BY <2>1
<1> HIDE DEF run, Bad
<1>5. run[0] = first /\ \A i \in 1 .. FUEL : run[i] = advanced(run[i - 1], code)
  <2>1. \A i \in 0 .. FUEL : run[i] = IF i = 0 THEN first ELSE advanced(run[i - 1], code)
    <3> HIDE DEF first
    <3> QED BY <1>4
  <2>2. 0 \in 0 .. FUEL
    BY <1>1
  <2> HIDE DEF first
  <2> QED BY <1>1, <2>1, <2>2
<1> QED BY <1>2, <1>5

\* A whole run, of at most FUEL statements.
LEMMA ExecuteKeeps ==
  ASSUME NEW x, Exec(x), NEW code, Covers(code, x.decl)
  PROVE  Within(x, execute(x, code))
<1>1. FUEL \in Nat
  BY SizesAssumption
<1>2. PICK run : /\ execute(x, code) = run[FUEL].m /\ run[0] = [m |-> x, pc |-> 1]
                 /\ \A i \in 1 .. FUEL : run[i] = advanced(run[i - 1], code)
  BY ExecuteRuns
<1>5. run[0].m = x /\ \A i \in 1 .. FUEL : run[i] = advanced(run[i - 1], code)
  BY <1>2
<1> DEFINE Wrong == {n \in Nat : n <= FUEL /\ ~ Within(x, run[n].m)}
<1>6. Wrong = {}
  <2> SUFFICES ASSUME Wrong # {} PROVE FALSE
    OBVIOUS
  <2>1. PICK n \in Wrong : \A j \in Wrong : n <= j
    <3>1. Wrong \subseteq Nat
      OBVIOUS
    <3> HIDE DEF Wrong
    <3> QED BY <3>1, LeastNat
  <2>2. n \in Nat /\ n <= FUEL /\ ~ Within(x, run[n].m)
    OBVIOUS
  <2>3. n # 0
    <3>1. run[0].m = x
      BY <1>5
    <3>2. Within(x, x)
      BY Itself
    <3> QED BY <2>2, <3>1, <3>2
  <2>4. n - 1 \in Nat /\ n - 1 <= FUEL /\ n - 1 \notin Wrong
    <3> HIDE DEF Wrong
    <3> QED BY <1>1, <2>1, <2>2, <2>3
  <2>5. Within(x, run[n - 1].m)
    BY <2>4
  <2>6. run[n] = advanced(run[n - 1], code)
    BY <1>1, <1>5, <2>2, <2>3
  <2>7. Within(x, advanced(run[n - 1], code).m)
    BY <2>5, AdvancedKeeps
  <2> QED BY <2>2, <2>6, <2>7
<1>7. Within(x, run[FUEL].m)
  BY <1>1, <1>6
<1> QED BY <1>2, <1>7

\* An error that is raised already stops a run at once.
LEMMA ExecuteStopped ==
  ASSUME NEW x, x.ve # 0, NEW code
  PROVE  execute(x, code) = x
<1>1. FUEL \in Nat
  BY SizesAssumption
<1>2. PICK run : /\ execute(x, code) = run[FUEL].m /\ run[0] = [m |-> x, pc |-> 1]
                 /\ \A i \in 1 .. FUEL : run[i] = advanced(run[i - 1], code)
  BY ExecuteRuns
<1> DEFINE Wrong == {n \in Nat : n <= FUEL /\ run[n].m # x}
<1>3. Wrong = {}
  <2> SUFFICES ASSUME Wrong # {} PROVE FALSE
    OBVIOUS
  <2>1. PICK n \in Wrong : \A j \in Wrong : n <= j
    <3>1. Wrong \subseteq Nat
      OBVIOUS
    <3> HIDE DEF Wrong
    <3> QED BY <3>1, LeastNat
  <2>2. n \in Nat /\ n <= FUEL /\ run[n].m # x
    OBVIOUS
  <2>3. n # 0
    <3>1. run[0].m = x
      BY <1>2
    <3> QED BY <2>2, <3>1
  <2>4. n - 1 \in Nat /\ n - 1 <= FUEL /\ n - 1 \notin Wrong
    <3> HIDE DEF Wrong
    <3> QED BY <1>1, <2>1, <2>2, <2>3
  <2>5. run[n - 1].m = x
    BY <2>4
  <2>6. run[n] = advanced(run[n - 1], code)
    BY <1>1, <1>2, <2>2, <2>3
  <2>7. advanced(run[n - 1], code) = run[n - 1]
    BY <2>5 DEF advanced
  <2> QED BY <2>2, <2>5, <2>6, <2>7
<1>4. run[FUEL].m = x
  BY <1>1, <1>3
<1> QED BY <1>2, <1>4

-----------------------------------------------------------------------------
\* RUN, an immediate statement and NEW.

\* The pool a machine uses; whether its session's tables fit.
LEMMA PoolNat ==
  ASSUME NEW x, x.prog \in PROGS \cup {<<>>}, DeclOK(x.decl), x.arena \in Nat
  PROVE  pool_used(x) \in Nat /\ (unfit(x) <=> x.sess /\ ~(pool_used(x) <= POOL))
<1>1. size(x.prog) \in Nat /\ SLOT * Cardinality(x.decl) \in Nat /\ TABLES \in Nat /\ POOL \in Nat
  BY Programs, SlotsNat, SizesAssumption
<1>2. PICK n : n = SLOT * Cardinality(x.decl)
  OBVIOUS
<1>3. pool_used(x) = size(x.prog) + TABLES + n + x.arena
  BY <1>2 DEF pool_used
<1>4. pool_used(x) \in Nat
  BY ONLY <1>1, <1>2, <1>3, x.arena \in Nat
<1>5. pool_used(x) > POOL <=> ~(pool_used(x) <= POOL)
  BY <1>1, <1>4
<1> QED BY <1>4, <1>5 DEF unfit

\* In a run the tables fit.
LEMMA ExecFits ==
  ASSUME NEW x, Exec(x)
  PROVE  ~unfit(x) /\ pool_used(x) \in Nat /\ pool_used(x) <= POOL
BY PoolNat DEF Exec, Layout

\* Stale slots are judged by the declarations and their own table.
LEMMA SameStale ==
  ASSUME NEW x, StaleOK(x), NEW y, y.decl = x.decl, y.arr = x.arr
  PROVE  StaleOK(y)
BY DEF StaleOK, Declared

\* A machine is judged by the fields in Kept.
LEMMA MachineSame ==
  ASSUME NEW x, Machine(x), NEW y, Shape(y), Same(x, y), y.mode = 0
  PROVE  Machine(y)
<1>1. ArrOK(x) => ArrOK(y) /\ Overflow(y) = Overflow(x)
  BY SameArr DEF Same
<1>2. StaleOK(x) => StaleOK(y)
  BY SameStale DEF Same
<1>3. pool_used(y) = pool_used(x) /\ (unfit(y) <=> unfit(x))
  BY DEF unfit, pool_used, Same
<1>4. Bound(x) => Bound(y)
  BY SameBound DEF Same
<1>5. ArrOK(x) /\ Layout(x) => Layout(y)
  BY <1>1, <1>3, <1>4 DEF Layout, Same
<1>6. y.prog = x.prog /\ y.sess = x.sess /\ y.decl = x.decl /\ y.store = x.store /\ y.end2 = x.end2 /\ y.arena = x.arena
  BY DEF Same
<1>7. x.sess /\ ~unfit(x) => ArrOK(x) /\ Layout(x)
  BY DEF Machine
<1>8. unfit(x) => StaleOK(x) /\ x.end2 = 0 /\ x.arena = 0
  BY DEF Machine
<1> QED BY <1>1, <1>2, <1>3, <1>5, <1>6, <1>7, <1>8 DEF Machine

\* What a run that did not start leaves, and one that did or did not.
Halted(x) ==
  /\ Shape(x) /\ x.prog \in PROGS \cup {<<>>} /\ x.sess \in BOOLEAN /\ StoreOK(x.store) /\ DeclOK(x.decl)
  /\ StaleOK(x) /\ x.end2 = 0 /\ x.arena = 0 /\ ~(pool_used(x) <= POOL) /\ x.ve # 0
Ran(x) == Exec(x) \/ Halted(x)

\* A run that ends leaves a sound machine.
LEMMA RanMachine ==
  ASSUME NEW x, Ran(x), x.sess => Dims(x.prog) \subseteq x.decl, NEW y, Shape(y), Same(x, y), y.mode = 0
  PROVE  Machine(y)
<1>1. CASE Exec(x)
  <2>1. Exec(y)
    BY <1>1, SameWithin DEF Within
  <2>2. ~unfit(y)
    BY <2>1, ExecFits
  <2> QED BY <2>1, <2>2 DEF Exec, Machine, Same
<1>2. CASE Halted(x)
  <2>1. StaleOK(y)
    BY <1>2, SameStale DEF Halted, Same
  <2>2. pool_used(y) = pool_used(x) /\ y.arena = 0 /\ y.end2 = 0
    BY <1>2 DEF pool_used, Same, Halted
  <2>3. y.prog \in PROGS \cup {<<>>} /\ y.sess \in BOOLEAN /\ StoreOK(y.store) /\ DeclOK(y.decl)
    BY <1>2 DEF Halted, Same
  <2>4. y.sess => unfit(y)
    <3>1. 0 \in Nat
      OBVIOUS
    <3>2. unfit(y) <=> y.sess /\ ~(pool_used(y) <= POOL)
      BY <2>2, <2>3, <3>1, PoolNat
    <3> QED BY <1>2, <2>2, <3>2 DEF Halted
  <2>5. y.sess => Dims(y.prog) \subseteq y.decl
    BY DEF Same
  <2> QED BY <2>1, <2>2, <2>3, <2>4, <2>5 DEF Machine
<1> QED BY <1>1, <1>2 DEF Ran

\* Without a session nothing is left to be judged but the store and what the slots hold.
LEMMA NoSession ==
  ASSUME NEW y, Shape(y), y.prog \in PROGS \cup {<<>>}, y.mode = 0, y.sess = FALSE, StoreOK(y.store), DeclOK(y.decl),
         y.arr = Boot.arr \/ StaleOK(y)
  PROVE  Machine(y)
<1>1. y.arr = Boot.arr => ArrOK(y)
  <2> SUFFICES ASSUME y.arr = Boot.arr PROVE ArrOK(y)
    OBVIOUS
  <2>1. DOMAIN y.arr = {} /\ y.arr = [k \in DOMAIN y.arr |-> y.arr[k]]
    BY BootShape
  <2>2. IsFiniteSet(Segment(y))
    BY <2>1, OverflowNone
  <2> QED BY <2>1, <2>2 DEF ArrOK
<1> QED BY <1>1 DEF Machine, unfit

\* A program has finitely many declarations.
LEMMA DimsFinite ==
  ASSUME NEW code, IsSeq(code)
  PROVE  IsFiniteSet(Dims(code))
<1>1. PICK n : n = Len(code)
  OBVIOUS
<1>2. n \in Nat /\ DOMAIN code = 1 .. n
  BY <1>1, SeqFacts
<1>3. IsFiniteSet(1 .. n)
  BY <1>2, FS_Interval
<1>4. IsFiniteSet({code[i] : i \in 1 .. n})
  BY ONLY <1>3, ImageFinite
<1>5. ToSet(code) = {code[i] : i \in 1 .. n}
  BY <1>2 DEF ToSet
<1>6. PICK S : S = {st \in ToSet(code) : st[1] = "dim"}
  OBVIOUS
<1>7. S \subseteq ToSet(code) /\ IsFiniteSet(ToSet(code))
  BY <1>4, <1>5, <1>6
<1>8. IsFiniteSet(S)
  BY ONLY <1>7, FS_Subset
<1>9. PICK f : f = [st \in S |-> <<st[2], st[3], st[4]>>]
  OBVIOUS
<1>10. IsFiniteSet({f[st] : st \in S})
  BY ONLY <1>8, ImageFinite
<1>11. Dims(code) = {f[st] : st \in S}
  BY <1>6, <1>9 DEF Dims
<1> QED BY ONLY <1>10, <1>11

\* The declarations of a well-formed program are sound, and cover it.
LEMMA DimsSound ==
  ASSUME NEW code, well_formed(code)
  PROVE  DeclOK(Dims(code)) /\ \A decl : Dims(code) \subseteq decl => Covers(code, decl)
<1>1. IsSeq(code)
  BY DEF well_formed, IsSeq
<1>2. DeclOK(Dims(code))
  <2> SUFFICES ASSUME NEW d \in Dims(code) PROVE d = <<d[1], d[2], d[3]>> /\ shaped(d[1], d[2], d[3])
    BY <1>1, DimsFinite DEF DeclOK
  <2>1. PICK st \in ToSet(code) : st[1] = "dim" /\ d = <<st[2], st[3], st[4]>>
    BY DEF Dims
  <2>2. shaped(st[2], st[3], st[4])
    BY <2>1 DEF well_formed
  <2>3. d[1] = st[2] /\ d[2] = st[3] /\ d[3] = st[4]
    BY <2>1
  <2> QED BY <2>1, <2>2, <2>3
<1>3. \A st \in ToSet(code) : st[1] = "dim" => <<st[2], st[3], st[4]>> \in Dims(code)
  BY DEF Dims
<1> QED BY <1>1, <1>2, <1>3 DEF Covers

\* No declarations.
LEMMA EmptyDecl == DeclOK({})
BY FS_EmptySet DEF DeclOK

\* Fewer declarations.
LEMMA DeclFewer ==
  ASSUME NEW d, DeclOK(d), NEW e, e \subseteq d
  PROVE  DeclOK(e)
BY FS_Subset DEF DeclOK

\* The slots of a table that was never laid out are stale.
LEMMA StaleSound ==
  ASSUME NEW x, DeclOK(x.decl), x.arr = stale(x.decl)
  PROVE  StaleOK(x)
<1>1. PICK D : D = x.decl
  OBVIOUS
<1> DEFINE a == [k \in keys_of(D) |-> LET d == CHOOSE d \in D : d[1] = k IN [at |-> "stale", body |-> array(k[2], d[2], d[3])]]
<1>2. x.arr = a
  BY <1>1 DEF stale
<1>3. DOMAIN a = keys_of(D) /\ a = [k \in keys_of(D) |-> a[k]]
  OBVIOUS
<1>4. ASSUME NEW k \in keys_of(D) PROVE Declared(x, k) /\ a[k] = [at |-> "stale", body |-> a[k].body] /\ SoundBody(k, a[k].body)
  <2>1. \E d \in D : d[1] = k
    BY <1>4 DEF keys_of
  <2>2. PICK d : d = CHOOSE c \in D : c[1] = k
    OBVIOUS
  <2>3. d \in D /\ d[1] = k
    BY <2>1, <2>2
  <2>4. PICK b : b = array(k[2], d[2], d[3])
    OBVIOUS
  <2>5. a[k] = [at |-> "stale", body |-> b]
    BY <1>4, <2>2, <2>4
  <2>6. shaped(k, d[2], d[3])
    BY <1>1, <2>3 DEF DeclOK
  <2>7. SoundBody(k, b)
    BY <2>4, <2>6, FreshBody
  <2>8. Declared(x, k)
    BY <1>1, <2>3 DEF Declared
  <2>9. a[k].body = b
    BY ONLY <2>5
  <2> HIDE DEF a
  <2> QED BY ONLY <2>5, <2>7, <2>8, <2>9
<1> HIDE DEF a
<1> QED BY <1>2, <1>3, <1>4 DEF StaleOK

\* The end of a run, field by field.
LEMMA ReportFacts ==
  ASSUME NEW x, Shape(x), NEW t, NEW y, y = show([x EXCEPT !.mode = 0], t)
  PROVE  /\ Shape(y) /\ y.mode = 0 /\ y.msg = t
         /\ Agree(x, y, {"mode", "msg"})
<1> DEFINE a1 == [x EXCEPT !.mode = 0]
           a2 == [a1 EXCEPT !.msg = t]
<1>1. Shape(a1) /\ a1.mode = 0 /\ Agree(x, a1, {"mode"})
  BY Change, Names
<1> HIDE DEF a1
<1>2. Shape(a2) /\ a2.msg = t /\ Agree(a1, a2, {"msg"})
  BY <1>1, Change, Names
<1>3. y = a2
  BY DEF show, a1
<1> HIDE DEF a2
<1> QED BY <1>1, <1>2, <1>3, Names DEF Agree, Fields

\* The report at the end of a run.
LEMMA ReportKeeps ==
  ASSUME NEW x, Ran(x), x.sess => Dims(x.prog) \subseteq x.decl, NEW y, y = report(x)
  PROVE  Machine(y) /\ y.store = x.store /\ y.decl = x.decl /\ y.prog = x.prog /\ y.sess = x.sess
<1>1. PICK t : y = show([x EXCEPT !.mode = 0], t)
  BY DEF report
<1>2. Shape(y) /\ y.mode = 0 /\ Agree(x, y, {"mode", "msg"})
  BY <1>1, ReportFacts DEF Ran, Exec, Halted
<1>3. Same(x, y)
  BY <1>2, Names DEF Agree, Same, Fields
<1>4. Machine(y)
  BY <1>2, <1>3, RanMachine
<1> QED BY <1>3, <1>4 DEF Same

\* The report of a statement that is refused.
LEMMA RefusedKeeps ==
  ASSUME NEW x, Machine(x), NEW v, NEW y, y = report([x EXCEPT !.ve = v])
  PROVE  Machine(y) /\ y.store = x.store
<1>1. PICK z : z = [x EXCEPT !.ve = v]
  OBVIOUS
<1>2. Shape(z) /\ Same(x, z)
  <2>1. Shape([x EXCEPT !.ve = v]) /\ Same(x, [x EXCEPT !.ve = v])
    BY Others, SetOther DEF Machine
  <2> QED BY ONLY <1>1, <2>1
<1>3. PICK t : y = show([z EXCEPT !.mode = 0], t)
  BY <1>1 DEF report
<1>4. Shape(y) /\ y.mode = 0 /\ Agree(z, y, {"mode", "msg"})
  BY ONLY <1>2, <1>3, ReportFacts
<1>5. Same(x, y)
  BY <1>2, <1>4, Names DEF Agree, Same, Fields
<1> QED BY <1>4, <1>5, MachineSame DEF Same

\* A run, started or not.
LEMMA ExecutedKeeps ==
  ASSUME NEW x, Ran(x), NEW code, Covers(code, x.decl), NEW y, y = execute(x, code)
  PROVE  Ran(y) /\ y.prog = x.prog /\ y.sess = x.sess /\ y.decl = x.decl /\ KeepsStore(x, y)
<1>1. CASE Exec(x)
  BY <1>1, ExecuteKeeps DEF Within, Ran
<1>2. CASE Halted(x)
  <2>1. y = x
    BY <1>2, ExecuteStopped DEF Halted
  <2> QED BY <2>1, KeepsItself
<1> QED BY <1>1, <1>2 DEF Ran

\* SYM_RESET.
LEMMA EndedKeeps ==
  ASSUME NEW x, Machine(x), NEW y, y = ended(x)
  PROVE  Machine(y) /\ y.store = x.store /\ y.prog = x.prog /\ y.sess = FALSE /\ y.decl = {} /\ y.arr = Boot.arr
<1>1. Shape(y) /\ y.sess = FALSE /\ y.decl = {} /\ y.arr = Boot.arr /\ Agree(x, y, {"sess", "vars", "decl", "arr"})
  BY EndedFacts DEF Machine
<1>2. y.store = x.store /\ y.prog = x.prog /\ y.mode = x.mode
  BY <1>1, Names DEF Agree, Fields
<1>3. Machine(y)
  BY <1>1, <1>2, NoSession, EmptyDecl DEF Machine
<1> QED BY <1>1, <1>2, <1>3

\* The declarations and the slots are set.
LEMMA SetSlots ==
  ASSUME NEW x, Shape(x), NEW d, NEW u, NEW y, y = [x EXCEPT !.decl = d, !.arr = u]
  PROVE  Shape(y) /\ y.decl = d /\ y.arr = u /\ Agree(x, y, {"decl", "arr"})
<1> DEFINE a1 == [x EXCEPT !.decl = d]
           a2 == [a1 EXCEPT !.arr = u]
<1>1. Shape(a1) /\ a1.decl = d /\ Agree(x, a1, {"decl"})
  BY Change, Names
<1> HIDE DEF a1
<1>2. Shape(a2) /\ a2.arr = u /\ Agree(a1, a2, {"arr"})
  BY <1>1, Change, Names
<1>3. y = a2
  BY DEF a1
<1> HIDE DEF a2
<1> QED BY <1>1, <1>2, <1>3, Names DEF Agree, Fields

\* The tables are refused.
LEMMA SetRefused ==
  ASSUME NEW x, Shape(x), NEW u, NEW y, y = [x EXCEPT !.end2 = 0, !.ve = 64, !.arr = u]
  PROVE  Shape(y) /\ y.end2 = 0 /\ y.ve = 64 /\ y.arr = u /\ Agree(x, y, {"end2", "ve", "arr"})
<1> DEFINE a1 == [x EXCEPT !.end2 = 0]
           a2 == [a1 EXCEPT !.ve = 64]
           a3 == [a2 EXCEPT !.arr = u]
<1>1. Shape(a1) /\ a1.end2 = 0 /\ Agree(x, a1, {"end2"})
  BY Change, Names
<1> HIDE DEF a1
<1>2. Shape(a2) /\ a2.ve = 64 /\ Agree(a1, a2, {"ve"})
  BY <1>1, Change, Names
<1> HIDE DEF a2
<1>3. Shape(a3) /\ a3.arr = u /\ Agree(a2, a3, {"arr"})
  BY <1>2, Change, Names
<1>4. y = a3
  BY DEF a1, a2
<1> HIDE DEF a3
<1>5. Agree(x, a3, {"end2", "ve", "arr"})
  BY ONLY <1>1, <1>2, <1>3 DEF Agree
<1>6. a3.end2 = 0 /\ a3.ve = 64
  BY ONLY <1>1, <1>2, <1>3, Names DEF Agree, Fields
<1> QED BY ONLY <1>3, <1>4, <1>5, <1>6

\* The statements before one.
LEMMA Prefix ==
  ASSUME NEW code, IsSeq(code), NEW i \in DOMAIN code
  PROVE  ToSet(SubSeq(code, 1, i - 1)) \subseteq ToSet(code)
<1>1. PICK n, j, s : n = Len(code) /\ j = i - 1 /\ s = SubSeq(code, 1, j)
  OBVIOUS
<1>2. n \in Nat /\ DOMAIN code = 1 .. n /\ code \in Seq(ToSet(code))
  BY <1>1, SeqFacts DEF IsSeq
<1>3. j \in Nat /\ j <= n
  BY <1>1, <1>2
<1>4. DOMAIN s = 1 .. j /\ \A a \in 1 .. j : s[a] = code[a]
  <2>1. PICK T : T = ToSet(code)
    OBVIOUS
  <2> QED BY ONLY <1>1, <1>2, <1>3, <2>1
<1>5. \A a \in 1 .. j : code[a] \in ToSet(code)
  BY <1>2, <1>3 DEF ToSet
<1> QED BY <1>1, <1>4, <1>5 DEF ToSet

\* A compile that failed.
LEMMA FailedSlots ==
  ASSUME NEW x, Machine(x), NEW code, well_formed(code), compile(x, {}, code) # 0, NEW y, y = failed(x, code)
  PROVE  Machine(y) /\ y.store = x.store /\ y.prog = x.prog /\ y.sess = FALSE
<1>1. PICK S, i : S = rejected(x, {}, code) /\ i = Min(S)
  OBVIOUS
<1>2. IsSeq(code)
  BY DEF well_formed, IsSeq
<1>3. i \in DOMAIN code
  <2>1. S \subseteq DOMAIN code
    BY <1>1 DEF rejected
  <2>2. DOMAIN code \subseteq Nat
    BY <1>2, SeqFacts
  <2>3. S # {}
    BY <1>1 DEF compile
  <2> QED BY <1>1, <2>1, <2>2, <2>3, MinIn
<1>4. PICK d : d = Dims(SubSeq(code, 1, i - 1))
  OBVIOUS
<1>5. DeclOK(d)
  <2>1. ToSet(SubSeq(code, 1, i - 1)) \subseteq ToSet(code)
    BY <1>2, <1>3, Prefix
  <2>2. d \subseteq Dims(code)
    BY <1>4, <2>1 DEF Dims
  <2> QED BY <2>2, DimsSound, DeclFewer
<1>6. PICK z, u : z = ended(x) /\ u = stale(d)
  OBVIOUS
<1>7. Machine(z) /\ z.store = x.store /\ z.prog = x.prog /\ z.sess = FALSE
  BY <1>6, EndedKeeps
<1>8. y = [z EXCEPT !.decl = d, !.arr = u]
  BY <1>1, <1>4, <1>6 DEF failed
<1>9. Shape(z) /\ z.prog \in PROGS \cup {<<>>} /\ z.mode = 0 /\ StoreOK(z.store)
  BY <1>7 DEF Machine
<1>10. Shape(y) /\ y.decl = d /\ y.arr = u /\ Agree(z, y, {"decl", "arr"})
  <2>1. Shape(z) /\ y = [z EXCEPT !.decl = d, !.arr = u]
    BY <1>8, <1>9
  <2>2. Shape(y)
    BY ONLY <2>1, SetSlots
  <2>3. y.decl = d /\ y.arr = u
    BY ONLY <2>1, SMTT(40) DEF Shape, Fields
  <2>4. Agree(z, y, {"decl", "arr"})
    BY ONLY <2>1, SetSlots
  <2> QED BY <2>2, <2>3, <2>4
<1>11. y.prog = x.prog /\ y.mode = 0 /\ y.sess = FALSE /\ y.store = x.store
  BY <1>7, <1>9, <1>10, Names DEF Agree, Fields
<1>12. StaleOK(y)
  BY <1>5, <1>6, <1>10, StaleSound
<1> QED BY <1>5, <1>7, <1>9, <1>10, <1>11, <1>12, NoSession

\* A message.
LEMMA ShowKeeps ==
  ASSUME NEW x, Machine(x), NEW t, NEW y, y = show(x, t)
  PROVE  Machine(y) /\ Same(x, y)
<1>1. Shape(y) /\ Agree(x, y, {"msg"})
  BY ShowFacts DEF Machine
<1>2. Same(x, y) /\ y.mode = x.mode
  BY <1>1, Names DEF Agree, Same, Fields
<1> QED BY <1>1, <1>2, MachineSame DEF Machine

\* A message goes.
LEMMA QuietKeeps ==
  ASSUME NEW x, Machine(x), NEW y, y = quiet(x)
  PROVE  Machine(y) /\ Same(x, y) /\ y.msg = "none" /\ y.ce = 0 /\ y.ve = 0 /\ y.registry = x.registry
<1>1. Shape(y) /\ y.msg = "none" /\ y.ce = 0 /\ y.ve = 0 /\ Agree(x, y, {"msg", "ce", "ve"})
  BY QuietFacts DEF Machine
<1>2. Same(x, y) /\ y.mode = x.mode /\ y.registry = x.registry
  BY <1>1, Names DEF Agree, Same, Fields
<1> QED BY <1>1, <1>2, MachineSame DEF Machine

\* VM_INIT and ARR_RUN_INIT: the declared arrays are bound to their entries before the first statement, or nothing runs.
LEMMA StartedKeeps ==
  ASSUME NEW t, Shape(t), t.prog \in PROGS \cup {<<>>}, t.sess \in BOOLEAN, StoreOK(t.store), DeclOK(t.decl), t.arr = Boot.arr,
         t.arena = 0, t.end2 = bytes(t.store), NEW y, y = started(t)
  PROVE  Ran(y) /\ Agree(t, y, {"arr", "end2", "ve"})
<1>1. CASE pool_used(t) > POOL
  <2>1. PICK u : u = stale(t.decl)
    OBVIOUS
  <2>2. Shape(t) /\ y = [t EXCEPT !.end2 = 0, !.ve = 64, !.arr = u]
    BY <1>1, <2>1 DEF started
  <2>3. Shape(y)
    BY ONLY <2>2, SetRefused
  <2>4. y.end2 = 0 /\ y.ve = 64 /\ y.arr = u
    BY ONLY <2>2, SMT DEF Shape, Fields
  <2>5. Agree(t, y, {"end2", "ve", "arr"})
    BY ONLY <2>2, SetRefused
  <2>6. y.prog = t.prog /\ y.sess = t.sess /\ y.store = t.store /\ y.decl = t.decl /\ y.arena = t.arena
    BY <2>5, Names DEF Agree, Fields
  <2>7. StaleOK(y)
    BY <2>1, <2>4, <2>6, StaleSound
  <2>8. ~(pool_used(y) <= POOL)
    <3>1. pool_used(y) = pool_used(t)
      BY <2>6 DEF pool_used
    <3>2. pool_used(t) \in Nat /\ POOL \in Nat
      BY PoolNat, SizesAssumption
    <3> QED BY <1>1, <3>1, <3>2
  <2>9. Halted(y)
    BY <2>3, <2>4, <2>6, <2>7, <2>8 DEF Halted
  <2> QED BY <2>5, <2>9 DEF Ran, Agree
<1>2. CASE ~(pool_used(t) > POOL)
  <2>1. pool_used(t) <= POOL
    <3>1. pool_used(t) \in Nat /\ POOL \in Nat
      BY PoolNat, SizesAssumption
    <3> QED BY <1>2, <3>1
  <2>2. Loose(t)
    BY <2>1, FreshKeeps
  <2>3. CASE mismatch(t, t.decl)
    <3>1. Exec(t)
      BY <2>2, <2>3, ExecIs DEF Bound
    <3>2. y = [t EXCEPT !.ve = 65]
      BY <1>2, <2>3 DEF started
    <3>3. Within(t, [t EXCEPT !.ve = 65])
      BY <3>1, Others, OneField
    <3>4. Agree(t, [t EXCEPT !.ve = 65], {"ve"})
      BY Change, Names
    <3> QED BY <3>2, <3>3, <3>4 DEF Within, Ran, Agree
  <2>4. CASE ~mismatch(t, t.decl)
    <3>1. y = bind(t, t.decl)
      BY <1>2, <2>4 DEF started
    <3>2. Exec(y) /\ Agree(t, y, {"arr"})
      BY <2>2, <3>1, BindKeeps
    <3> QED BY <3>2 DEF Ran, Agree
  <2> QED BY <2>3, <2>4
<1> QED BY <1>1, <1>2

\* A session starts, with its tables or without.
LEMMA StartKeeps ==
  ASSUME NEW x, Shape(x), x.prog \in PROGS \cup {<<>>}, x.mode = 0, StoreOK(x.store), NEW y, y = session_start(x)
  PROVE  /\ Ran(y) /\ y.sess = TRUE /\ y.decl = Dims(x.prog) /\ y.prog = x.prog /\ y.store = x.store /\ y.mode = 0
         /\ y.registry = x.registry
<1>1. PICK z : z = fresh(x)
  OBVIOUS
<1>2. PICK s : s = [z EXCEPT !.sess = TRUE, !.decl = Dims(x.prog), !.ce = 0, !.ve = 0]
  OBVIOUS
<1>3. y = started(s)
  BY <1>1, <1>2 DEF session_start
<1>4. /\ Shape(z) /\ z.arr = Boot.arr /\ z.arena = 0 /\ z.end2 = bytes(x.store)
      /\ Agree(x, z, {"vars", "arr", "arena", "end2"})
  BY <1>1, FreshFacts
<1>5. z.prog = x.prog /\ z.store = x.store /\ z.mode = 0 /\ z.registry = x.registry
  BY <1>4, Names DEF Agree, Fields
<1>6. Shape(s) /\ s.sess = TRUE /\ s.decl = Dims(x.prog) /\ Agree(z, s, {"sess", "decl", "ce", "ve"})
  <2>1. PICK d : d = Dims(x.prog)
    OBVIOUS
  <2>2. Shape(z) /\ s = [z EXCEPT !.sess = TRUE, !.decl = d, !.ce = 0, !.ve = 0]
    BY <1>2, <1>4, <2>1
  <2>3. Shape(s)
    BY ONLY <2>2, SetSess
  <2>5. s.sess = TRUE
    BY ONLY <2>2, SetSess
  <2>6. s.decl = d
    BY ONLY <2>2, SMT DEF Shape, Fields
  <2>4. Agree(z, s, {"sess", "decl", "ce", "ve"})
    BY ONLY <2>2, SetSess
  <2> QED BY <2>1, <2>3, <2>4, <2>5, <2>6
<1>7. /\ s.prog = x.prog /\ s.store = x.store /\ s.mode = 0 /\ s.arr = Boot.arr /\ s.arena = 0 /\ s.end2 = bytes(s.store)
      /\ s.registry = x.registry
  BY <1>4, <1>5, <1>6, Names DEF Agree, Fields
<1>8. DeclOK(s.decl)
  BY <1>6, Programs, DimsSound
<1>9. Ran(y) /\ Agree(s, y, {"arr", "end2", "ve"})
  <2>1. s.prog \in PROGS \cup {<<>>} /\ s.sess \in BOOLEAN /\ StoreOK(s.store)
    BY <1>6, <1>7
  <2> QED BY <1>3, <1>6, <1>7, <1>8, <2>1, StartedKeeps
<1>10. y.sess = s.sess /\ y.decl = s.decl /\ y.prog = s.prog /\ y.store = s.store /\ y.mode = s.mode /\ y.registry = s.registry
  BY <1>9, Names DEF Agree, Fields
<1> QED BY <1>6, <1>7, <1>9, <1>10

\* The store as it was, but for the values of entries that are declared now.
StoreKept(x, y) ==
  /\ Shapes(y.store) = Shapes(x.store)
  /\ \A i \in DOMAIN x.store : y.store[i] = x.store[i] \/ Declared(y, x.store[i].key)

\* A store that is the same is kept.
LEMMA SameStore ==
  ASSUME NEW x, NEW y, y.store = x.store
  PROVE  StoreKept(x, y)
BY DEF StoreKept

\* A compile that fails is a syntax error.
LEMMA FailedSays ==
  ASSUME NEW x, Machine(x), NEW code, well_formed(code), compile(x, {}, code) # 0, NEW y, y = failed_compile(x, code)
  PROVE  y.msg = "SYNTAX"
<1>1. PICK z, v : z = failed(x, code) /\ v = compile(x, {}, code)
  OBVIOUS
<1>2. PICK c : c = [z EXCEPT !.ce = v]
  OBVIOUS
<1>3. Shape(z)
  BY <1>1, FailedSlots DEF Machine
<1>4. Shape([z EXCEPT !.ce = v])
  BY <1>3, Change, Names
<1>5. Shape(c)
  BY ONLY <1>2, <1>4
<1>6. y = show(c, "SYNTAX")
  BY <1>1, <1>2 DEF failed_compile
<1> QED BY <1>5, <1>6, ShowFacts

\* Code that does not compile.
LEMMA FailedKeeps ==
  ASSUME NEW x, Machine(x), NEW code, well_formed(code), compile(x, {}, code) # 0, NEW y, y = failed_compile(x, code)
  PROVE  Machine(y) /\ y.store = x.store
<1>1. PICK z, v : z = failed(x, code) /\ v = compile(x, {}, code)
  OBVIOUS
<1>2. PICK c : c = [z EXCEPT !.ce = v]
  OBVIOUS
<1>3. Machine(z) /\ z.store = x.store
  BY <1>1, FailedSlots
<1>4. Shape(z) /\ z.mode = 0
  BY <1>3 DEF Machine
<1>5. Shape(c) /\ Same(z, c) /\ c.mode = z.mode
  <2>1. Shape([z EXCEPT !.ce = v]) /\ Agree(z, [z EXCEPT !.ce = v], {"ce"})
    BY <1>4, Change, Names
  <2>2. Shape(c) /\ Agree(z, c, {"ce"})
    BY ONLY <1>2, <2>1
  <2> QED BY <2>2, Names DEF Agree, Same, Fields
<1>6. Machine(c) /\ c.store = x.store
  BY <1>3, <1>4, <1>5, MachineSame DEF Same
<1>7. y = show(c, "SYNTAX")
  BY <1>1, <1>2 DEF failed_compile
<1> QED BY <1>6, <1>7, ShowKeeps DEF Same

\* RUN.
LEMMA RunKeeps ==
  ASSUME NEW x, Machine(x), NEW y, y = Run(x)
  PROVE  Machine(y) /\ StoreKept(x, y)
<1>1. CASE compile(x, {}, x.prog) # 0
  <2>1. y = failed_compile(x, x.prog)
    BY <1>1 DEF Run
  <2>2. well_formed(x.prog)
    BY Programs DEF Machine
  <2> QED BY <1>1, <2>1, <2>2, FailedKeeps, SameStore
<1>2. CASE ~(compile(x, {}, x.prog) # 0)
  <2>1. PICK s : s = session_start(x)
    OBVIOUS
  <2>2. PICK e : e = execute(s, x.prog)
    OBVIOUS
  <2>3. y = report(e)
    BY <1>2, <2>1, <2>2 DEF Run
  <2>4. Ran(s) /\ s.decl = Dims(x.prog) /\ s.prog = x.prog /\ s.store = x.store
    BY <2>1, StartKeeps DEF Machine
  <2>5. Covers(x.prog, s.decl)
    BY <2>4, Programs, DimsSound DEF Machine
  <2>6. Ran(e) /\ e.prog = x.prog /\ e.decl = s.decl /\ KeepsStore(s, e)
    BY <2>2, <2>4, <2>5, ExecutedKeeps
  <2>7. Machine(y) /\ y.store = e.store /\ y.decl = e.decl
    BY <2>3, <2>4, <2>6, ReportKeeps
  <2>8. StoreKept(x, y)
    BY <2>4, <2>6, <2>7 DEF KeepsStore, StoreKept, Declared
  <2> QED BY <2>7, <2>8
<1> QED BY <1>1, <1>2

\* Sequences are joined.
LEMMA SeqJoined ==
  ASSUME NEW a, IsSeq(a), NEW b, IsSeq(b), NEW c, c = a \o b
  PROVE  IsSeq(c) /\ ToSet(c) \subseteq ToSet(a) \cup ToSet(b)
<1>1. PICK S, T : S = ToSet(a) /\ T = ToSet(b)
  OBVIOUS
<1>2. a \in Seq(S \cup T) /\ b \in Seq(S \cup T)
  <2>1. a \in Seq(S) /\ b \in Seq(T)
    BY <1>1 DEF IsSeq
  <2> QED BY <2>1
<1>3. c \in Seq(S \cup T)
  BY <1>2
<1>4. Len(c) \in Nat /\ DOMAIN c = 1 .. Len(c) /\ c = [i \in 1 .. Len(c) |-> c[i]] /\ \A i \in DOMAIN c : c[i] \in S \cup T
  <2>1. PICK U : U = S \cup T
    OBVIOUS
  <2>2. c \in Seq(U)
    BY ONLY <1>3, <2>1
  <2>3. Len(c) \in Nat /\ DOMAIN c = 1 .. Len(c)
    BY ONLY <2>2
  <2>4. \A i \in 1 .. Len(c) : c[i] \in U
    BY ONLY <2>2
  <2>5. c = [i \in 1 .. Len(c) |-> c[i]]
    BY ONLY <2>2
  <2> QED BY ONLY <2>1, <2>3, <2>4, <2>5
<1>5. IsSeq(c)
  BY <1>4, SeqBuilt
<1>6. ToSet(c) \subseteq S \cup T
  BY <1>4 DEF ToSet
<1> QED BY <1>1, <1>5, <1>6

\* Two covered pieces of code make covered code.
LEMMA CoversJoined ==
  ASSUME NEW decl, NEW a, Covers(a, decl), NEW b, Covers(b, decl)
  PROVE  Covers(a \o b, decl)
<1>1. PICK c : c = a \o b
  OBVIOUS
<1>2. IsSeq(c)
  BY <1>1, SeqJoined DEF Covers
<1>3. ToSet(c) \subseteq ToSet(a) \cup ToSet(b)
  BY <1>1, SeqJoined DEF Covers
<1>4. \A st \in ToSet(c) : st[1] = "dim" => <<st[2], st[3], st[4]>> \in decl
  BY <1>3 DEF Covers
<1> QED BY <1>1, <1>2, <1>4 DEF Covers

\* The end of an immediate statement declares nothing.
LEMMA CoversEnd ==
  ASSUME NEW decl
  PROVE  Covers(<<<<"end">>>>, decl)
<1>1. PICK c : c = <<<<"end">>>>
  OBVIOUS
<1>2. DOMAIN c = 1 .. 1 /\ c = [i \in 1 .. 1 |-> c[i]] /\ \A i \in DOMAIN c : c[i] = <<"end">>
  BY <1>1
<1>3. IsSeq(c)
  BY <1>2, SeqBuilt
<1>4. \A st \in ToSet(c) : st[1] # "dim"
  BY <1>2 DEF ToSet
<1> QED BY <1>1, <1>3, <1>4 DEF Covers

\* Two sets of declarations.
LEMMA DeclBoth ==
  ASSUME NEW d, DeclOK(d), NEW e, DeclOK(e)
  PROVE  DeclOK(d \cup e)
<1>1. IsFiniteSet(d) /\ IsFiniteSet(e)
  BY DEF DeclOK
<1>2. IsFiniteSet(d \cup e)
  BY ONLY <1>1, FS_Union
<1> QED BY <1>2 DEF DeclOK

\* More declarations take no fewer bytes of the pool.
LEMMA PoolMore ==
  ASSUME NEW x, x.prog \in PROGS \cup {<<>>}, x.arena \in Nat, NEW y, y.prog = x.prog, y.arena = x.arena,
         DeclOK(y.decl), x.decl \subseteq y.decl
  PROVE  pool_used(x) <= pool_used(y) /\ pool_used(x) \in Nat /\ pool_used(y) \in Nat
<1>1. PICK a, b : a = SLOT * Cardinality(x.decl) /\ b = SLOT * Cardinality(y.decl)
  OBVIOUS
<1>2. a \in Nat /\ b \in Nat /\ a <= b
  BY <1>1, SlotsMore
<1>3. PICK s, c : s = size(x.prog) + TABLES /\ c = x.arena
  OBVIOUS
<1>4. s \in Nat /\ c \in Nat
  BY <1>3, Programs, SizesAssumption
<1>5. pool_used(x) = s + a + c /\ pool_used(y) = s + b + c
  BY <1>1, <1>3 DEF pool_used
<1> QED BY ONLY <1>2, <1>4, <1>5

\* More declarations.
LEMMA DeclMore ==
  ASSUME NEW x, Machine(x), x.sess, ~unfit(x), NEW d, DeclOK(d), NEW y, Shape(y), y.decl = x.decl \cup d, pool_used(y) <= POOL,
         y.prog = x.prog, y.sess = x.sess, y.arr = x.arr, y.arena = x.arena, y.end2 = x.end2, y.store = x.store
  PROVE  Loose(y)
<1>1. ArrOK(x) /\ Layout(x) /\ DeclOK(x.decl)
  BY DEF Machine
<1>2. \A k : stored(y, k) = stored(x, k) /\ (Declared(x, k) => Declared(y, k))
  BY DEF stored, Declared
<1>3. \A k : SoundArray(y, k) = SoundArray(x, k)
  BY <1>2 DEF SoundArray
<1>4. Segment(y) = Segment(x)
  BY DEF Segment, placed
<1>5. ArrOK(y)
  BY <1>1, <1>2, <1>3, <1>4 DEF ArrOK
<1>6. DeclOK(y.decl)
  BY <1>1, DeclBoth
<1>7. Overflow(y) = Overflow(x)
  BY <1>4, OverflowIs
<1>8. Room(y)
  BY <1>1, <1>7 DEF Layout, Room
<1> QED BY <1>5, <1>6, <1>8 DEF Loose, Machine

\* An immediate statement in a session: its declarations are added, and the session goes on, or nothing is changed.
LEMMA InSessionKeeps ==
  ASSUME NEW x, Machine(x), x.sess, NEW code, well_formed(code), NEW y, y = in_session(x, code)
  PROVE  Machine(y) /\ StoreKept(x, y)
<1>1. PICK d : d = x.decl \cup Dims(code)
  OBVIOUS
<1>2. PICK t : t = [x EXCEPT !.decl = d, !.ce = 0, !.ve = 0]
  OBVIOUS
<1>3. PICK v : v = refusal(x, code)
  OBVIOUS
<1>4. y = IF v # 0 THEN show([x EXCEPT !.ce = v], "SYNTAX")
          ELSE IF mismatch(t, t.decl) THEN report([x EXCEPT !.ve = 65])
          ELSE IF pool_used(t) > POOL THEN report([x EXCEPT !.ve = 64])
          ELSE report(execute(bind(t, t.decl), code \o <<<<"end">>>> \o t.prog))
  BY <1>1, <1>2, <1>3 DEF in_session
<1>5. Shape(x) /\ x.mode = 0 /\ Dims(x.prog) \subseteq x.decl /\ DeclOK(x.decl) /\ x.prog \in PROGS \cup {<<>>}
  BY DEF Machine
<1>6. CASE v # 0
  <2>1. PICK c : c = [x EXCEPT !.ce = v]
    OBVIOUS
  <2>2. Shape([x EXCEPT !.ce = v]) /\ Agree(x, [x EXCEPT !.ce = v], {"ce"})
    BY <1>5, Change, Names
  <2>3. Shape(c) /\ Agree(x, c, {"ce"})
    BY ONLY <2>1, <2>2
  <2>4. Same(x, c) /\ c.mode = 0
    BY <1>5, <2>3, Names DEF Agree, Same, Fields
  <2>5. Machine(c) /\ c.store = x.store
    BY <2>3, <2>4, MachineSame DEF Same
  <2>6. y = show(c, "SYNTAX")
    BY <1>4, <1>6, <2>1
  <2>7. Machine(y) /\ y.store = x.store
    BY <2>5, <2>6, ShowKeeps DEF Same
  <2> QED BY <2>7, SameStore
<1>7. CASE v = 0 /\ mismatch(t, t.decl)
  <2>1. y = report([x EXCEPT !.ve = 65])
    BY <1>4, <1>7
  <2> QED BY <2>1, RefusedKeeps, SameStore
<1>8. CASE v = 0 /\ ~mismatch(t, t.decl) /\ pool_used(t) > POOL
  <2>1. y = report([x EXCEPT !.ve = 64])
    BY <1>4, <1>8
  <2> QED BY <2>1, RefusedKeeps, SameStore
<1>9. CASE v = 0 /\ ~mismatch(t, t.decl) /\ ~(pool_used(t) > POOL)
  <2>1. Shape(t) /\ Agree(x, t, {"decl", "ce", "ve"})
    <3>1. Shape(t)
      BY ONLY <1>2, <1>5, SetDecl
    <3>3. Shape(x)
      BY <1>5
    <3>4. \A z : z = [x EXCEPT !.decl = d, !.ce = 0, !.ve = 0] => Agree(x, z, {"decl", "ce", "ve"})
      BY ONLY <3>3, SetDecl
    <3>2. Agree(x, t, {"decl", "ce", "ve"})
      BY ONLY <1>2, <3>4
    <3> QED BY <3>1, <3>2
  <2>2. t.decl = d
    BY ONLY <1>2, <1>5, SMT DEF Shape, Fields
  <2>3. t.prog = x.prog /\ t.sess = x.sess /\ t.arr = x.arr /\ t.arena = x.arena /\ t.end2 = x.end2 /\ t.store = x.store
    BY <2>1, Names DEF Agree, Fields
  <2>4. Loose(t)
    <3>1. DeclOK(Dims(code)) /\ DeclOK(t.decl)
      BY <1>1, <1>5, <2>2, DimsSound, DeclBoth
    <3>2. unfit(x) => x.arena \in Nat
      BY DEF Machine
    <3>3. ~unfit(x) => x.arena \in Nat
      BY DEF Machine, Layout
    <3>4. pool_used(x) <= pool_used(t) /\ pool_used(x) \in Nat /\ pool_used(t) \in Nat
      BY <1>1, <1>5, <2>2, <2>3, <3>1, <3>2, <3>3, PoolMore
    <3>5. POOL \in Nat
      BY SizesAssumption
    <3>6. pool_used(t) <= POOL /\ ~(pool_used(x) > POOL)
      BY <1>9, <3>4, <3>5
    <3>7. ~unfit(x)
      BY <3>6 DEF unfit
    <3> QED BY <1>1, <2>1, <2>2, <2>3, <3>1, <3>6, <3>7, DeclMore
  <2>5. PICK b, e : b = bind(t, t.decl) /\ e = execute(b, code \o <<<<"end">>>> \o t.prog)
    OBVIOUS
  <2>6. Exec(b) /\ Agree(t, b, {"arr"})
    BY <2>4, <2>5, BindKeeps
  <2>7. b.prog = x.prog /\ b.sess = x.sess /\ b.decl = d /\ b.store = x.store
    BY <2>2, <2>3, <2>6, Names DEF Agree, Fields
  <2>8. Covers(code \o <<<<"end">>>> \o t.prog, b.decl)
    <3>1. Covers(code, d)
      BY <1>1, DimsSound
    <3>2. Covers(code \o <<<<"end">>>>, d)
      BY <3>1, CoversEnd, CoversJoined
    <3>3. Covers(t.prog, d)
      <4>1. well_formed(x.prog) /\ Dims(x.prog) \subseteq d
        BY <1>1, <1>5, Programs
      <4> QED BY <2>3, <4>1, DimsSound
    <3> QED BY <2>7, <3>2, <3>3, CoversJoined
  <2>9. Ran(e) /\ e.prog = x.prog /\ e.decl = d /\ KeepsStore(b, e)
    BY <2>5, <2>6, <2>7, <2>8, ExecutedKeeps DEF Ran
  <2>10. y = report(e)
    BY <1>4, <1>9, <2>5
  <2>11. Dims(e.prog) \subseteq e.decl
    BY <1>1, <1>5, <2>9
  <2>12. Machine(y) /\ y.store = e.store /\ y.decl = e.decl
    BY <2>9, <2>10, <2>11, ReportKeeps
  <2>13. StoreKept(x, y)
    BY <2>7, <2>9, <2>12 DEF KeepsStore, StoreKept, Declared
  <2> QED BY <2>12, <2>13
<1> QED BY <1>6, <1>7, <1>8, <1>9

\* An immediate statement without a session: a run of its own.
LEMMA AloneKeeps ==
  ASSUME NEW x, Machine(x), x.sess = FALSE, NEW code, well_formed(code), NEW y, y = alone(x, code)
  PROVE  Machine(y) /\ StoreKept(x, y)
<1>1. CASE compile(x, {}, code) # 0
  <2>1. y = failed_compile(x, code)
    BY <1>1 DEF alone
  <2> QED BY <1>1, <2>1, FailedKeeps, SameStore
<1>2. CASE ~(compile(x, {}, code) # 0)
  <2>1. PICK d, f : d = Dims(code) /\ f = fresh(x)
    OBVIOUS
  <2>2. PICK t : t = [f EXCEPT !.decl = d, !.ce = 0, !.ve = 0]
    OBVIOUS
  <2>3. PICK b, e : b = started(t) /\ e = execute(b, code)
    OBVIOUS
  <2>4. y = report(e)
    BY <1>2, <2>1, <2>2, <2>3 DEF alone
  <2>5. Shape(f) /\ f.arr = Boot.arr /\ f.arena = 0 /\ f.end2 = bytes(x.store) /\ Agree(x, f, {"vars", "arr", "arena", "end2"})
    BY <2>1, FreshFacts DEF Machine
  <2>6. f.prog = x.prog /\ f.sess = x.sess /\ f.store = x.store
    BY <2>5, Names DEF Agree, Fields
  <2>7. Shape(t) /\ Agree(f, t, {"decl", "ce", "ve"})
    <3>1. Shape(t)
      BY ONLY <2>2, <2>5, SetDecl
    <3>2. Agree(f, t, {"decl", "ce", "ve"})
      BY ONLY <2>2, <2>5, SetDecl, ZenonT(40)
    <3> QED BY <3>1, <3>2
  <2>8. t.decl = d
    BY ONLY <2>2, <2>5, SMT DEF Shape, Fields
  <2>9. /\ t.prog = x.prog /\ t.sess = x.sess /\ t.arr = Boot.arr /\ t.arena = 0 /\ t.end2 = bytes(t.store)
        /\ t.store = x.store
    BY <2>5, <2>6, <2>7, Names DEF Agree, Fields
  <2>10. Ran(b) /\ Agree(t, b, {"arr", "end2", "ve"})
    <3>1. DeclOK(t.decl)
      BY <2>1, <2>8, DimsSound
    <3>2. t.prog \in PROGS \cup {<<>>} /\ t.sess \in BOOLEAN /\ StoreOK(t.store)
      BY <2>9 DEF Machine
    <3> QED BY <2>3, <2>7, <2>9, <3>1, <3>2, StartedKeeps
  <2>11. b.prog = x.prog /\ b.sess = x.sess /\ b.decl = d /\ b.store = x.store
    BY <2>8, <2>9, <2>10, Names DEF Agree, Fields
  <2>12. Covers(code, b.decl)
    BY <2>1, <2>11, DimsSound
  <2>13. Ran(e) /\ e.sess = FALSE /\ e.decl = d /\ KeepsStore(b, e)
    BY <2>3, <2>10, <2>11, <2>12, ExecutedKeeps
  <2>14. Machine(y) /\ y.store = e.store /\ y.decl = e.decl
    BY <2>4, <2>13, ReportKeeps
  <2>15. StoreKept(x, y)
    BY <2>11, <2>13, <2>14 DEF KeepsStore, StoreKept, Declared
  <2> QED BY <2>14, <2>15
<1> QED BY <1>1, <1>2

\* The session there is, or is started.
LEMMA EnsureKeeps ==
  ASSUME NEW x, Machine(x), NEW y, y = ensure_session(x)
  PROVE  Machine(y) /\ y.store = x.store /\ y.prog = x.prog
<1>1. CASE x.sess
  BY <1>1 DEF ensure_session
<1>2. CASE ~x.sess /\ compile(x, {}, x.prog) # 0
  <2>1. y = failed(x, x.prog)
    BY <1>2 DEF ensure_session
  <2>2. well_formed(x.prog)
    BY Programs DEF Machine
  <2>3. compile(x, {}, x.prog) # 0
    BY <1>2
  <2>4. PICK p : p = x.prog
    OBVIOUS
  <2>5. Machine(x) /\ well_formed(p) /\ compile(x, {}, p) # 0 /\ y = failed(x, p)
    BY <2>1, <2>2, <2>3, <2>4
  <2> QED BY ONLY <2>5, FailedSlots
<1>3. CASE ~x.sess /\ ~(compile(x, {}, x.prog) # 0)
  <2>1. y = session_start(x)
    BY <1>3 DEF ensure_session
  <2>2. Ran(y) /\ y.sess = TRUE /\ y.decl = Dims(x.prog) /\ y.prog = x.prog /\ y.store = x.store /\ y.mode = 0
    BY <2>1, StartKeeps DEF Machine
  <2>3. Shape(y) /\ Same(y, y)
    BY <2>2 DEF Ran, Exec, Halted, Same
  <2>4. Machine(y)
    BY <2>2, <2>3, RanMachine
  <2> QED BY <2>2, <2>4
<1> QED BY <1>1, <1>2, <1>3

\* An immediate statement, refused or run.
LEMMA ImmediateKeeps ==
  ASSUME NEW x, Machine(x), NEW code, well_formed(code), NEW y, y = Immediate(x, code)
  PROVE  Machine(y) /\ StoreKept(x, y)
<1>1. PICK s : s = ensure_session(x)
  OBVIOUS
<1>2. Machine(s) /\ s.store = x.store
  BY <1>1, EnsureKeeps
<1>3. CASE s.sess
  <2>1. y = in_session(s, code)
    BY <1>1, <1>3 DEF Immediate
  <2>2. Machine(y) /\ StoreKept(s, y)
    BY <1>2, <1>3, <2>1, InSessionKeeps
  <2> QED BY <1>2, <2>2 DEF StoreKept
<1>4. CASE ~s.sess
  <2>1. y = alone(s, code)
    BY <1>1, <1>4 DEF Immediate
  <2>2. s.sess = FALSE
    BY <1>2, <1>4 DEF Machine
  <2>3. Machine(y) /\ StoreKept(s, y)
    BY <1>2, <2>1, <2>2, AloneKeeps
  <2> QED BY <1>2, <2>3 DEF StoreKept
<1> QED BY <1>3, <1>4

-----------------------------------------------------------------------------
\* The store alone stays, or nothing.

Plain(x) == Shape(x) /\ x.prog \in PROGS \cup {<<>>} /\ x.mode = 0 /\ StoreOK(x.store)
\* A sound machine has a plain store and program.
LEMMA MachinePlain ==
  ASSUME NEW x, Machine(x)
  PROVE  Plain(x)
BY DEF Machine, Plain

\* V2_CLEAR_ARRAYS keeps the Array Store and the program.
LEMMA ClearedKeeps ==
  ASSUME NEW x, Plain(x), NEW y, y = clear_arrays(x)
  PROVE  /\ Machine(y) /\ y.store = x.store /\ y.prog = x.prog /\ y.sess = FALSE /\ y.decl = {} /\ y.arr = Boot.arr
         /\ Agree(x, y, {"sess", "vars", "decl", "arr", "arena", "end2"})
<1>1. PICK z : z = ended(x)
  OBVIOUS
<1>2. y = fresh(z)
  BY <1>1 DEF clear_arrays
<1>3. Shape(z) /\ z.sess = FALSE /\ z.decl = {} /\ z.arr = Boot.arr /\ Agree(x, z, {"sess", "vars", "decl", "arr"})
  BY <1>1, EndedFacts DEF Plain
<1>4. Shape(y) /\ y.arr = Boot.arr /\ Agree(z, y, {"vars", "arr", "arena", "end2"})
  BY <1>2, <1>3, FreshFacts
<1>5. Agree(x, y, {"sess", "vars", "decl", "arr", "arena", "end2"})
  BY <1>3, <1>4 DEF Agree
<1>6. y.sess = FALSE /\ y.decl = {}
  BY <1>3, <1>4, Names DEF Agree, Fields
<1>7. y.store = x.store /\ y.prog = x.prog /\ y.mode = x.mode
  BY <1>5, Names DEF Agree, Fields
<1>8. Machine(y)
  BY <1>4, <1>6, <1>7, NoSession, EmptyDecl DEF Plain
<1> QED BY <1>4, <1>5, <1>6, <1>7, <1>8

\* A program put in after that.
WithProgram(x, p) == [clear_arrays(x) EXCEPT !.prog = p]
HasProgram(x, y, p) == Machine(y) /\ y.prog = p /\ y.store = x.store /\ y.sess = FALSE
\* A program that replaces another keeps the Array Store.
LEMMA ProgramIn ==
  ASSUME NEW x, Plain(x), NEW p \in PROGS \cup {<<>>}, NEW y, y = WithProgram(x, p)
  PROVE  HasProgram(x, y, p)
<1>1. PICK c : c = clear_arrays(x)
  OBVIOUS
<1>2. /\ Machine(c) /\ c.store = x.store /\ c.sess = FALSE /\ c.decl = {} /\ c.arr = Boot.arr
  BY <1>1, ClearedKeeps
<1>3. Shape(c) /\ c.mode = 0
  BY <1>2 DEF Machine
<1>4. Shape([c EXCEPT !.prog = p]) /\ [c EXCEPT !.prog = p].prog = p /\ Agree(c, [c EXCEPT !.prog = p], {"prog"})
  BY <1>3, Change, Names
<1>5. Shape(y) /\ y.prog = p /\ Agree(c, y, {"prog"})
  BY <1>1, <1>4 DEF WithProgram
<1>6. y.store = x.store /\ y.sess = FALSE /\ y.decl = {} /\ y.arr = Boot.arr /\ y.mode = 0
  BY <1>2, <1>3, <1>5, Names DEF Agree, Fields
<1>7. Machine(y)
  BY <1>2, <1>5, <1>6, NoSession, EmptyDecl DEF Machine
<1> QED BY <1>5, <1>6, <1>7 DEF HasProgram

\* Nor a program, a package or words.
Opened(x) == [x EXCEPT !.prog = <<>>, !.package = None, !.registry = <<>>]
\* Opened, field by field.
LEMMA OpenedFacts ==
  ASSUME NEW x, Shape(x), NEW y, y = Opened(x)
  PROVE  /\ Shape(y) /\ y.prog = <<>> /\ y.package = None /\ y.registry = <<>>
         /\ Agree(x, y, {"prog", "package", "registry"})
<1> DEFINE a1 == [x EXCEPT !.prog = <<>>]
           a2 == [a1 EXCEPT !.package = None]
           a3 == [a2 EXCEPT !.registry = <<>>]
<1>1. Shape(a1) /\ a1.prog = <<>> /\ Agree(x, a1, {"prog"})
  BY Change, Names
<1> HIDE DEF a1
<1>2. Shape(a2) /\ a2.package = None /\ Agree(a1, a2, {"package"})
  BY <1>1, Change, Names
<1> HIDE DEF a2
<1>3. Shape(a3) /\ a3.registry = <<>> /\ Agree(a2, a3, {"registry"})
  BY <1>2, Change, Names
<1>4. y = a3
  BY DEF Opened, a1, a2
<1> HIDE DEF a3
<1> QED BY <1>1, <1>2, <1>3, <1>4, Names DEF Agree, Fields

\* MEM_INIT_V2 keeps the Array Store.
LEMMA MemInitKeeps ==
  ASSUME NEW x, Plain(x), NEW y, y = mem_init(x)
  PROVE  Machine(y) /\ y.prog = <<>> /\ y.store = x.store
<1>1. PICK c : c = clear_arrays(x)
  OBVIOUS
<1>2. /\ Machine(c) /\ c.store = x.store /\ c.sess = FALSE /\ c.decl = {} /\ c.arr = Boot.arr
  BY <1>1, ClearedKeeps
<1>3. Shape(c) /\ c.mode = 0
  BY <1>2 DEF Machine
<1>4. y = Opened(c)
  BY <1>1 DEF mem_init, Opened
<1>5. Shape(y) /\ y.prog = <<>> /\ Agree(c, y, {"prog", "package", "registry"})
  BY <1>3, <1>4, OpenedFacts
<1>6. y.store = x.store /\ y.sess = FALSE /\ y.decl = {} /\ y.arr = Boot.arr /\ y.mode = 0
  BY <1>2, <1>3, <1>5, Names DEF Agree, Fields
<1>7. Machine(y)
  BY <1>2, <1>5, <1>6, NoSession, EmptyDecl DEF Machine
<1> QED BY <1>5, <1>6, <1>7

\* The empty store is sound.
LEMMA EmptyStore == StoreOK(<<>>)
<1>1. IsSeq(<<>>) /\ DOMAIN <<>> = {}
  BY DEF IsSeq, ToSet
<1> QED BY <1>1, BytesNone, SizesAssumption DEF StoreOK

-----------------------------------------------------------------------------
\* An entry taken out of the store, and one put in.

\* The lesser of two numbers.
LEMMA MinOfTwo ==
  ASSUME NEW a \in Int, NEW b \in Int
  PROVE  Min({a, b}) \in {a, b} /\ Min({a, b}) <= a /\ Min({a, b}) <= b
<1>1. \E x \in {a, b} : \A y \in {a, b} : x <= y
  BY SMT
<1>2. Min({a, b}) \in {a, b} /\ \A y \in {a, b} : Min({a, b}) <= y
  BY <1>1 DEF Min
<1> QED BY <1>2

\* The store without the entry of k: sound, of fewer bytes by that entry, without k.
LEMMA WithoutFacts ==
  ASSUME NEW x, StoreOK(x.store), NEW k, NEW t, t = without(x.store, k)
  PROVE  /\ StoreOK(t) /\ (\A i \in DOMAIN t : t[i].key # k) /\ bytes(t) \in Nat
         /\ bytes(t) = bytes(x.store) - old_size(x, k)
<1>1. PICK s : s = x.store
  OBVIOUS
<1>2. /\ StoreOK(s) /\ IsSeq(s) /\ Sized(s) /\ Len(s) \in Nat /\ DOMAIN s = 1 .. Len(s) /\ bytes(s) \in Nat
  BY <1>1, StoreFacts
<1>3. stored(x, k) = {i \in DOMAIN s : s[i].key = k}
  BY <1>1 DEF stored
<1>4. t = IF stored(x, k) = {} THEN s ELSE RemoveAt(s, Min(stored(x, k)))
  BY <1>1, <1>3 DEF without
<1>5. CASE stored(x, k) = {}
  <2>1. t = s /\ old_size(x, k) = 0
    BY <1>4, <1>5 DEF old_size
  <2> QED BY <1>1, <1>2, <1>3, <1>5, <2>1
<1>6. CASE stored(x, k) # {}
  <2>1. PICK i \in DOMAIN s : /\ s[i].key = k /\ Min(stored(x, k)) = i /\ found(x, k) = s[i]
                              /\ \A j \in DOMAIN s : s[j].key = k => j = i
    BY <1>1, <1>6, Found
  <2>2. t = RemoveAt(s, i)
    BY <1>4, <1>6, <2>1
  <2>3. IsSeq(t) /\ Len(t) = Len(s) - 1 /\ \A j \in 1 .. Len(s) - 1 : t[j] = IF j < i THEN s[j] ELSE s[j + 1]
    BY <1>2, <2>2, SeqShorter
  <2>4. Sized(t) /\ bytes(t) = bytes(s) - s[i].size
    BY <1>2, <2>2, BytesShorter
  <2>5. bytes(t) \in Nat
    BY <2>4, BytesNat
  <2>6. DOMAIN t = 1 .. Len(s) - 1
    BY <2>3, SeqFacts
  <2>7. \A j \in DOMAIN t : \E n \in DOMAIN s : n = (IF j < i THEN j ELSE j + 1) /\ t[j] = s[n] /\ n # i
    BY <1>2, <2>3, <2>6
  <2>8. \A j \in DOMAIN t : t[j].key # k /\ SoundEntry(t[j])
    BY <1>2, <2>1, <2>7 DEF StoreOK
  <2>9. \A j, l \in DOMAIN t : t[j].key = t[l].key => j = l
    <3> SUFFICES ASSUME NEW j \in DOMAIN t, NEW l \in DOMAIN t, t[j].key = t[l].key PROVE j = l
      OBVIOUS
    <3>1. PICK a \in DOMAIN s : a = (IF j < i THEN j ELSE j + 1) /\ t[j] = s[a]
      BY <2>7
    <3>2. PICK b \in DOMAIN s : b = (IF l < i THEN l ELSE l + 1) /\ t[l] = s[b]
      BY <2>7
    <3>3. a = b
      BY <1>2, <3>1, <3>2 DEF StoreOK
    <3> QED BY <1>2, <2>6, <3>1, <3>2, <3>3
  <2>10. s[i].size \in Nat
    BY <1>2 DEF Sized
  <2>11. bytes(t) <= SEG2
    BY <1>2, <2>4, <2>5, <2>10, SizesAssumption DEF StoreOK
  <2>12. old_size(x, k) = s[i].size
    BY <1>6, <2>1 DEF old_size
  <2> QED BY <1>1, <2>3, <2>4, <2>5, <2>8, <2>9, <2>11, <2>12 DEF StoreOK
<1> QED BY <1>5, <1>6

\* The store s has no entry of k, and room for the body b.
Takes(s, k, b) ==
  /\ StoreOK(s) /\ k[2] \in {2, 3} /\ \A i \in DOMAIN s : s[i].key # k
  /\ SoundBody(k, b) /\ b.count <= 4095 /\ bytes(s) + 5 + b.len <= SEG2

\* An entry is appended to a store that has none of its key: it is sound, and found.
LEMMA EntryAdded ==
  ASSUME NEW s, NEW k, NEW b, Takes(s, k, b), NEW t, t = s \o <<entry(k, 1, b)>>
  PROVE  StoreOK(t) /\ \A x : x.store = t => stored(x, k) # {} /\ found(x, k).body = b
<1>0. /\ StoreOK(s) /\ k[2] \in {2, 3} /\ (\A i \in DOMAIN s : s[i].key # k)
      /\ SoundBody(k, b) /\ b.count <= 4095 /\ bytes(s) + 5 + b.len <= SEG2
  BY DEF Takes
<1>1. PICK e : e = entry(k, 1, b)
  OBVIOUS
<1>2. /\ IsSeq(s) /\ Sized(s) /\ Len(s) \in Nat /\ DOMAIN s = 1 .. Len(s) /\ bytes(s) \in Nat
  BY <1>0, StoreFacts
<1>3. DOMAIN e = {"key", "size", "body"} /\ e.key = k /\ e.size = 4 + 1 + b.len /\ e.body = b
  BY <1>1 DEF entry
<1>4. e.size \in Nat /\ b.len \in Nat
  BY <1>0, <1>3, SMTT(40) DEF SoundBody
<1>16. t = s \o <<e>>
  BY <1>1
<1>5. IsSeq(t) /\ Len(t) = Len(s) + 1 /\ t[Len(s) + 1] = e /\ \A i \in 1 .. Len(s) : t[i] = s[i]
  <2>1. IsSeq(t)
    BY ONLY <1>2, <1>16, SeqLonger
  <2>2. Len(t) = Len(s) + 1
    BY ONLY <1>2, <1>16, SeqLonger
  <2>3. t[Len(s) + 1] = e
    BY ONLY <1>2, <1>16, SeqLonger
  <2>4. \A i \in 1 .. Len(s) : t[i] = s[i]
    BY ONLY <1>2, <1>16, SeqLonger
  <2> QED BY <2>1, <2>2, <2>3, <2>4
<1>6. bytes(t) = bytes(s) + e.size
  BY ONLY <1>2, <1>4, <1>16, BytesLonger
<1>7. bytes(t) <= SEG2
  BY <1>0, <1>2, <1>3, <1>4, <1>6, SizesAssumption, SMTT(40)
<1>8. DOMAIN t = 1 .. Len(s) + 1
  BY <1>2, <1>5, SeqFacts
<1>9. \A i \in DOMAIN t : i = Len(s) + 1 \/ i \in DOMAIN s
  BY <1>2, <1>8
<1>10. SoundEntry(e)
  BY <1>0, <1>3, <1>4 DEF SoundEntry
<1>11. \A i \in DOMAIN t : SoundEntry(t[i])
  BY <1>0, <1>2, <1>5, <1>9, <1>10 DEF StoreOK
<1>12. \A i \in DOMAIN t : t[i].key = k => i = Len(s) + 1
  BY <1>0, <1>2, <1>5, <1>9
<1>13. \A i, j \in DOMAIN t : t[i].key = t[j].key => i = j
  <2> SUFFICES ASSUME NEW i \in DOMAIN t, NEW j \in DOMAIN t, t[i].key = t[j].key PROVE i = j
    OBVIOUS
  <2>1. CASE t[i].key = k
    BY <1>12, <2>1
  <2>2. CASE t[i].key # k
    <3>1. i \in DOMAIN s /\ j \in DOMAIN s
      BY <1>3, <1>5, <1>9, <2>2
    <3>2. t[i] = s[i] /\ t[j] = s[j]
      BY <1>2, <1>5, <3>1
    <3> QED BY <1>0, <3>1, <3>2 DEF StoreOK
  <2> QED BY <2>1, <2>2
<1>14. StoreOK(t)
  BY <1>5, <1>7, <1>11, <1>13 DEF StoreOK
<1>15. ASSUME NEW x, x.store = t
       PROVE  stored(x, k) # {} /\ found(x, k).body = b
  <2>1. Len(s) + 1 \in DOMAIN x.store /\ x.store[Len(s) + 1].key = k
    BY <1>2, <1>3, <1>5, <1>8, <1>15
  <2>2. stored(x, k) # {}
    BY <2>1 DEF stored
  <2>5. StoreOK(x.store)
    BY <1>14, <1>15
  <2>3. PICK i \in DOMAIN x.store : /\ x.store[i].key = k /\ Min(stored(x, k)) = i /\ found(x, k) = x.store[i] /\ i \in Nat
                                    /\ \A j \in DOMAIN x.store : x.store[j].key = k => j = i
    BY <2>2, <2>5, Found
  <2>4. i = Len(s) + 1
    BY <1>12, <1>15, <2>3
  <2> QED BY <1>3, <1>5, <1>15, <2>2, <2>3, <2>4
<1> QED BY <1>14, <1>15

\* ARR_VALIDATE, and what it asks of a sound body.
LEMMA ValidSound ==
  ASSUME NEW k, k[2] \in {2, 3}, NEW b, DOMAIN b = {"dims", "count", "width", "vals", "len"}, b.width \in Nat, b.len \in Nat, valid(k[2], b)
  PROVE  SoundBody(k, b) /\ b.count <= 4095
<1>1. b.count \in 1 .. 4095 /\ b.dims = 1
  BY DEF valid
<1>5. PICK c : c = b.count
  OBVIOUS
<1>7. c \in 1 .. 4095
  BY <1>1, <1>5
<1>6. c \in Nat \ {0} /\ c <= 4095
  BY ONLY <1>7, SMT
<1>2. b.count \in Nat \ {0} /\ b.count <= 4095
  BY <1>5, <1>6
<1>3. k[2] = 3 => b.width >= 2 /\ \A i \in DOMAIN b.vals : b.vals[i] < STRING_MAX /\ b.vals[i] < b.width
  BY DEF valid
<1>4. b.len = IF k[2] = 2 THEN 3 + 2 * b.count ELSE 4 + b.count * b.width
  BY DEF valid
<1> QED BY <1>1, <1>2, <1>3, <1>4 DEF SoundBody

\* A sound body of at most 4095 elements passes the checks of V2_LOAD_ARRAY.
LEMMA SoundValid ==
  ASSUME NEW k, k[2] \in {2, 3}, NEW b, SoundBody(k, b), b.count <= 4095
  PROVE  valid(k[2], b)
<1>1. PICK c : c = b.count
  OBVIOUS
<1>3. c \in Nat \ {0} /\ c <= 4095
  BY <1>1 DEF SoundBody
<1>4. c \in 1 .. 4095
  BY ONLY <1>3, SMT
<1>2. b.count \in 1 .. 4095
  BY <1>1, <1>4
<1> QED BY <1>2 DEF SoundBody, valid

\* V2_LOAD_ARRAY's store.
LEMMA RoomFacts ==
  ASSUME NEW x, StoreOK(x.store), x.prog \in PROGS \cup {<<>>}, NEW k
  PROVE  room(x, k, 1) \in Int /\ room(x, k, 1) <= SEG2 - 5 - (bytes(x.store) - old_size(x, k)) /\ room(x, k, 1) <= SEG2
<1>1. PICK t : t = without(x.store, k)
  OBVIOUS
<1>2. bytes(t) \in Nat /\ bytes(t) = bytes(x.store) - old_size(x, k)
  BY <1>1, WithoutFacts
<1>3. size(x.prog) \in Nat
  BY Programs
<1>4. PICK a, b : a = SEG2 - 4 - 1 - (bytes(x.store) - old_size(x, k)) /\ b = POOL + CODE - (size(x.prog) + 1 + 4 + 1)
  OBVIOUS
<1>8. SEG2 \in Nat /\ POOL \in Nat /\ CODE \in Nat
  BY SizesAssumption
<1>9. a = SEG2 - 4 - 1 - bytes(t)
  BY <1>2, <1>4
<1>5. a \in Int /\ b \in Int /\ a = SEG2 - 5 - bytes(t) /\ SEG2 \in Nat
  BY <1>2, <1>3, <1>4, <1>8, <1>9
<1>6. Min({a, b}) \in Int /\ Min({a, b}) <= a
  BY <1>5, MinOfTwo
<1>7. room(x, k, 1) = Min({a, b})
  BY <1>4 DEF room
<1> QED BY <1>2, <1>5, <1>6, <1>7

\* There is room for the array in the machine.
Fits(x, k, b) ==
  /\ StoreOK(x.store) /\ x.prog \in PROGS \cup {<<>>} /\ k[2] \in {2, 3} /\ SoundBody(k, b) /\ b.count <= 4095
  /\ b.len <= room(x, k, 1)
EntryIn(t, k, b) == StoreOK(t) /\ \A y : y.store = t => stored(y, k) # {} /\ found(y, k).body = b
\* An array that fits the room is entered: the store stays sound, and holds it.
LEMMA NewEntry ==
  ASSUME NEW x, NEW k, NEW b, Fits(x, k, b), NEW t, t = without(x.store, k) \o <<entry(k, 1, b)>>
  PROVE  EntryIn(t, k, b)
<1>10. /\ StoreOK(x.store) /\ x.prog \in PROGS \cup {<<>>} /\ k[2] \in {2, 3} /\ SoundBody(k, b) /\ b.count <= 4095
       /\ b.len <= room(x, k, 1)
  BY DEF Fits
<1>11. StoreOK(x.store)
  BY <1>10
<1>1. PICK s : s = without(x.store, k)
  OBVIOUS
<1>2. StoreOK(s) /\ (\A i \in DOMAIN s : s[i].key # k) /\ bytes(s) \in Nat /\ bytes(s) = bytes(x.store) - old_size(x, k)
  <2>1. StoreOK(s)
    BY ONLY <1>1, <1>11, WithoutFacts
  <2>2. \A i \in DOMAIN s : s[i].key # k
    BY ONLY <1>1, <1>11, WithoutFacts
  <2>3. bytes(s) \in Nat
    BY ONLY <1>1, <1>11, WithoutFacts
  <2>4. bytes(s) = bytes(x.store) - old_size(x, k)
    BY ONLY <1>1, <1>11, WithoutFacts
  <2> QED BY <2>1, <2>2, <2>3, <2>4
<1>3. b.len \in Nat
  BY <1>10 DEF SoundBody
<1>4. room(x, k, 1) \in Int /\ room(x, k, 1) <= SEG2 - 5 - bytes(s)
  BY <1>2, <1>10, RoomFacts
<1>5. bytes(s) + 5 + b.len <= SEG2
  BY <1>2, <1>3, <1>4, <1>10, SizesAssumption
<1>6. Takes(s, k, b)
  BY <1>2, <1>5, <1>10 DEF Takes
<1>7. t = s \o <<entry(k, 1, b)>>
  BY <1>1
<1>8. StoreOK(t)
  BY ONLY <1>6, <1>7, EntryAdded
<1>9. \A y : y.store = t => stored(y, k) # {} /\ found(y, k).body = b
  BY ONLY <1>6, <1>7, EntryAdded
<1> QED BY <1>8, <1>9 DEF EntryIn

-----------------------------------------------------------------------------
\* STORAGE_LOAD: no block is the file's header, or the first is.

\* A search ends after ATTEMPTS blocks or with the tape.
LEMMA Stops ==
  ASSUME NEW t, IsSeq(t), NEW q, NEW last, last = Min({ATTEMPTS, Len(t)})
  PROVE  last \in Nat /\ last <= Len(t) /\ (Len(t) >= 1 => last >= 1)
<1>1. Len(t) \in Nat
  BY SeqFacts
<1>2. last \in {ATTEMPTS, Len(t)} /\ last <= Len(t)
  BY <1>1, MinOfTwo DEF ATTEMPTS
<1> QED BY <1>1, <1>2 DEF ATTEMPTS

\* A tape on which no block is wanted is listened to in vain, and nothing is touched.
LEMMA NoneWanted ==
  ASSUME NEW t, IsSeq(t), NEW q, \A i \in DOMAIN t : ~wanted(t[i], q), NEW r, r = storage_load(t, q)
  PROVE  r.class = "clean"
<1>1. PICK last : last = Min({ATTEMPTS, Len(t)})
  OBVIOUS
<1>2. last \in Nat /\ last <= Len(t) /\ Len(t) \in Nat /\ DOMAIN t = 1 .. Len(t)
  BY <1>1, Stops, SeqFacts
<1>3. PICK stops : stops = {i \in 1 .. last : t[i].cut \in Pressed \/ wanted(t[i], q)}
  OBVIOUS
<1>4. PICK s : s = seek(t, q)
  OBVIOUS
<1>5. s = IF stops = {} THEN [found |-> FALSE, block |-> Silence, tape |-> SubSeq(t, last + 1, Len(t))]
          ELSE [found |-> wanted(t[Min(stops)], q), block |-> t[Min(stops)], tape |-> SubSeq(t, Min(stops) + 1, Len(t))]
  BY <1>1, <1>3, <1>4 DEF seek
<1>6. ~s.found
  <2>1. CASE stops = {}
    BY <1>5, <2>1
  <2>2. CASE stops # {}
    <3>1. stops \subseteq Nat /\ stops \subseteq DOMAIN t
      BY <1>2, <1>3
    <3>2. Min(stops) \in DOMAIN t
      BY <2>2, <3>1, MinIn
    <3>3. ~wanted(t[Min(stops)], q)
      BY <3>2
    <3>4. s.found = wanted(t[Min(stops)], q)
      BY <1>5, <2>2
    <3> QED BY <3>3, <3>4
  <2> QED BY <2>1, <2>2
<1>7. r = failure("clean", s.block, s.tape)
  BY <1>4, <1>6 DEF storage_load
<1> QED BY <1>7 DEF failure, outcome

\* A wanted first block ends the search.
LEMMA SeekFirst ==
  ASSUME NEW t, IsSeq(t), Len(t) >= 1, NEW q, wanted(t[1], q), NEW s, s = seek(t, q)
  PROVE  s.found /\ s.block = t[1] /\ s.tape = SubSeq(t, 2, Len(t))
<1>1. PICK last : last = Min({ATTEMPTS, Len(t)})
  OBVIOUS
<1>2. last \in Nat /\ last >= 1
  BY <1>1, Stops
<1>3. PICK stops : stops = {i \in 1 .. last : t[i].cut \in Pressed \/ wanted(t[i], q)}
  OBVIOUS
<1>4. 1 \in stops /\ stops \subseteq Nat /\ \A i \in stops : i >= 1
  BY <1>2, <1>3
<1>5. Min(stops) \in stops /\ Min(stops) <= 1
  BY <1>4, MinIn
<1>6. Min(stops) = 1
  <2>1. PICK n : n = Min(stops)
    OBVIOUS
  <2>2. n \in Nat /\ n <= 1 /\ n >= 1
    BY <1>4, <1>5, <2>1
  <2> QED BY <2>1, <2>2
<1>7. s = IF stops = {} THEN [found |-> FALSE, block |-> Silence, tape |-> SubSeq(t, last + 1, Len(t))]
          ELSE [found |-> wanted(t[Min(stops)], q), block |-> t[Min(stops)], tape |-> SubSeq(t, Min(stops) + 1, Len(t))]
  BY <1>1, <1>3 DEF seek
<1>8. s = [found |-> wanted(t[1], q), block |-> t[1], tape |-> SubSeq(t, 2, Len(t))]
  <2>1. stops # {}
    BY <1>4
  <2>2. s = [found |-> wanted(t[1], q), block |-> t[1], tape |-> SubSeq(t, 1 + 1, Len(t))]
    BY <1>6, <1>7, <2>1
  <2> QED BY <2>2
<1> QED BY <1>8

\* What is refused by the header, and a data block that is whole.
Version(h, q) == h.word[1] # word(q.type)[1] \/ h.word[2] > word(q.type)[2]
Long(h, q) == h.length > bound(q, h)

\* How a file whose header is the first block is received: by its version, its length, its second block.
LEMMA FirstWanted ==
  ASSUME NEW t, IsSeq(t), Len(t) >= 1, NEW q, wanted(t[1], q), NEW h, h = t[1].data[2], NEW u, u = SubSeq(t, 2, Len(t)),
         NEW r, r = storage_load(t, q)
  PROVE  /\ Version(h, q) => r.class = "version"
         /\ ~Version(h, q) /\ Long(h, q) => r.class = "long"
         /\ ~Version(h, q) /\ ~Long(h, q) /\ received(u, h.length) # "ok" =>
              r.class = IF q.verify \/ received(u, h.length) \in Early THEN "clean" ELSE "touched"
         /\ ~Version(h, q) /\ ~Long(h, q) /\ received(u, h.length) = "ok" =>
              r.class = "ok" /\ r.header = h /\ r.data = Head(u).data /\ r.tape = Tail(u)
<1>1. PICK s : s = seek(t, q)
  OBVIOUS
<1>2. s.found /\ s.block = t[1] /\ s.tape = u
  BY <1>1, SeekFirst
<1>3. Version(h, q) => r = failure("version", Silence, u)
  BY <1>1, <1>2 DEF storage_load, Version
<1>4. ~Version(h, q) /\ Long(h, q) => r = failure("long", Silence, u)
  BY <1>1, <1>2 DEF storage_load, Version, Long
<1>5. ~Version(h, q) /\ ~Long(h, q) /\ received(u, h.length) = "ok" => r = outcome("ok", FALSE, h, Head(u).data, Tail(u))
  BY <1>1, <1>2 DEF storage_load, Version, Long
<1>6. ~Version(h, q) /\ ~Long(h, q) /\ received(u, h.length) # "ok" =>
        r = failure(IF q.verify \/ received(u, h.length) \in Early THEN "clean" ELSE "touched",
                    IF u = <<>> THEN Silence ELSE Head(u), rest(u))
  BY <1>1, <1>2 DEF storage_load, Version, Long
<1>7. Version(h, q) => r.class = "version"
  BY <1>3 DEF failure, outcome
<1>8. ~Version(h, q) /\ Long(h, q) => r.class = "long"
  BY <1>4 DEF failure, outcome
<1>9. ~Version(h, q) /\ ~Long(h, q) /\ received(u, h.length) = "ok" =>
              r.class = "ok" /\ r.header = h /\ r.data = Head(u).data /\ r.tape = Tail(u)
  <2> SUFFICES ASSUME ~Version(h, q) /\ ~Long(h, q) /\ received(u, h.length) = "ok"
               PROVE  r.class = "ok" /\ r.header = h /\ r.data = Head(u).data /\ r.tape = Tail(u)
    OBVIOUS
  <2>1. PICK d, v : d = Head(u).data /\ v = Tail(u)
    OBVIOUS
  <2>2. r = [class |-> "ok", abort |-> FALSE, header |-> h, data |-> d, tape |-> v]
    BY <1>5, <2>1 DEF outcome
  <2>3. r.class = "ok" /\ r.header = h /\ r.data = d /\ r.tape = v
    BY ONLY <2>2
  <2> QED BY <2>1, <2>3
<1>10. ~Version(h, q) /\ ~Long(h, q) /\ received(u, h.length) # "ok" =>
              r.class = IF q.verify \/ received(u, h.length) \in Early THEN "clean" ELSE "touched"
  BY <1>6 DEF failure, outcome
<1> QED BY <1>7, <1>8, <1>9, <1>10

\* What follows the first block of a tape, and the second.
LEMMA Following ==
  ASSUME NEW t, IsSeq(t), Len(t) >= 2, NEW u, u = SubSeq(t, 2, Len(t))
  PROVE  /\ u # <<>> /\ Head(u) = t[2]
         /\ Len(t) = 2 => Tail(u) = <<>>
         /\ Len(t) >= 3 => Tail(u) # <<>> /\ Head(Tail(u)) = t[3]
<1>1. PICK S : S = ToSet(t)
  OBVIOUS
<1>2. t \in Seq(S) /\ Len(t) \in Nat
  BY <1>1, SeqFacts DEF IsSeq
<1>3. u \in Seq(S) /\ Len(u) = Len(t) - 1 /\ \A i \in 1 .. Len(u) : u[i] = t[i + 1]
  <2>1. PICK n \in Nat : n = Len(t)
    BY <1>2
  <2>2. \A i \in 1 .. n : t[i] \in S
    BY <1>2, <2>1
  <2>6. PICK mm \in Nat : mm = n - 1
    BY <2>1
  <2>7. \A i \in 1 .. mm : i + 1 \in 1 .. n
    BY <2>6
  <2>3. u = [i \in 1 .. mm |-> t[i + 1]]
    BY ONLY u = SubSeq(t, 2, Len(t)), <1>2, <2>1, <2>6, SMT
  <2>4. u \in [1 .. mm -> S]
    BY ONLY <2>2, <2>3, <2>7
  <2>8. u \in Seq(S)
    BY ONLY <2>4, <2>6
  <2>9. Len(u) = mm
    BY ONLY <2>4, <2>6
  <2>5. u \in Seq(S) /\ Len(u) = n - 1
    BY <2>6, <2>8, <2>9
  <2> QED BY <2>1, <2>3, <2>5, <2>6
<1>4. u # <<>> /\ Head(u) = t[2]
  <2>1. u \in Seq(S) /\ Len(u) >= 1 /\ u[1] = t[2]
    BY <1>2, <1>3
  <2>2. u # <<>> /\ Head(u) = u[1]
    BY ONLY <2>1
  <2> QED BY <2>1, <2>2
<1>5. Tail(u) \in Seq(S) /\ Len(Tail(u)) = Len(u) - 1 /\ \A i \in 1 .. Len(u) - 1 : Tail(u)[i] = u[i + 1]
  BY <1>2, <1>3, <1>4
<1>6. Len(t) = 2 => Tail(u) = <<>>
  BY <1>3, <1>5
<1>7. Len(t) >= 3 => Tail(u) # <<>> /\ Head(Tail(u)) = t[3]
  <2> SUFFICES ASSUME Len(t) >= 3 PROVE Tail(u) # <<>> /\ Head(Tail(u)) = t[3]
    OBVIOUS
  <2>1. PICK v : v = Tail(u)
    OBVIOUS
  <2>2. v \in Seq(S) /\ Len(v) >= 1 /\ v[1] = u[2] /\ u[2] = t[3]
    BY <1>2, <1>3, <1>5, <2>1
  <2>3. v # <<>> /\ Head(v) = v[1]
    BY <2>2
  <2> QED BY <2>1, <2>2, <2>3
<1> QED BY <1>4, <1>6, <1>7

\* A block that is received whole.
Cuts == {"no", "early", "late", "space", "held"}
Whole(b, len) == b.flag = 255 /\ b.cut = "no" /\ b.len = len

\* A second block is received when it is whole and as long as announced.
LEMMA ReceivedFirst ==
  ASSUME NEW u, u # <<>>, NEW b, b = Head(u), b.cut \in Cuts, NEW len
  PROVE  received(u, len) = "ok" <=> Whole(b, len)
BY DEF received, Whole, Cuts

\* There is none at the end of the tape.
LEMMA ReceivedNone == \A len : received(<<>>, len) # "ok"
BY DEF received

-----------------------------------------------------------------------------
\* The tapes that are played.

\* A block, the header of a file of this type, and a tape of n blocks that has one and its data first.
Block(b) == b = [flag |-> b.flag, data |-> b.data, len |-> b.len, cut |-> b.cut]
Headed(b, type, len, proglen) ==
  /\ b.flag = 0 /\ b.cut = "no" /\ b.data[1] = "header" /\ b.data[2].type = type /\ b.data[2].name = "f"
  /\ b.data[2].length = len /\ b.data[2].proglen = proglen
Filed(t, n, type, data, len, proglen) ==
  /\ IsSeq(t) /\ Len(t) = n /\ DOMAIN t = 1 .. n
  /\ Block(t[1]) /\ Headed(t[1], type, len, proglen) /\ t[1].data[2].word = FORMAT
  /\ DOMAIN t[1].data[2] = {"type", "name", "length", "word", "proglen"}
  /\ Block(t[2]) /\ t[2].flag = 255 /\ t[2].cut = "no" /\ t[2].data = data /\ t[2].len = len

\* A header, as it is written.
LEMMA HeaderFacts ==
  ASSUME NEW type \in {PROGRAM, ARRAY}, NEW len, NEW proglen, NEW b, b = header(type, "f", len, proglen)
  PROVE  /\ Headed(b, type, len, proglen) /\ Block(b) /\ b.data[2].word = FORMAT
         /\ DOMAIN b.data[2] = {"type", "name", "length", "word", "proglen"}
<1>1. PICK h : h = [type |-> type, name |-> "f", length |-> len, word |-> word(type), proglen |-> proglen]
  OBVIOUS
<1>2. b = [flag |-> 0, data |-> <<"header", h>>, len |-> 17, cut |-> "no"]
  BY <1>1 DEF header, block
<1>3. b.flag = 0 /\ b.cut = "no" /\ b.data[1] = "header" /\ b.data[2] = h
  BY ONLY <1>2, SMT
<1>6. Block(b)
  BY ONLY <1>2, SMT DEF Block
<1>4. /\ h.type = type /\ h.name = "f" /\ h.length = len /\ h.word = word(type) /\ h.proglen = proglen
      /\ DOMAIN h = {"type", "name", "length", "word", "proglen"}
  BY ONLY <1>1, SMT
<1>5. word(type) = FORMAT
  BY DEF word, PROGRAM, ARRAY, EXTENSION
<1> QED BY <1>3, <1>4, <1>5, <1>6 DEF Headed

\* A data block, as it is written.
LEMMA BlockFacts ==
  ASSUME NEW data, NEW len, NEW b, b = block(255, data, len)
  PROVE  b.flag = 255 /\ b.cut = "no" /\ b.data = data /\ b.len = len /\ Block(b)
BY SMT DEF block, Block

\* One block of a tape is changed.
Replaced(t, s, i, b) ==
  IsSeq(t) /\ Len(t) = Len(s) /\ DOMAIN t = DOMAIN s /\ t[i] = b /\ \A j \in DOMAIN s : j # i => t[j] = s[j]
\* One block of a tape is replaced.
LEMMA BlockChanged ==
  ASSUME NEW s, IsSeq(s), NEW i \in DOMAIN s, NEW b, NEW t, t = [s EXCEPT ![i] = b]
  PROVE  Replaced(t, s, i, b)
<1>1. Len(s) \in Nat /\ DOMAIN s = 1 .. Len(s)
  BY SeqFacts
<1>2. DOMAIN t = 1 .. Len(s) /\ t = [j \in 1 .. Len(s) |-> t[j]]
  BY <1>1
<1>3. IsSeq(t) /\ Len(t) = Len(s)
  BY ONLY <1>1, <1>2, SeqBuilt
<1> QED BY <1>1, <1>2, <1>3 DEF Replaced

\* A file of two blocks, as it is written.
LEMMA FileFacts ==
  ASSUME NEW type \in {PROGRAM, ARRAY}, NEW data, NEW len, NEW proglen, NEW t, t = file(type, "f", data, len, proglen)
  PROVE  Filed(t, 2, type, data, len, proglen)
<1>1. PICK a, b : a = header(type, "f", len, proglen) /\ b = block(255, data, len)
  OBVIOUS
<1>2. t = <<a, b>>
  BY <1>1 DEF file
<1>3. DOMAIN t = 1 .. 2 /\ t[1] = a /\ t[2] = b /\ t = [i \in 1 .. 2 |-> t[i]]
  BY ONLY <1>2, SMT
<1>4. IsSeq(t) /\ Len(t) = 2
  BY ONLY <1>3, SeqBuilt
<1>5. Headed(a, type, len, proglen) /\ Block(a)
  BY <1>1, HeaderFacts
<1>6. a.data[2].word = FORMAT /\ DOMAIN a.data[2] = {"type", "name", "length", "word", "proglen"}
  BY <1>1, HeaderFacts
<1>7. b.flag = 255 /\ b.cut = "no" /\ b.data = data /\ b.len = len /\ Block(b)
  BY <1>1, BlockFacts
<1> QED BY <1>3, <1>4, <1>5, <1>6, <1>7 DEF Filed

\* The tape of SAVE ... ALL.
Taped(o) ==
  file(PROGRAM, "f", block1(o), image_length(o), size(o.prog)) \o <<block(255, block2(o), o.end2)>>
TapedAll(t, o) ==
  /\ Filed(t, 3, PROGRAM, block1(o), image_length(o), size(o.prog))
  /\ t[3].flag = 255 /\ t[3].cut = "no" /\ t[3].data = block2(o) /\ t[3].len = o.end2 /\ Block(t[3])
\* A file of three blocks, as SAVE ... ALL writes it.
LEMMA TapedFacts ==
  ASSUME NEW o, NEW t, t = Taped(o)
  PROVE  TapedAll(t, o)
<1>1. PICK f, e : /\ f = file(PROGRAM, "f", block1(o), image_length(o), size(o.prog))
                  /\ e = block(255, block2(o), o.end2)
  OBVIOUS
<1>2. Filed(f, 2, PROGRAM, block1(o), image_length(o), size(o.prog))
  BY <1>1, FileFacts
<1>3. t = f \o <<e>>
  BY <1>1 DEF Taped
<1>4. Len(f) = 2
  BY <1>2 DEF Filed
<1>10. IsSeq(f)
  BY <1>2 DEF Filed
<1>5. IsSeq(t)
  BY ONLY <1>3, <1>10, SeqLonger
<1>6. Len(t) = Len(f) + 1
  BY ONLY <1>3, <1>10, SeqLonger
<1>7. t[Len(f) + 1] = e
  BY ONLY <1>3, <1>10, SeqLonger
<1>8. \A i \in 1 .. Len(f) : t[i] = f[i]
  BY ONLY <1>3, <1>10, SeqLonger
<1>9. Len(t) = 3 /\ t[3] = e /\ t[1] = f[1] /\ t[2] = f[2]
  BY ONLY <1>4, <1>6, <1>7, <1>8
<1>11. e.flag = 255 /\ e.cut = "no" /\ e.data = block2(o) /\ e.len = o.end2 /\ Block(e)
  BY <1>1, BlockFacts
<1>12. DOMAIN t = 1 .. 3
  BY <1>5, <1>9, SeqFacts
<1>13. Filed(t, 3, PROGRAM, block1(o), image_length(o), size(o.prog))
  BY <1>2, <1>5, <1>9, <1>12 DEF Filed
<1> QED BY <1>9, <1>11, <1>13 DEF TapedAll

-----------------------------------------------------------------------------
\* What the tape holds of what was recorded.

\* The shape of a body, whatever it holds.
Readable(b) == DOMAIN b = {"dims", "count", "width", "vals", "len"} /\ b.width \in Nat /\ b.len \in Nat
TapeOK ==
  /\ rec.kind \in {"none", "program", "array", "all"}
  /\ rec.kind = "none" => tape = <<>>
  /\ rec.kind = "program" => rec.of.prog \in PROGS \cup {<<>>} /\ tape = program_file("f", rec.of.prog)
  /\ rec.kind = "array" =>
       rec.key[2] \in {2, 3} /\ Readable(rec.of.store[1].body) /\ tape = array_file("f", rec.of.store[1].body)
  /\ rec.kind = "all" =>
       Machine(rec.of) /\ rec.of.sess = TRUE /\ builds(rec.of) /\ rec.of = holds("all", NoKey, rec.of) /\ tape = Taped(rec.of)

\* How a tape differs from the one recorded: no header is whole; a later version's; the second block is damaged; or its
\* data is d.
Unheaded(t) == \A i \in DOMAIN t : t[i].cut # "no" \/ t[i].flag # 0
Later(t, type, len, proglen) == Headed(t[1], type, len, proglen) /\ t[1].data[2].word = <<129, 2>>
Damaged(t) == t[1] = tape[1] /\ t[2].flag = 255 /\ t[2].cut \in Cuts \ {"no"}
Bringing(t, d) == t[1] = tape[1] /\ t[2].flag = 255 /\ t[2].cut = "no" /\ t[2].len = tape[2].len /\ t[2].data = d

\* The data of one block is changed.
LEMMA AlteredTape ==
  ASSUME IsSeq(tape), NEW i \in DOMAIN tape, Block(tape[i]), NEW d, NEW t, t = altered(i, d), NEW b, b = [tape[i] EXCEPT !.data = d]
  PROVE  /\ Replaced(t, tape, i, b)
         /\ b.flag = tape[i].flag /\ b.data = d /\ b.len = tape[i].len /\ b.cut = tape[i].cut
         /\ d = tape[i].data => b = tape[i]
<1>1. t = [tape EXCEPT ![i] = b]
  BY DEF altered
<1>2. Replaced(t, tape, i, b)
  BY <1>1, BlockChanged
<1>3. b.flag = tape[i].flag /\ b.data = d /\ b.len = tape[i].len /\ b.cut = tape[i].cut
  BY SMT DEF Block
<1>4. d = tape[i].data => b = tape[i]
  BY SMT DEF Block
<1> QED BY <1>2, <1>3, <1>4

\* A block is cut: the header, the second block or the third.
LEMMA CutTape ==
  ASSUME NEW n \in {2, 3}, NEW type, NEW data, NEW len, NEW proglen, Filed(tape, n, type, data, len, proglen),
         n = 3 => tape[3].flag = 255 /\ Block(tape[3]),
         NEW i \in DOMAIN tape, NEW how \in {"early", "late", "space", "held"}, NEW t, t = cut(i, how)
  PROVE  /\ IsSeq(t) /\ Len(t) = n
         /\ i = 1 => Unheaded(t)
         /\ i = 2 => Damaged(t)
         /\ i = 3 => t[1] = tape[1] /\ t[2] = tape[2] /\ t[3].cut \in Cuts \ {"no"}
<1>1. PICK b : b = [tape[i] EXCEPT !.cut = how]
  OBVIOUS
<1>2. t = [tape EXCEPT ![i] = b]
  BY <1>1 DEF cut
<1>3. /\ IsSeq(tape) /\ Len(tape) = n /\ DOMAIN tape = 1 .. n /\ Block(tape[1]) /\ tape[1].flag = 0
      /\ Block(tape[2]) /\ tape[2].flag = 255
  BY DEF Filed, Headed
<1>4. Replaced(t, tape, i, b)
  BY <1>2, <1>3, BlockChanged
<1>8. b.cut = how /\ b.flag = tape[i].flag
  <2>1. Block(tape[i])
    BY <1>3
  <2> QED BY <1>1, <2>1, SMT DEF Block
<1>9. how \in Cuts \ {"no"}
  BY DEF Cuts
<1>10. i = 1 => Unheaded(t)
  BY <1>3, <1>4, <1>8, <1>9 DEF Unheaded, Replaced
<1>11. i = 2 => Damaged(t)
  BY <1>3, <1>4, <1>8, <1>9 DEF Damaged, Replaced
<1>12. i = 3 => t[1] = tape[1] /\ t[2] = tape[2] /\ t[3].cut \in Cuts \ {"no"}
  BY <1>3, <1>4, <1>8, <1>9 DEF Replaced
<1> QED BY <1>3, <1>4, <1>10, <1>11, <1>12 DEF Replaced

\* The header of a later version.
LEMMA LaterTape ==
  ASSUME NEW n \in {2, 3}, NEW type, NEW data, NEW len, NEW proglen, Filed(tape, n, type, data, len, proglen),
         NEW t, t = later
  PROVE  IsSeq(t) /\ Len(t) = n /\ Later(t, type, len, proglen)
<1>1. /\ IsSeq(tape) /\ Len(tape) = n /\ 1 \in DOMAIN tape /\ Block(tape[1]) /\ Headed(tape[1], type, len, proglen)
      /\ DOMAIN tape[1].data[2] = {"type", "name", "length", "word", "proglen"}
  BY DEF Filed
<1>4. PICK g, d : g = [tape[1].data[2] EXCEPT !.word = <<129, 2>>] /\ d = <<"header", g>>
  OBVIOUS
<1>5. t = altered(1, d)
  BY <1>4 DEF later, recorded
<1>2. PICK b : b = [tape[1] EXCEPT !.data = d]
  OBVIOUS
<1>6. Replaced(t, tape, 1, b)
  BY ONLY <1>1, <1>2, <1>5, AlteredTape
<1>7. b.flag = tape[1].flag /\ b.data = d /\ b.cut = tape[1].cut
  BY ONLY <1>1, <1>2, <1>5, AlteredTape
<1>8. d[1] = "header" /\ d[2] = g
  BY <1>4
<1>9. /\ g.type = tape[1].data[2].type /\ g.name = tape[1].data[2].name /\ g.length = tape[1].data[2].length
      /\ g.proglen = tape[1].data[2].proglen /\ g.word = <<129, 2>>
  BY <1>1, <1>4
<1> QED BY <1>1, <1>6, <1>7, <1>8, <1>9 DEF Later, Headed, Replaced

\* The image: its fields, and the images of changed tapes.
ImageShape(x) ==
  x = [prog |-> x.prog, vars |-> x.vars, decl |-> x.decl, arr |-> x.arr, arena |-> x.arena, end2 |-> x.end2,
       pas |-> x.pas, chain |-> x.chain, seg2 |-> x.seg2, rom |-> x.rom, crc |-> x.crc]
ImageOf(x, o) ==
  /\ ImageShape(x) /\ x.prog = o.prog /\ x.vars = o.vars /\ x.decl = o.decl /\ x.arr = pointers(o) /\ x.arena = o.arena
  /\ x.end2 = o.end2 /\ x.pas = bytes(o.store) /\ x.chain = ~unfit(o) /\ x.seg2 = segment2(o) /\ x.rom = identity(o)
  /\ x.crc = digest(x)

\* The CRC is put into an image.
LEMMA CrcIn ==
  ASSUME NEW p, NEW v, NEW d, NEW a, NEW n, NEW e, NEW s, NEW h, NEW g, NEW r, NEW c, NEW y,
         y = [prog |-> p, vars |-> v, decl |-> d, arr |-> a, arena |-> n, end2 |-> e, pas |-> s, chain |-> h, seg2 |-> g, rom |-> r,
              crc |-> <<>>]
  PROVE  [y EXCEPT !.crc = c] = [prog |-> p, vars |-> v, decl |-> d, arr |-> a, arena |-> n, end2 |-> e, pas |-> s, chain |-> h,
                                 seg2 |-> g, rom |-> r, crc |-> c]
BY SMT

\* The image SAVE ... ALL writes, field by field.
LEMMA ImageFacts ==
  ASSUME NEW o, NEW x, x = image(o)
  PROVE  ImageOf(x, o)
<1>1. PICK a, p, h, g, r : a = pointers(o) /\ p = bytes(o.store) /\ h = ~unfit(o) /\ g = segment2(o) /\ r = identity(o)
  OBVIOUS
<1>2. PICK y : y = [prog |-> o.prog, vars |-> o.vars, decl |-> o.decl, arr |-> a, arena |-> o.arena, end2 |-> o.end2,
                    pas |-> p, chain |-> h, seg2 |-> g, rom |-> r, crc |-> <<>>]
  OBVIOUS
<1>3. PICK c : c = digest(y)
  OBVIOUS
<1>4. x = [y EXCEPT !.crc = c]
  BY <1>1, <1>2, <1>3 DEF image, sealed
<1>5. x = [prog |-> o.prog, vars |-> o.vars, decl |-> o.decl, arr |-> a, arena |-> o.arena, end2 |-> o.end2,
           pas |-> p, chain |-> h, seg2 |-> g, rom |-> r, crc |-> c]
  BY ONLY <1>2, <1>4, CrcIn
<1>6. /\ x.prog = o.prog /\ x.vars = o.vars /\ x.decl = o.decl /\ x.arr = a /\ x.arena = o.arena
      /\ x.end2 = o.end2 /\ x.pas = p /\ x.chain = h /\ x.seg2 = g /\ x.rom = r /\ x.crc = c
  BY ONLY <1>5, SMT
<1>7. /\ y.prog = o.prog /\ y.vars = o.vars /\ y.decl = o.decl /\ y.arr = a /\ y.arena = o.arena
      /\ y.end2 = o.end2 /\ y.pas = p /\ y.chain = h /\ y.seg2 = g /\ y.rom = r
  BY ONLY <1>2, SMT
<1>8. ImageShape(x)
  BY <1>5, <1>6 DEF ImageShape
<1>9. c = digest(x)
  BY <1>3, <1>6, <1>7 DEF digest
<1> QED BY <1>1, <1>6, <1>8, <1>9 DEF ImageOf

\* What a changed image has: the program, and a CRC of its own, or the identity of other ROMs, or no chain of addresses.
Variant(y, x) ==
  /\ y.prog = x.prog /\ y.decl = x.decl /\ y.arena = x.arena
  /\ y = x \/ y.crc # digest(y) \/ (\A w : y.rom # identity(w)) \/ y.chain = FALSE

\* An image with other variables under the same CRC is a variant: it is not what was recorded and its CRC says so.
LEMMA EditedImage ==
  ASSUME NEW x, ImageShape(x), x.crc = digest(x), NEW v, NEW y, y = [x EXCEPT !.vars = v]
  PROVE  Variant(y, x)
<1>1. /\ y.prog = x.prog /\ y.decl = x.decl /\ y.arr = x.arr /\ y.arena = x.arena /\ y.end2 = x.end2 /\ y.pas = x.pas
      /\ y.chain = x.chain /\ y.seg2 = x.seg2 /\ y.rom = x.rom /\ y.crc = x.crc /\ y.vars = v
  BY SMT DEF ImageShape
<1>2. v = x.vars => y = x
  BY SMT DEF ImageShape
<1>3. ASSUME y.crc = digest(y) PROVE v = x.vars
  <2>1. digest(x)[2] = x.vars /\ digest(y)[2] = y.vars
    BY DEF digest
  <2> QED BY <1>1, <1>3, <2>1
<1> QED BY <1>1, <1>2, <1>3 DEF Variant

\* An image of other ROMs, or with a broken chain, under a CRC of its own is a variant: it is refused by the checks after the CRC.
LEMMA SealedImage ==
  ASSUME NEW x, ImageShape(x), NEW z, z = [x EXCEPT !.rom = <<"other", <<>>>>] \/ z = [x EXCEPT !.chain = FALSE], NEW y, y = sealed(z)
  PROVE  Variant(y, x)
<1>1. PICK c : c = digest(z)
  OBVIOUS
<1>2. y = [z EXCEPT !.crc = c]
  BY <1>1 DEF sealed
<1>3. CASE z = [x EXCEPT !.rom = <<"other", <<>>>>]
  <2>0. PICK r : r = <<"other", <<>>>>
    OBVIOUS
  <2>1. y = [[x EXCEPT !.rom = r] EXCEPT !.crc = c]
    BY <1>2, <1>3, <2>0
  <2>2. y.prog = x.prog /\ y.decl = x.decl /\ y.arena = x.arena /\ y.rom = r
    BY ONLY <2>1, ImageShape(x), SMT DEF ImageShape
  <2>3. \A w : r # identity(w)
    <3> SUFFICES ASSUME NEW w, r = identity(w) PROVE FALSE
      OBVIOUS
    <3>1. r[1] = "other" /\ r[1] = "rom"
      BY <2>0 DEF identity
    <3> QED BY <3>1
  <2> QED BY <2>2, <2>3 DEF Variant
<1>4. CASE z = [x EXCEPT !.chain = FALSE]
  <2>1. y = [[x EXCEPT !.chain = FALSE] EXCEPT !.crc = c]
    BY <1>2, <1>4
  <2>2. y.prog = x.prog /\ y.decl = x.decl /\ y.arena = x.arena /\ y.chain = FALSE
    BY ONLY <2>1, ImageShape(x), SMT DEF ImageShape
  <2> QED BY <2>2 DEF Variant
<1> QED BY <1>3, <1>4

\* A tape without its third block, and played again after that.
Starts(u, t) == IsSeq(u) /\ u[1] = t[1] /\ u[2] = t[2] /\ \A i \in DOMAIN u : u[i] \in ToSet(t)
\* A tape without its last block, alone and followed by the whole tape.
LEMMA Twice ==
  ASSUME NEW t, IsSeq(t), Len(t) = 3, NEW u, u = SubSeq(t, 1, 2), NEW v, v = u \o t
  PROVE  /\ Starts(u, t) /\ Len(u) = 2
         /\ Starts(v, t) /\ Len(v) = 5 /\ v[3] = t[1]
<1>1. PICK S : S = ToSet(t)
  OBVIOUS
<1>2. t \in Seq(S) /\ Len(t) = 3
  BY <1>1, SeqFacts DEF IsSeq
<1>3. u \in Seq(S) /\ Len(u) = 2 /\ u[1] = t[1] /\ u[2] = t[2]
  <2>1. u = [i \in 1 .. 2 |-> t[i]]
    BY ONLY u = SubSeq(t, 1, 2), <1>2, SMT
  <2>2. t[1] \in S /\ t[2] \in S
    BY ONLY <1>2
  <2>3. u \in [1 .. 2 -> S]
    BY ONLY <2>1, <2>2
  <2>6. PICK n \in Nat : n = 2
    OBVIOUS
  <2>7. u \in [1 .. n -> S]
    BY <2>3, <2>6
  <2>4. u \in Seq(S)
    BY ONLY <2>7
  <2>5. Len(u) = 2
    BY ONLY <2>3, <2>6
  <2> QED BY <2>1, <2>4, <2>5
<1>4. v \in Seq(S)
  BY ONLY <1>2, <1>3, v = u \o t
<1>5. Len(v) = 5 /\ v[1] = u[1] /\ v[2] = u[2] /\ v[3] = t[1]
  <2>1. u \in Seq(S) /\ t \in Seq(S) /\ v = u \o t
    BY <1>2, <1>3
  <2>2. Len(v) = Len(u) + Len(t)
    BY ONLY <2>1
  <2>3. \A j \in 1 .. Len(u) + Len(t) : v[j] = IF j <= Len(u) THEN u[j] ELSE t[j - Len(u)]
    BY ONLY <2>1
  <2> QED BY <1>2, <1>3, <2>2, <2>3
<1>6. \A s : s \in Seq(S) => IsSeq(s)
  <2> SUFFICES ASSUME NEW s, s \in Seq(S) PROVE IsSeq(s)
    OBVIOUS
  <2>1. Len(s) \in Nat /\ DOMAIN s = 1 .. Len(s) /\ s = [i \in 1 .. Len(s) |-> s[i]]
    OBVIOUS
  <2> QED BY ONLY <2>1, SeqBuilt
<1>8. \A s : s \in Seq(S) => \A i \in DOMAIN s : s[i] \in S
  OBVIOUS
<1>7. (\A i \in DOMAIN u : u[i] \in S) /\ (\A i \in DOMAIN v : v[i] \in S)
  BY ONLY <1>3, <1>4, <1>8
<1> QED BY <1>1, <1>3, <1>4, <1>5, <1>6, <1>7 DEF Starts

-----------------------------------------------------------------------------
\* Every tape that is played.

\* Every tape but those of SAVE ... ALL's own changes.
LEMMA TapesAre ==
  ASSUME NEW t \in Tapes
  PROVE  \/ t = tape
         \/ \E i \in DOMAIN tape, how \in {"early", "late", "space", "held"} : t = cut(i, how)
         \/ rec.kind = "all" /\ t \in {edited, stranger, unchained, swapped, SubSeq(tape, 1, 2), SubSeq(tape, 1, 2) \o tape}
         \/ tape # <<>> /\ t = later
         \/ rec.kind = "array" /\ t = malformed
BY DEF Tapes

\* What a tape of a program can do.
LEMMA TapesProgram ==
  ASSUME rec.kind = "program", NEW data, NEW len, NEW proglen, Filed(tape, 2, PROGRAM, data, len, proglen), NEW t \in Tapes
  PROVE  IsSeq(t) /\ Len(t) = 2 /\ (Unheaded(t) \/ Later(t, PROGRAM, len, proglen) \/ Damaged(t) \/ t = tape)
<1>1. IsSeq(tape) /\ Len(tape) = 2 /\ DOMAIN tape = 1 .. 2
  BY DEF Filed
<1>2. CASE t = tape
  BY <1>1, <1>2
<1>3. CASE \E i \in DOMAIN tape, how \in {"early", "late", "space", "held"} : t = cut(i, how)
  <2>1. PICK i \in DOMAIN tape, how \in {"early", "late", "space", "held"} : t = cut(i, how)
    BY <1>3
  <2>2. i = 1 \/ i = 2
    BY <1>1
  <2>3. IsSeq(t) /\ Len(t) = 2
    BY <2>1, CutTape
  <2>4. i = 1 => Unheaded(t)
    BY <2>1, CutTape
  <2>5. i = 2 => Damaged(t)
    BY <2>1, CutTape
  <2> QED BY <2>2, <2>3, <2>4, <2>5
<1>4. CASE t = later
  BY <1>4, LaterTape
<1> QED BY <1>2, <1>3, <1>4, TapesAre

\* What a tape of an array can do.
LEMMA TapesArray ==
  ASSUME rec.kind = "array", NEW b, NEW len, NEW proglen, Filed(tape, 2, ARRAY, <<"array", b>>, len, proglen), NEW t \in Tapes
  PROVE  /\ IsSeq(t) /\ Len(t) = 2
         /\ \/ Unheaded(t) \/ Later(t, ARRAY, len, proglen) \/ Damaged(t)
            \/ t = tape \/ Bringing(t, <<"array", miscounted(b)>>)
<1>1. IsSeq(tape) /\ Len(tape) = 2 /\ DOMAIN tape = 1 .. 2 /\ Block(tape[2]) /\ tape[2].data = <<"array", b>>
      /\ tape[2].flag = 255 /\ tape[2].cut = "no"
  BY DEF Filed
<1>2. CASE t = tape
  BY <1>1, <1>2
<1>3. CASE \E i \in DOMAIN tape, how \in {"early", "late", "space", "held"} : t = cut(i, how)
  <2>1. PICK i \in DOMAIN tape, how \in {"early", "late", "space", "held"} : t = cut(i, how)
    BY <1>3
  <2>2. i = 1 \/ i = 2
    BY <1>1
  <2>3. IsSeq(t) /\ Len(t) = 2
    BY <2>1, CutTape
  <2>4. i = 1 => Unheaded(t)
    BY <2>1, CutTape
  <2>5. i = 2 => Damaged(t)
    BY <2>1, CutTape
  <2> QED BY <2>2, <2>3, <2>4, <2>5
<1>4. CASE t = later
  BY <1>4, LaterTape
<1>5. CASE t = malformed
  <2>1. PICK d : d = <<"array", miscounted(b)>>
    OBVIOUS
  <2>2. t = altered(2, d)
    <3>1. recorded(2) = b
      BY <1>1 DEF recorded
    <3> QED BY <1>5, <2>1, <3>1 DEF malformed
  <2>3. PICK c : c = [tape[2] EXCEPT !.data = d]
    OBVIOUS
  <2>4. 2 \in DOMAIN tape
    BY <1>1
  <2>5. Replaced(t, tape, 2, c)
    BY ONLY <1>1, <2>2, <2>3, <2>4, AlteredTape
  <2>6. c.flag = tape[2].flag /\ c.data = d /\ c.len = tape[2].len /\ c.cut = tape[2].cut
    BY ONLY <1>1, <2>2, <2>3, <2>4, AlteredTape
  <2>7. Bringing(t, d)
    BY <1>1, <2>5, <2>6 DEF Bringing, Replaced
  <2> QED BY <1>1, <2>1, <2>5, <2>7 DEF Replaced
<1> QED BY <1>2, <1>3, <1>4, <1>5, TapesAre

\* A second block, for all that its header says.
Second(b) == b.cut \in Cuts /\ (b.flag = 255 => b.data = <<"segment2", b.data[2]>>)

\* A block with a store and an overflow for data is a second block of SAVE ... ALL.
LEMMA SecondData ==
  ASSUME NEW b, b.cut \in Cuts, NEW d, b.data = <<"segment2", d>>
  PROVE  Second(b)
BY DEF Second

Plays(t, o, x) ==
  /\ IsSeq(t) /\ Len(t) >= 2 /\ (Len(t) >= 3 => Second(t[3])) /\ Len(t) \in Nat
  /\ \/ Unheaded(t) \/ Later(t, PROGRAM, image_length(o), size(o.prog)) \/ Damaged(t)
     \/ \E y : Bringing(t, <<"all", y>>) /\ Variant(y, x) /\ (y = x => t[2] = tape[2])
\* A tape that is none of these brings an image: what was recorded, or a variant of it.
LEMMA TapesAll ==
  ASSUME rec.kind = "all", NEW o, TapedAll(tape, o), NEW x, x = image(o), NEW t \in Tapes
  PROVE  Plays(t, o, x)
<1> SUFFICES /\ IsSeq(t) /\ Len(t) >= 2 /\ (Len(t) >= 3 => Second(t[3])) /\ Len(t) \in Nat
             /\ \/ Unheaded(t) \/ Later(t, PROGRAM, image_length(o), size(o.prog)) \/ Damaged(t)
                \/ \E y : Bringing(t, <<"all", y>>) /\ Variant(y, x) /\ (y = x => t[2] = tape[2])
  BY DEF Plays
<1>1. /\ Filed(tape, 3, PROGRAM, block1(o), image_length(o), size(o.prog))
      /\ tape[3].flag = 255 /\ tape[3].cut = "no" /\ Block(tape[3])
  BY DEF TapedAll
<1>2. /\ IsSeq(tape) /\ Len(tape) = 3 /\ DOMAIN tape = 1 .. 3 /\ Block(tape[1]) /\ tape[1].cut = "no"
      /\ Block(tape[2]) /\ tape[2].data = <<"all", x>> /\ tape[2].flag = 255 /\ tape[2].cut = "no"
  BY <1>1 DEF Filed, Headed, block1
<1>3. ImageShape(x) /\ x.crc = digest(x)
  BY ImageFacts DEF ImageOf
<1>4. Variant(x, x)
  BY DEF Variant
<1>5. recorded(2) = x
  BY <1>2 DEF recorded
<1>6. Second(tape[3])
  BY <1>1, SecondData DEF Cuts, TapedAll, block2
<1>7. CASE t = tape
  <2>1. Bringing(t, <<"all", x>>)
    BY <1>2, <1>7 DEF Bringing
  <2>2. IsSeq(t) /\ Len(t) = 3 /\ Second(t[3]) /\ t[2] = tape[2]
    BY <1>1, <1>2, <1>6, <1>7
  <2> QED BY <1>4, <2>1, <2>2
<1>8. CASE \E i \in DOMAIN tape, how \in {"early", "late", "space", "held"} : t = cut(i, how)
  <2>1. PICK i \in DOMAIN tape, how \in {"early", "late", "space", "held"} : t = cut(i, how)
    BY <1>8
  <2>2. i = 1 \/ i = 2 \/ i = 3
    BY <1>2
  <2>3. IsSeq(t) /\ Len(t) = 3
    BY <1>1, <2>1, CutTape
  <2>4. i = 1 => Unheaded(t)
    BY <1>1, <2>1, CutTape
  <2>5. i = 2 => Damaged(t)
    BY <1>1, <2>1, CutTape
  <2>6. i = 3 => t[1] = tape[1] /\ t[2] = tape[2] /\ t[3].cut \in Cuts \ {"no"}
    BY <1>1, <2>1, CutTape
  <2>7. Second(t[3])
    <3>1. CASE i = 3
      <4>1. PICK b : b = [tape[3] EXCEPT !.cut = how]
        OBVIOUS
      <4>2. t = [tape EXCEPT ![3] = b]
        BY <2>1, <3>1, <4>1 DEF cut
      <4>3. t[3] = b /\ b.data = tape[3].data
        <5>1. t[3] = b
          BY <1>2, <4>2
        <5>2. b.data = tape[3].data
          BY <1>1, <4>1, SMT DEF Block
        <5> QED BY <5>1, <5>2
      <4>4. b.data = <<"segment2", segment2(o)>>
        BY <4>3 DEF TapedAll, block2
      <4>5. b.cut \in Cuts
        BY <2>6, <3>1, <4>3
      <4> QED BY <4>3, <4>4, <4>5, SecondData
    <3>2. CASE i # 3
      <4>1. PICK b : b = [tape[i] EXCEPT !.cut = how]
        OBVIOUS
      <4>2. t = [tape EXCEPT ![i] = b]
        BY <2>1, <4>1 DEF cut
      <4>3. t[3] = tape[3]
        BY <1>2, <3>2, <4>2
      <4> QED BY <1>1, <1>6, <4>3
    <3> QED BY <3>1, <3>2
  <2>8. i = 3 => Bringing(t, <<"all", x>>)
    BY <1>2, <2>6 DEF Bringing
  <2> QED BY <1>4, <2>2, <2>3, <2>4, <2>5, <2>6, <2>7, <2>8
<1>9. ASSUME NEW y, Variant(y, x), t = altered(2, <<"all", y>>)
      PROVE  /\ IsSeq(t) /\ Len(t) = 3 /\ Second(t[3])
             /\ Bringing(t, <<"all", y>>) /\ (y = x => t[2] = tape[2])
  <2>1. PICK d : d = <<"all", y>>
    OBVIOUS
  <2>2. t = altered(2, d)
    BY <1>9, <2>1
  <2>3. PICK c : c = [tape[2] EXCEPT !.data = d]
    OBVIOUS
  <2>4. 2 \in DOMAIN tape
    BY <1>2
  <2>5. Replaced(t, tape, 2, c)
    BY ONLY <1>2, <2>2, <2>3, <2>4, AlteredTape
  <2>6. c.flag = tape[2].flag /\ c.data = d /\ c.len = tape[2].len /\ c.cut = tape[2].cut
    BY ONLY <1>2, <2>2, <2>3, <2>4, AlteredTape
  <2>7. d = tape[2].data => c = tape[2]
    BY ONLY <1>2, <2>2, <2>3, <2>4, AlteredTape
  <2>8. Bringing(t, d)
    BY <1>2, <2>5, <2>6 DEF Bringing, Replaced
  <2>9. t[3] = tape[3] /\ t[2] = c
    BY <1>2, <2>5 DEF Replaced
  <2> QED BY <1>1, <1>2, <1>6, <2>1, <2>5, <2>7, <2>8, <2>9 DEF Replaced
<1>10. CASE t = edited
  <2>1. PICK y : y = [x EXCEPT !.vars = updated(x.vars, "x", 9)]
    OBVIOUS
  <2>2. Variant(y, x)
    BY <1>3, <2>1, EditedImage
  <2>3. t = altered(2, <<"all", y>>)
    BY <1>5, <1>10, <2>1 DEF edited
  <2> QED BY <1>9, <2>2, <2>3
<1>11. CASE t = stranger
  <2>1. PICK z, y : z = [x EXCEPT !.rom = <<"other", <<>>>>] /\ y = sealed(z)
    OBVIOUS
  <2>2. Variant(y, x)
    BY <1>3, <2>1, SealedImage
  <2>3. t = altered(2, <<"all", y>>)
    BY <1>5, <1>11, <2>1 DEF stranger
  <2> QED BY <1>9, <2>2, <2>3
<1>12. CASE t = unchained
  <2>1. PICK z, y : z = [x EXCEPT !.chain = FALSE] /\ y = sealed(z)
    OBVIOUS
  <2>2. Variant(y, x)
    BY <1>3, <2>1, SealedImage
  <2>3. t = altered(2, <<"all", y>>)
    BY <1>5, <1>12, <2>1 DEF unchained
  <2> QED BY <1>9, <2>2, <2>3
<1>13. CASE t = swapped
  <2>1. PICK d : d = <<"segment2", [store |-> <<>>, over |-> <<>>]>>
    OBVIOUS
  <2>2. t = altered(3, d)
    BY <1>13, <2>1 DEF swapped
  <2>3. PICK c : c = [tape[3] EXCEPT !.data = d]
    OBVIOUS
  <2>4. 3 \in DOMAIN tape
    BY <1>2
  <2>5. Replaced(t, tape, 3, c)
    BY ONLY <1>1, <1>2, <2>2, <2>3, <2>4, AlteredTape
  <2>6. c.flag = tape[3].flag /\ c.data = d /\ c.len = tape[3].len /\ c.cut = tape[3].cut
    BY ONLY <1>1, <1>2, <2>2, <2>3, <2>4, AlteredTape
  <2>7. t[1] = tape[1] /\ t[2] = tape[2] /\ t[3] = c /\ IsSeq(t) /\ Len(t) = 3
    BY <1>2, <2>5 DEF Replaced
  <2>8. Bringing(t, <<"all", x>>)
    BY <1>2, <2>7 DEF Bringing
  <2>9. c.cut \in Cuts
    BY <1>1, <2>6 DEF Cuts
  <2>10. Second(c)
    BY <2>1, <2>6, <2>9, SecondData
  <2> QED BY <1>1, <1>4, <1>6, <2>7, <2>8, <2>10
<1>14. CASE t = SubSeq(tape, 1, 2)
  <2>3. IsSeq(tape) /\ Len(tape) = 3
    BY <1>2
  <2>4. Starts(t, tape)
    BY ONLY <1>14, <2>3, Twice
  <2>5. Len(t) = 2
    BY ONLY <1>14, <2>3, Twice
  <2>1. IsSeq(t) /\ Len(t) = 2 /\ t[1] = tape[1] /\ t[2] = tape[2]
    BY <2>4, <2>5 DEF Starts
  <2>2. Bringing(t, <<"all", x>>)
    BY <1>2, <2>1 DEF Bringing
  <2> QED BY <1>4, <2>1, <2>2
<1>15. CASE t = SubSeq(tape, 1, 2) \o tape
  <2>1. PICK u : u = SubSeq(tape, 1, 2)
    OBVIOUS
  <2>2. t = u \o tape
    BY <1>15, <2>1
  <2>5. IsSeq(tape) /\ Len(tape) = 3
    BY <1>2
  <2>6. Starts(t, tape)
    BY ONLY <2>1, <2>2, <2>5, Twice
  <2>7. Len(t) = 5
    BY ONLY <2>1, <2>2, <2>5, Twice
  <2>8. t[3] = tape[1]
    BY ONLY <2>1, <2>2, <2>5, Twice
  <2>3. IsSeq(t) /\ Len(t) = 5 /\ t[1] = tape[1] /\ t[2] = tape[2] /\ t[3] = tape[1]
    BY <2>6, <2>7, <2>8 DEF Starts
  <2>4. Bringing(t, <<"all", x>>)
    BY <1>2, <2>3 DEF Bringing
  <2>9. Second(tape[1])
    BY <1>1, <1>2 DEF Second, Filed, Headed, Cuts
  <2> QED BY <1>2, <1>4, <1>6, <2>3, <2>4, <2>9
<1>16. CASE t = later
  <2>1. IsSeq(t) /\ Len(t) = 3 /\ Later(t, PROGRAM, image_length(o), size(o.prog))
    BY <1>1, <1>16, LaterTape
  <2>2. t[3] = tape[3]
    <3>1. PICK d : d = <<"header", [recorded(1) EXCEPT !.word = <<129, 2>>]>>
      OBVIOUS
    <3>2. PICK b : b = [tape[1] EXCEPT !.data = d]
      OBVIOUS
    <3>3. t = [tape EXCEPT ![1] = b]
      BY <1>16, <3>1, <3>2 DEF later, altered
    <3> QED BY <1>2, <3>3
  <2> QED BY <1>1, <1>6, <2>1, <2>2
<1>17. rec.kind # "array"
  OBVIOUS
<1> QED BY <1>7, <1>8, <1>10, <1>11, <1>12, <1>13, <1>14, <1>15, <1>16, <1>17, TapesAre

-----------------------------------------------------------------------------
\* What is received of a tape that is played.

Delivered(r, t, d) ==
  /\ r.class = "ok" /\ r.header = tape[1].data[2] /\ r.data = d
  /\ (Len(t) = 2 => r.tape = <<>>) /\ (Len(t) >= 3 => r.tape # <<>> /\ Head(r.tape) = t[3])

\* A tape without a whole header answers no request.
LEMMA Unwanted ==
  ASSUME NEW t, IsSeq(t), Unheaded(t), NEW q, NEW r, r = storage_load(t, q)
  PROVE  r.class = "clean"
<1>1. \A i \in DOMAIN t : ~wanted(t[i], q)
  BY DEF Unheaded, wanted
<1> QED BY <1>1, NoneWanted

\* A header of the type and name that are asked for is wanted.
LEMMA Wanted ==
  ASSUME NEW type, NEW len, NEW proglen, NEW b, Headed(b, type, len, proglen), NEW q, q.type = type, q.name = "f"
  PROVE  wanted(b, q)
BY DEF Headed, wanted, named

\* What becomes of a file whose second block is damaged.
Spoiled(r, q, len) == (r.class = "long" /\ len > q.max) \/ r.class = "clean" \/ (r.class = "touched" /\ ~q.verify)

\* How a tape answers a request for its own type, case by case.
LEMMA Answer ==
  ASSUME NEW n, NEW type \in {PROGRAM, ARRAY}, NEW data, NEW len, NEW proglen, Filed(tape, n, type, data, len, proglen),
         NEW q, q.type = type, q.name = "f", NEW t, IsSeq(t), Len(t) >= 2, Len(t) \in Nat, NEW r, r = storage_load(t, q)
  PROVE  /\ Unheaded(t) => r.class = "clean"
         /\ Later(t, type, len, proglen) => r.class = "version"
         /\ Damaged(t) => Spoiled(r, q, len)
         /\ \A d : Bringing(t, d) /\ len > q.max => r.class = "long"
         /\ \A d : Bringing(t, d) /\ ~(len > q.max) => Delivered(r, t, d)
<1>1. PICK h, u : h = t[1].data[2] /\ u = SubSeq(t, 2, Len(t))
  OBVIOUS
<1>2. Len(t) >= 1 /\ IsSeq(t)
  OBVIOUS
<1>3. /\ u # <<>> /\ Head(u) = t[2] /\ (Len(t) = 2 => Tail(u) = <<>>) /\ (Len(t) >= 3 => Tail(u) # <<>> /\ Head(Tail(u)) = t[3])
  BY <1>1, Following
<1>4. word(type) = FORMAT /\ FORMAT[1] = 129 /\ FORMAT[2] = 1
  BY DEF word, FORMAT, PROGRAM, ARRAY, EXTENSION
<1>5. bound(q, h) = q.max
  BY DEF bound, PROGRAM, ARRAY, CODE_TYPE
<1>6. Headed(tape[1], type, len, proglen) /\ tape[1].data[2].word = FORMAT /\ tape[2].len = len
  BY DEF Filed
<1>7. Unheaded(t) => r.class = "clean"
  BY Unwanted
<1>8. ASSUME Headed(t[1], type, len, proglen)
      PROVE  /\ wanted(t[1], q) /\ h.length = len
             /\ Version(h, q) => r.class = "version"
             /\ ~Version(h, q) /\ Long(h, q) => r.class = "long"
             /\ ~Version(h, q) /\ ~Long(h, q) /\ received(u, len) # "ok" =>
                  r.class = IF q.verify \/ received(u, len) \in Early THEN "clean" ELSE "touched"
             /\ ~Version(h, q) /\ ~Long(h, q) /\ received(u, len) = "ok" =>
                  r.class = "ok" /\ r.header = h /\ r.data = Head(u).data /\ r.tape = Tail(u)
  <2>1. wanted(t[1], q)
    BY <1>8, Wanted
  <2>2. h.length = len
    BY <1>1, <1>8 DEF Headed
  <2>3. r = storage_load(t, q)
    OBVIOUS
  <2>4. Version(h, q) => r.class = "version"
    BY ONLY <1>1, <1>2, <2>1, <2>3, FirstWanted
  <2>5. ~Version(h, q) /\ Long(h, q) => r.class = "long"
    BY ONLY <1>1, <1>2, <2>1, <2>3, FirstWanted
  <2>6. ~Version(h, q) /\ ~Long(h, q) /\ received(u, h.length) # "ok" =>
              r.class = IF q.verify \/ received(u, h.length) \in Early THEN "clean" ELSE "touched"
    BY ONLY <1>1, <1>2, <2>1, <2>3, FirstWanted
  <2>7. ~Version(h, q) /\ ~Long(h, q) /\ received(u, h.length) = "ok" =>
              r.class = "ok" /\ r.header = h /\ r.data = Head(u).data /\ r.tape = Tail(u)
    BY ONLY <1>1, <1>2, <2>1, <2>3, FirstWanted
  <2> QED BY <2>1, <2>2, <2>4, <2>5, <2>6, <2>7
<1>9. Later(t, type, len, proglen) => r.class = "version"
  <2> SUFFICES ASSUME Later(t, type, len, proglen) PROVE r.class = "version"
    OBVIOUS
  <2>1. Headed(t[1], type, len, proglen) /\ h.word = <<129, 2>>
    BY <1>1 DEF Later
  <2>2. Version(h, q)
    BY <1>4, <2>1 DEF Version
  <2> QED BY <1>8, <2>1, <2>2
<1>10. ASSUME t[1] = tape[1]
       PROVE  Headed(t[1], type, len, proglen) /\ h = tape[1].data[2] /\ ~Version(h, q) /\ (Long(h, q) <=> len > q.max)
  <2>1. Headed(t[1], type, len, proglen) /\ h = tape[1].data[2] /\ h.word = FORMAT
    BY <1>1, <1>6, <1>10
  <2>2. h.length = len
    BY <1>8, <2>1
  <2> QED BY <1>4, <1>5, <2>1, <2>2 DEF Version, Long
<1>11. ASSUME Damaged(t)
       PROVE  Spoiled(r, q, len)
  <2>1. t[1] = tape[1] /\ t[2].cut \in Cuts \ {"no"}
    BY <1>11 DEF Damaged
  <2>2. received(u, len) # "ok"
    BY <1>3, <2>1, ReceivedFirst DEF Whole
  <2>3. Headed(t[1], type, len, proglen) /\ ~Version(h, q) /\ (Long(h, q) <=> len > q.max)
    BY <1>10, <2>1
  <2>4. Long(h, q) => r.class = "long"
    BY <1>8, <2>3
  <2>5. ~Long(h, q) => r.class = IF q.verify \/ received(u, len) \in Early THEN "clean" ELSE "touched"
    BY <1>8, <2>2, <2>3
  <2> QED BY <2>3, <2>4, <2>5 DEF Spoiled
<1>12. ASSUME NEW d, Bringing(t, d)
       PROVE  (len > q.max => r.class = "long") /\ (~(len > q.max) => Delivered(r, t, d))
  <2>1. t[1] = tape[1] /\ t[2].flag = 255 /\ t[2].cut = "no" /\ t[2].len = len /\ t[2].data = d
    BY <1>6, <1>12 DEF Bringing
  <2>2. Head(u).cut \in Cuts /\ Whole(Head(u), len)
    BY <1>3, <2>1 DEF Whole, Cuts
  <2>3. received(u, len) = "ok"
    BY <1>3, <2>2, ReceivedFirst
  <2>4. Headed(t[1], type, len, proglen) /\ ~Version(h, q) /\ (Long(h, q) <=> len > q.max) /\ h = tape[1].data[2]
    BY <1>10, <2>1
  <2>5. Long(h, q) => r.class = "long"
    BY <1>8, <2>4
  <2>6. ~Long(h, q) => r.class = "ok" /\ r.header = h /\ r.data = Head(u).data /\ r.tape = Tail(u)
    BY <1>8, <2>3, <2>4
  <2>7. ~Long(h, q) => Delivered(r, t, d)
    BY <1>3, <2>1, <2>4, <2>6 DEF Delivered
  <2> QED BY <2>4, <2>5, <2>7
<1> QED BY <1>7, <1>9, <1>11, <1>12

\* Every header of a tape that is played is of the type recorded.
OfType(t, type) == \A i \in DOMAIN t : t[i].flag = 0 => t[i].data[2].type = type

\* A request for another type is never answered.
LEMMA OtherKind ==
  ASSUME NEW t, IsSeq(t), NEW type, OfType(t, type), NEW q, q.type # type, NEW r, r = storage_load(t, q)
  PROVE  r.class = "clean"
<1>1. \A i \in DOMAIN t : ~wanted(t[i], q)
  BY DEF wanted, named, OfType
<1> QED BY <1>1, NoneWanted

\* Changing the data of a block does not change the type of the file.
LEMMA AlteredType ==
  ASSUME NEW type, IsSeq(tape), OfType(tape, type), NEW i \in DOMAIN tape, Block(tape[i]), NEW d,
         tape[i].flag = 255 \/ d[2].type = type, NEW t, t = altered(i, d)
  PROVE  IsSeq(t) /\ OfType(t, type)
<1>1. PICK b : b = [tape[i] EXCEPT !.data = d]
  OBVIOUS
<1>2. Replaced(t, tape, i, b)
  BY <1>1, AlteredTape
<1>3. b.flag = tape[i].flag /\ b.data = d
  BY <1>1, SMT DEF Block
<1> QED BY <1>2, <1>3 DEF OfType, Replaced

\* Neither does cutting one.
LEMMA CutType ==
  ASSUME NEW type, IsSeq(tape), OfType(tape, type), NEW i \in DOMAIN tape, Block(tape[i]), NEW how, NEW t, t = cut(i, how)
  PROVE  IsSeq(t) /\ OfType(t, type)
<1>1. PICK b : b = [tape[i] EXCEPT !.cut = how]
  OBVIOUS
<1>2. t = [tape EXCEPT ![i] = b]
  BY <1>1 DEF cut
<1>3. Replaced(t, tape, i, b)
  BY <1>2, BlockChanged
<1>4. b.flag = tape[i].flag /\ b.data = tape[i].data
  BY <1>1, SMT DEF Block
<1> QED BY <1>3, <1>4 DEF OfType, Replaced

\* No tape changes its type.
LEMMA TapesType ==
  ASSUME NEW n \in {2, 3}, NEW type, NEW data, NEW len, NEW proglen, Filed(tape, n, type, data, len, proglen),
         n = 3 => tape[3].flag = 255 /\ Block(tape[3]), rec.kind = "all" => n = 3, NEW t \in Tapes
  PROVE  IsSeq(t) /\ OfType(t, type)
<1>1. /\ IsSeq(tape) /\ Len(tape) = n /\ DOMAIN tape = 1 .. n /\ tape[1].data[2].type = type /\ tape[2].flag = 255
      /\ DOMAIN tape[1].data[2] = {"type", "name", "length", "word", "proglen"}
  BY DEF Filed, Headed
<1>2. \A i \in DOMAIN tape : Block(tape[i])
  BY <1>1 DEF Filed
<1>3. \A i \in DOMAIN tape : i = 1 \/ tape[i].flag = 255
  BY <1>1
<1>4. OfType(tape, type)
  BY <1>1, <1>3 DEF OfType
<1>5. 1 \in DOMAIN tape /\ 2 \in DOMAIN tape /\ (rec.kind = "all" => 3 \in DOMAIN tape)
  BY <1>1
<1>6. CASE t = tape
  BY <1>1, <1>4, <1>6
<1>7. CASE \E i \in DOMAIN tape, how \in {"early", "late", "space", "held"} : t = cut(i, how)
  BY <1>1, <1>2, <1>4, <1>7, CutType
<1>8. CASE \E i \in DOMAIN tape : \E d : t = altered(i, d) /\ (tape[i].flag = 255 \/ d[2].type = type)
  BY <1>1, <1>2, <1>4, <1>8, AlteredType
<1>9. CASE t = later
  <2>1. PICK g, d : g = [tape[1].data[2] EXCEPT !.word = <<129, 2>>] /\ d = <<"header", g>>
    OBVIOUS
  <2>2. g.type = type
    BY <1>1, <2>1
  <2>3. d[2].type = type /\ t = altered(1, d)
    BY <1>9, <2>1, <2>2 DEF later, recorded
  <2> QED BY <1>5, <1>8, <2>3
<1>10. CASE rec.kind = "all" /\ t \in {edited, stranger, unchained, swapped}
  <2>1. tape[2].flag = 255 /\ tape[3].flag = 255
    BY <1>1, <1>3, <1>5, <1>10
  <2>2. (\E d : t = altered(2, d)) \/ (\E d : t = altered(3, d))
    BY <1>10 DEF edited, stranger, unchained, swapped
  <2> QED BY <1>5, <1>8, <1>10, <2>1, <2>2
<1>11. CASE t = malformed
  BY <1>1, <1>5, <1>8, <1>11 DEF malformed
<1>12. ASSUME NEW s, Starts(s, tape) PROVE IsSeq(s) /\ OfType(s, type)
  BY <1>4, <1>12 DEF Starts, OfType, ToSet
<1>13. CASE rec.kind = "all" /\ (t = SubSeq(tape, 1, 2) \/ t = SubSeq(tape, 1, 2) \o tape)
  <2>1. PICK u, v : u = SubSeq(tape, 1, 2) /\ v = u \o tape
    OBVIOUS
  <2>2. IsSeq(tape) /\ Len(tape) = 3
    BY <1>1, <1>13
  <2>3. Starts(u, tape)
    BY ONLY <2>1, <2>2, Twice
  <2>4. Starts(v, tape)
    BY ONLY <2>1, <2>2, Twice
  <2>5. t = u \/ t = v
    BY <1>13, <2>1
  <2> QED BY <1>12, <2>3, <2>4, <2>5
<1> QED BY <1>6, <1>7, <1>9, <1>10, <1>11, <1>13, TapesAre

-----------------------------------------------------------------------------
\* What LOAD and VERIFY make of an answer.

Asked(verify) == request(PROGRAM, "f", POOL + CODE, 0, verify)
\* What LOAD and VERIFY ask for.
LEMMA AskedFacts ==
  ASSUME NEW v, NEW q, q = Asked(v)
  PROVE  q.type = PROGRAM /\ q.name = "f" /\ q.max = POOL + CODE /\ q.verify = v
BY SMT DEF Asked, request

\* A LOAD that changes nothing, and one that leaves no program.
Refuses(x, y) == \E w \in {"LOAD_FAILED", "ABORTED", "BAD_VERSION"} : y = show(x, w)
Empties(x, y) == \E w \in {"LOAD_FAILED", "ABORTED"} : y = show(mem_init(x), w)

\* The message of a failure.
LEMMA Reasons ==
  ASSUME NEW r, NEW w
  PROVE  /\ reason(r, w) \in {"BAD_VERSION", "ABORTED", w}
         /\ r.class # "version" => reason(r, w) \in {"ABORTED", w}
BY DEF reason

\* LOAD by the class of the answer.
LEMMA LoadIs ==
  ASSUME NEW x, NEW t, NEW r, r = storage_load(t, Asked(FALSE)), NEW y, y = Load(x, t, "f").m
  PROVE  /\ r.class \in {"clean", "version", "long"} => Refuses(x, y)
         /\ r.class = "touched" => Empties(x, y)
         /\ r.class = "ok" /\ is_all(r.header) => y = restore(x, r).m
         /\ r.class = "ok" /\ ~is_all(r.header) =>
              y = IF r.header.length > POOL THEN emptied(x) ELSE loaded([clear_arrays(x) EXCEPT !.prog = r.data[2]])
<1>1. Load(x, t, "f") =
        CASE r.class = "ok" /\ is_all(r.header) -> restore(x, r)
          [] r.class = "ok" /\ ~is_all(r.header) ->
               on(IF r.header.length > POOL THEN emptied(x) ELSE loaded([clear_arrays(x) EXCEPT !.prog = r.data[2]]), r.tape)
          [] r.class = "touched" -> on(show(mem_init(x), reason(r, "LOAD_FAILED")), r.tape)
          [] OTHER -> on(show(x, reason(r, "LOAD_FAILED")), r.tape)
  BY DEF Load, Asked
<1>2. \A a, b : on(a, b).m = a
  BY DEF on
<1>3. r.class \in {"clean", "version", "long"} => y = show(x, reason(r, "LOAD_FAILED"))
  <2> SUFFICES ASSUME r.class \in {"clean", "version", "long"} PROVE y = show(x, reason(r, "LOAD_FAILED"))
    OBVIOUS
  <2>1. r.class # "ok" /\ r.class # "touched"
    OBVIOUS
  <2>2. Load(x, t, "f") = on(show(x, reason(r, "LOAD_FAILED")), r.tape)
    BY <1>1, <2>1
  <2> QED BY <1>2, <2>2
<1>4. r.class = "touched" => y = show(mem_init(x), reason(r, "LOAD_FAILED"))
  <2> SUFFICES ASSUME r.class = "touched" PROVE y = show(mem_init(x), reason(r, "LOAD_FAILED"))
    OBVIOUS
  <2>1. Load(x, t, "f") = on(show(mem_init(x), reason(r, "LOAD_FAILED")), r.tape)
    BY <1>1
  <2> QED BY <1>2, <2>1
<1>5. r.class = "ok" /\ is_all(r.header) => y = restore(x, r).m
  BY <1>1
<1>6. r.class = "ok" /\ ~is_all(r.header) =>
        y = IF r.header.length > POOL THEN emptied(x) ELSE loaded([clear_arrays(x) EXCEPT !.prog = r.data[2]])
  <2> SUFFICES ASSUME r.class = "ok", ~is_all(r.header)
      PROVE y = IF r.header.length > POOL THEN emptied(x) ELSE loaded([clear_arrays(x) EXCEPT !.prog = r.data[2]])
    OBVIOUS
  <2>1. PICK z : z = IF r.header.length > POOL THEN emptied(x) ELSE loaded([clear_arrays(x) EXCEPT !.prog = r.data[2]])
    OBVIOUS
  <2>2. Load(x, t, "f") = on(z, r.tape)
    BY <1>1, <2>1
  <2> QED BY <1>2, <2>1, <2>2
<1>7. r.class \in {"clean", "version", "long"} => Refuses(x, y)
  BY <1>3, Reasons DEF Refuses
<1>8. r.class = "touched" => Empties(x, y)
  BY <1>4, Reasons DEF Empties
<1> QED BY <1>5, <1>6, <1>7, <1>8

Said(x, r, y) ==
  /\ \E w : y = show(x, w)
  /\ r.class # "ok" => \E w \in {"VERIFY_FAILED", "ABORTED", "BAD_VERSION"} : y = show(x, w)
  /\ r.class = "ok" /\ (~matches(x, r.data) \/ r.header.proglen # size(x.prog)) => y = show(x, "VERIFY_FAILED")
  /\ r.class = "ok" /\ matches(x, r.data) /\ r.header.proglen = size(x.prog) =>
       y = show(x, IF is_all(r.header) THEN second(x, r) ELSE "VERIFIED")
\* VERIFY by the class of the answer.
LEMMA VerifyIs ==
  ASSUME NEW x, NEW t, NEW r, r = storage_load(t, Asked(TRUE)), NEW y, y = Verify(x, t, "f").m
  PROVE  Said(x, r, y)
<1>1. Verify(x, t, "f") =
        IF r.class # "ok" THEN on(show(x, reason(r, "VERIFY_FAILED")), r.tape)
        ELSE IF ~matches(x, r.data) \/ r.header.proglen # size(x.prog) THEN on(show(x, "VERIFY_FAILED"), r.tape)
        ELSE IF is_all(r.header) THEN on(show(x, second(x, r)), rest(r.tape)) ELSE on(show(x, "VERIFIED"), r.tape)
  BY DEF Verify, Asked
<1>2. \A a, b : on(a, b).m = a
  BY DEF on
<1>3. r.class # "ok" => y = show(x, reason(r, "VERIFY_FAILED"))
  BY <1>1, <1>2
<1>4. r.class = "ok" /\ (~matches(x, r.data) \/ r.header.proglen # size(x.prog)) => y = show(x, "VERIFY_FAILED")
  BY <1>1, <1>2
<1>5. r.class = "ok" /\ matches(x, r.data) /\ r.header.proglen = size(x.prog) =>
        y = show(x, IF is_all(r.header) THEN second(x, r) ELSE "VERIFIED")
  BY <1>1, <1>2
<1>6. r.class # "ok" => \E w \in {"VERIFY_FAILED", "ABORTED", "BAD_VERSION"} : y = show(x, w)
  BY <1>3, Reasons
<1> QED BY <1>3, <1>4, <1>5, <1>6 DEF Said

\* The second block of a session.
LEMMA FinishIs ==
  ASSUME NEW x, NEW g, NEW u, u # <<>> => Head(u).cut \in Cuts, NEW y, y = finish(x, g, u)
  PROVE  \/ /\ y = program_only([x EXCEPT !.store = <<>>], g.prog)
            /\ u = <<>> \/ ~Whole(Head(u), g.end2) \/ Head(u).data[2] # g.seg2
         \/ /\ u # <<>> /\ Whole(Head(u), g.end2) /\ Head(u).data[2] = g.seg2
            /\ y = loaded(restored(x, g, g.seg2))
<1>1. received(u, g.end2) = "ok" <=> u # <<>> /\ Whole(Head(u), g.end2)
  <2>1. CASE u = <<>>
    BY <2>1, ReceivedNone
  <2>2. CASE u # <<>>
    <3>1. PICK b, e : b = Head(u) /\ e = g.end2
      OBVIOUS
    <3>2. b.cut \in Cuts
      BY <2>2, <3>1
    <3>3. received(u, e) = "ok" <=> Whole(b, e)
      BY <2>2, <3>1, <3>2, ReceivedFirst
    <3> QED BY <2>2, <3>1, <3>3
  <2> QED BY <2>1, <2>2
<1> QED BY <1>1 DEF finish

\* SA_RESTORE by its three checks.
LEMMA RestoreIs ==
  ASSUME NEW x, NEW r, NEW g, g = r.data[2], NEW y, y = restore(x, r).m, ~(r.header.length - r.header.proglen < TAIL)
  PROVE  /\ g.crc # digest(g) => y = emptied(x)
         /\ g.crc = digest(g) /\ usable(x, r) => y = finish(x, g, r.tape)
         /\ g.crc = digest(g) /\ ~usable(x, r) => y = program_only(x, g.prog)
<1>1. restore(x, r) = IF g.crc # digest(g) THEN on(emptied(x), r.tape)
                      ELSE IF usable(x, r) THEN on(finish(x, g, r.tape), rest(r.tape)) ELSE on(program_only(x, g.prog), r.tape)
  BY DEF restore
<1>2. \A a, b : on(a, b).m = a
  BY DEF on
<1> QED BY <1>1, <1>2

-----------------------------------------------------------------------------
\* What a LOAD comes to, for each kind of recording.

\* An empty tape has no answer.
LEMMA NoTape ==
  ASSUME NEW t \in Tapes, rec.kind = "none", tape = <<>>, NEW q, NEW r, r = storage_load(t, q)
  PROVE  r.class = "clean"
<1>1. t = tape
  BY TapesAre
<1>2. IsSeq(<<>>) /\ DOMAIN <<>> = {}
  BY DEF IsSeq
<1>3. IsSeq(t) /\ Unheaded(t)
  BY <1>1, <1>2 DEF Unheaded
<1> QED BY <1>3, Unwanted

\* The recording of a program, and of an array, on tape.
LEMMA ProgramTape ==
  ASSUME TapeOK, rec.kind = "program", NEW p, p = rec.of.prog
  PROVE  /\ p \in PROGS \cup {<<>>} /\ size(p) \in Nat /\ size(p) <= POOL
         /\ Filed(tape, 2, PROGRAM, <<"text", p>>, size(p), size(p))
<1>1. p \in PROGS \cup {<<>>} /\ tape = file(PROGRAM, "f", <<"text", p>>, size(p), size(p))
  BY DEF TapeOK, program_file
<1>2. PICK d, n : d = <<"text", p>> /\ n = size(p)
  OBVIOUS
<1>3. Filed(tape, 2, PROGRAM, d, n, n)
  BY <1>1, <1>2, FileFacts
<1> QED BY <1>1, <1>2, <1>3, Programs

\* The tape of an array.
LEMMA ArrayTape ==
  ASSUME TapeOK, rec.kind = "array", NEW b, b = rec.of.store[1].body
  PROVE  rec.key[2] \in {2, 3} /\ Readable(b) /\ Filed(tape, 2, ARRAY, <<"array", b>>, b.len, b.len)
<1>1. rec.key[2] \in {2, 3} /\ Readable(b) /\ tape = file(ARRAY, "f", <<"array", b>>, b.len, b.len)
  BY DEF TapeOK, array_file
<1>2. PICK d, n : d = <<"array", b>> /\ n = b.len
  OBVIOUS
<1>3. Filed(tape, 2, ARRAY, d, n, n)
  BY <1>1, <1>2, FileFacts
<1> QED BY <1>1, <1>2, <1>3

\* The tape of a session.
LEMMA AllTape ==
  ASSUME TapeOK, rec.kind = "all", NEW o, o = rec.of
  PROVE  /\ Machine(o) /\ o.sess = TRUE /\ builds(o) /\ o = holds("all", NoKey, o) /\ TapedAll(tape, o)
         /\ o.prog \in PROGS \cup {<<>>}
<1>1. Machine(o) /\ o.sess = TRUE /\ builds(o) /\ o = holds("all", NoKey, o) /\ tape = Taped(o)
  BY DEF TapeOK
<1> QED BY <1>1, TapedFacts DEF Machine

\* A file of the other type is not even touched.
LEMMA OtherTape ==
  ASSUME TapeOK, NEW t \in Tapes, NEW q, NEW r, r = storage_load(t, q),
         \/ rec.kind = "none"
         \/ rec.kind = "array" /\ q.type = PROGRAM
         \/ rec.kind \in {"program", "all"} /\ q.type = ARRAY
  PROVE  r.class = "clean"
<1>1. CASE rec.kind = "none"
  BY <1>1, NoTape DEF TapeOK
<1>2. CASE rec.kind = "array" /\ q.type = PROGRAM
  <2>1. PICK b, d : b = rec.of.store[1].body /\ d = <<"array", b>>
    OBVIOUS
  <2>2. Filed(tape, 2, ARRAY, d, b.len, b.len)
    BY <1>2, <2>1, ArrayTape
  <2>3. IsSeq(t) /\ OfType(t, ARRAY)
    BY <1>2, <2>2, TapesType
  <2>4. q.type # ARRAY
    BY <1>2 DEF ARRAY, PROGRAM
  <2> QED BY <2>3, <2>4, OtherKind
<1>3. CASE rec.kind = "program" /\ q.type = ARRAY
  <2>1. PICK p, d, n : p = rec.of.prog /\ d = <<"text", p>> /\ n = size(p)
    OBVIOUS
  <2>2. Filed(tape, 2, PROGRAM, d, n, n)
    BY <1>3, <2>1, ProgramTape
  <2>3. IsSeq(t) /\ OfType(t, PROGRAM)
    BY <1>3, <2>2, TapesType
  <2>4. q.type # PROGRAM
    BY <1>3 DEF ARRAY, PROGRAM
  <2> QED BY <2>3, <2>4, OtherKind
<1>4. CASE rec.kind = "all" /\ q.type = ARRAY
  <2>1. PICK o, d, n, s : o = rec.of /\ d = block1(o) /\ n = image_length(o) /\ s = size(o.prog)
    OBVIOUS
  <2>2. TapedAll(tape, o)
    BY <1>4, <2>1, AllTape
  <2>3. Filed(tape, 3, PROGRAM, d, n, s) /\ tape[3].flag = 255 /\ Block(tape[3])
    BY <2>1, <2>2 DEF TapedAll
  <2>4. IsSeq(t) /\ OfType(t, PROGRAM)
    BY <2>3, TapesType
  <2>5. q.type # PROGRAM
    BY <1>4 DEF ARRAY, PROGRAM
  <2> QED BY <2>4, <2>5, OtherKind
<1> QED BY <1>1, <1>2, <1>3, <1>4

\* LOAD of a tape that is empty or of an array: refused, with nothing touched.
LEMMA LoadOther ==
  ASSUME TapeOK, rec.kind \in {"none", "array"}, NEW t \in Tapes, NEW x, NEW y, y = Load(x, t, "f").m
  PROVE  Refuses(x, y)
<1>1. PICK q : q = Asked(FALSE)
  OBVIOUS
<1>2. PICK r : r = storage_load(t, q)
  OBVIOUS
<1>4. q.type = PROGRAM
  BY ONLY <1>1, AskedFacts
<1>3. r.class = "clean"
  BY <1>2, <1>4, OtherTape
<1> QED BY <1>1, <1>2, <1>3, LoadIs

\* The answers to a tape that holds a program.  Bad: no tape that brings one.
Bad(t, type, len, proglen) == Unheaded(t) \/ Later(t, type, len, proglen) \/ Damaged(t)
Damages(r, q) == r.class \in {"clean", "version"} \/ (r.class = "touched" /\ ~q.verify)
\* A tape of a program is damaged or whole.
LEMMA ProgramCases ==
  ASSUME TapeOK, rec.kind = "program", NEW t \in Tapes, NEW p, p = rec.of.prog
  PROVE  Bad(t, PROGRAM, size(p), size(p)) \/ t = tape
<1>1. PICK d, n : d = <<"text", p>> /\ n = size(p)
  OBVIOUS
<1>2. n \in Nat /\ n <= POOL /\ Filed(tape, 2, PROGRAM, d, n, n)
  BY <1>1, ProgramTape
<1> QED BY <1>1, <1>2, TapesProgram DEF Bad

\* A damaged tape is answered by a failure.
LEMMA BadAnswer ==
  ASSUME NEW n \in {2, 3}, NEW type \in {PROGRAM, ARRAY}, NEW data, NEW len, NEW proglen, Filed(tape, n, type, data, len, proglen),
         NEW q, q.type = type, q.name = "f", ~(len > q.max),
         NEW t, IsSeq(t), Len(t) >= 2, Len(t) \in Nat, NEW r, r = storage_load(t, q), Bad(t, type, len, proglen)
  PROVE  Damages(r, q)
<1>1. r = storage_load(t, q)
  OBVIOUS
<1>2. IsSeq(t) /\ Len(t) >= 2 /\ Len(t) \in Nat /\ q.type = type /\ q.name = "f" /\ Filed(tape, n, type, data, len, proglen)
  OBVIOUS
<1>3. Unheaded(t) => r.class = "clean"
  BY ONLY <1>1, <1>2, Answer
<1>4. Later(t, type, len, proglen) => r.class = "version"
  BY ONLY <1>1, <1>2, Answer
<1>5. Damaged(t) => Spoiled(r, q, len)
  BY ONLY <1>1, <1>2, Answer
<1> QED BY <1>3, <1>4, <1>5 DEF Bad, Spoiled, Damages

\* How a tape of a program answers LOAD and VERIFY.
LEMMA ProgramAnswer ==
  ASSUME TapeOK, rec.kind = "program", NEW t \in Tapes, NEW v, NEW q, q = Asked(v), NEW r, r = storage_load(t, q),
         NEW p, p = rec.of.prog
  PROVE  /\ Bad(t, PROGRAM, size(p), size(p)) => Damages(r, q)
         /\ t = tape => Delivered(r, t, <<"text", p>>)
<1>1. PICK d, n : d = <<"text", p>> /\ n = size(p)
  OBVIOUS
<1>2. n \in Nat /\ n <= POOL /\ Filed(tape, 2, PROGRAM, d, n, n)
  BY <1>1, ProgramTape
<1>3. IsSeq(t) /\ Len(t) = 2
  BY <1>2, TapesProgram
<1>4. q.type = PROGRAM /\ q.name = "f" /\ q.max = POOL + CODE
  BY AskedFacts
<1>5. ~(n > q.max)
  BY <1>2, <1>4, SizesAssumption
<1>6. t = tape => Bringing(t, d)
  BY <1>2 DEF Bringing, Filed
<1>7. Len(t) >= 2 /\ Len(t) \in Nat
  BY <1>3
<1>8. Bad(t, PROGRAM, n, n) => Damages(r, q)
  BY <1>2, <1>3, <1>4, <1>5, <1>7, BadAnswer
<1>11. Bringing(t, d) /\ ~(n > q.max) => Delivered(r, t, d)
  BY <1>2, <1>3, <1>4, <1>7, Answer, ZenonT(40)
<1> QED BY <1>1, <1>5, <1>6, <1>8, <1>11

\* The program of a tape that is LOADed whole.
Replaces(x, y, p) == y = loaded([clear_arrays(x) EXCEPT !.prog = p])

\* LOAD of a tape of a program.
LEMMA LoadProgram ==
  ASSUME TapeOK, rec.kind = "program", NEW t \in Tapes, NEW p, p = rec.of.prog, NEW x, NEW y, y = Load(x, t, "f").m,
         NEW bad, bad = Bad(t, PROGRAM, size(p), size(p))
  PROVE  /\ bad => Refuses(x, y) \/ Empties(x, y)
         /\ t = tape => Replaces(x, y, p)
<1>1. PICK q : q = Asked(FALSE)
  OBVIOUS
<1>2. PICK r : r = storage_load(t, q)
  OBVIOUS
<1>3. (bad => Damages(r, q)) /\ (t = tape => Delivered(r, t, <<"text", p>>))
  BY <1>1, <1>2, ProgramAnswer
<1>4. Damages(r, q) => Refuses(x, y) \/ Empties(x, y)
  BY <1>1, <1>2, LoadIs DEF Damages
<1>5. ASSUME Delivered(r, t, <<"text", p>>) PROVE Replaces(x, y, p)
  <2>1. r.class = "ok" /\ r.header = tape[1].data[2] /\ r.data = <<"text", p>>
    BY <1>5 DEF Delivered
  <2>2. PICK d, n : d = <<"text", p>> /\ n = size(p)
    OBVIOUS
  <2>3. n \in Nat /\ n <= POOL /\ Filed(tape, 2, PROGRAM, d, n, n)
    BY <2>2, ProgramTape
  <2>4. r.header.length = n /\ r.header.proglen = n
    BY <2>1, <2>3 DEF Filed, Headed
  <2>8. POOL \in Nat
    BY SizesAssumption
  <2>9. n \in Nat /\ n <= POOL
    BY <2>3
  <2>5. ~is_all(r.header)
    BY ONLY <2>4, <2>9 DEF is_all
  <2>6. ~(r.header.length > POOL)
    BY ONLY <2>4, <2>8, <2>9
  <2>10. r = storage_load(t, Asked(FALSE)) /\ y = Load(x, t, "f").m
    BY <1>1, <1>2
  <2>11. r.class = "ok" /\ ~is_all(r.header) =>
            y = IF r.header.length > POOL THEN emptied(x) ELSE loaded([clear_arrays(x) EXCEPT !.prog = r.data[2]])
    BY ONLY <2>10, LoadIs
  <2>7. y = loaded([clear_arrays(x) EXCEPT !.prog = r.data[2]])
    BY <2>1, <2>5, <2>6, <2>11
  <2>12. r.data[2] = p
    BY ONLY <2>1
  <2> QED BY ONLY <2>7, <2>12 DEF Replaces
<1> QED BY <1>3, <1>4, <1>5

-----------------------------------------------------------------------------
\* A tape that holds a session.

\* What a tape brings whole: an image, and what is left to receive.
Good(t, y, g) ==
  Bringing(t, <<"all", y>>) /\ Variant(y, g) /\ (y = g <=> t[2] = tape[2]) /\ (Len(t) >= 3 => Second(t[3]))
Answered(r, t, y, g) ==
  /\ Delivered(r, t, <<"all", y>>) /\ Variant(y, g) /\ (y = g <=> t[2] = tape[2])
  /\ r.tape # <<>> => Second(Head(r.tape))

\* The length of the first block of SAVE ... ALL: longer than the program by at least its tail, and within the window when SAVE ... ALL accepts it.
LEMMA AllLength ==
  ASSUME NEW o, Machine(o), o.sess = TRUE, NEW n, n = image_length(o)
  PROVE  /\ n \in Nat /\ size(o.prog) \in Nat /\ n - size(o.prog) >= TAIL /\ size(o.prog) < n
         /\ builds(o) => ~(n > POOL + CODE)
<1>1. o.prog \in PROGS \cup {<<>>} /\ DeclOK(o.decl) /\ o.arena \in Nat
  BY DEF Machine, Layout
<1>2. well_formed(o.prog) /\ size(o.prog) \in Nat
  BY <1>1, Programs
<1>3. PICK s, a, w, d, u : s = size(o.prog) /\ a = o.arena /\ w = OPS * Len(o.prog) /\ d = SLOT * Cardinality(o.decl) /\ u = pool_used(o)
  OBVIOUS
<1>4. Len(o.prog) \in Nat
  BY <1>2 DEF well_formed
<1>5. w \in Nat
  <2>1. PICK l : l = Len(o.prog)
    OBVIOUS
  <2>2. OPS \in Nat /\ l \in Nat /\ w = OPS * l
    BY <1>3, <1>4, <2>1, TapeAssumption
  <2> QED BY ONLY <2>2
<1>6. s \in Nat /\ a \in Nat /\ TABLES \in Nat /\ ZONE \in Nat /\ TAIL \in Nat \ {0} /\ POOL \in Nat /\ CODE \in Nat
  BY <1>1, <1>2, <1>3, SizesAssumption, TapeAssumption
<1>10. d \in Nat
  BY <1>1, <1>3, SlotsNat
<1>11. u = s + TABLES + d + a
  BY <1>3 DEF pool_used
<1>7. n = u + ZONE + w + TAIL
  BY <1>3 DEF image_length
<1>8. n \in Nat /\ n - s >= TAIL /\ s < n
  BY ONLY <1>5, <1>6, <1>7, <1>10, <1>11
<1>9. builds(o) => n <= POOL + CODE
  BY DEF builds
<1> QED BY ONLY <1>3, <1>6, <1>8, <1>9

\* A tape of a session is damaged, or brings a variant of its image.
LEMMA AllCases ==
  ASSUME TapeOK, rec.kind = "all", NEW o, o = rec.of, NEW g, g = image(o), NEW t \in Tapes
  PROVE  /\ IsSeq(t) /\ Len(t) >= 2 /\ Len(t) \in Nat
         /\ Bad(t, PROGRAM, image_length(o), size(o.prog)) \/ \E y : Good(t, y, g)
         /\ t = tape => Good(t, g, g)
<1>1. TapedAll(tape, o)
  BY AllTape
<1>9. Plays(t, o, g)
  BY <1>1, TapesAll
<1>2. /\ IsSeq(t) /\ Len(t) >= 2 /\ (Len(t) >= 3 => Second(t[3])) /\ Len(t) \in Nat
      /\ \/ Unheaded(t) \/ Later(t, PROGRAM, image_length(o), size(o.prog)) \/ Damaged(t)
         \/ \E y : Bringing(t, <<"all", y>>) /\ Variant(y, g) /\ (y = g => t[2] = tape[2])
  BY ONLY <1>9 DEF Plays
<1>3. tape[2].data = <<"all", g>> /\ tape[2].flag = 255 /\ tape[2].cut = "no"
  BY <1>1 DEF TapedAll, Filed, block1
<1>4. ASSUME NEW y, Bringing(t, <<"all", y>>), t[2] = tape[2]
      PROVE  y = g
  <2>1. <<"all", y>> = <<"all", g>>
    BY <1>3, <1>4 DEF Bringing
  <2> QED BY ONLY <2>1
<1>5. Variant(g, g)
  BY DEF Variant
<1>6. t = tape => Bringing(t, <<"all", g>>)
  BY <1>3 DEF Bringing
<1>7. Bad(t, PROGRAM, image_length(o), size(o.prog)) \/ \E y : Good(t, y, g)
  BY <1>2, <1>4 DEF Bad, Good
<1>8. t = tape => Good(t, g, g)
  BY <1>2, <1>5, <1>6 DEF Good
<1> QED BY <1>2, <1>7, <1>8

\* How a tape of a session answers LOAD and VERIFY.
LEMMA AllAnswer ==
  ASSUME TapeOK, rec.kind = "all", NEW o, o = rec.of, NEW g, g = image(o), NEW t \in Tapes,
         NEW v, NEW q, q = Asked(v), NEW r, r = storage_load(t, q)
  PROVE  /\ Bad(t, PROGRAM, image_length(o), size(o.prog)) => Damages(r, q)
         /\ \A y : Good(t, y, g) => Answered(r, t, y, g)
<1>1. PICK d, n, s : d = block1(o) /\ n = image_length(o) /\ s = size(o.prog)
  OBVIOUS
<1>2. TapedAll(tape, o) /\ Machine(o) /\ o.sess = TRUE /\ builds(o)
  BY AllTape
<1>3. Filed(tape, 3, PROGRAM, d, n, s)
  BY <1>1, <1>2 DEF TapedAll
<1>4. IsSeq(t) /\ Len(t) >= 2 /\ Len(t) \in Nat
  BY AllCases
<1>5. q.type = PROGRAM /\ q.name = "f" /\ q.max = POOL + CODE
  BY AskedFacts
<1>6. ~(n > q.max)
  <2>1. ~(n > POOL + CODE)
    BY ONLY <1>1, <1>2, AllLength
  <2> QED BY <1>5, <2>1
<1>7. Bad(t, PROGRAM, n, s) => Damages(r, q)
  BY <1>3, <1>4, <1>5, <1>6, BadAnswer
<1>8. ASSUME NEW y, Good(t, y, g) PROVE Answered(r, t, y, g)
  <2>1. PICK e : e = <<"all", y>>
    OBVIOUS
  <2>2. Bringing(t, e)
    BY <1>8, <2>1 DEF Good
  <2>3. r = storage_load(t, q)
    OBVIOUS
  <2>4. Bringing(t, e) /\ ~(n > q.max) => Delivered(r, t, e)
    BY ONLY <1>3, <1>4, <1>5, <2>3, Answer, SMTT(40)
  <2>5. Delivered(r, t, e)
    BY ONLY <1>6, <2>2, <2>4
  <2>6. Variant(y, g) /\ (y = g <=> t[2] = tape[2]) /\ (Len(t) >= 3 => Second(t[3]))
    BY <1>8 DEF Good
  <2>7. Len(t) = 2 \/ Len(t) >= 3
    <3>1. PICK l : l = Len(t)
      OBVIOUS
    <3>2. l \in Nat /\ l >= 2
      BY <1>4, <3>1
    <3> QED BY ONLY <3>1, <3>2
  <2>8. r.tape # <<>> => Second(Head(r.tape))
    BY <2>5, <2>6, <2>7 DEF Delivered
  <2> QED BY <2>1, <2>5, <2>6, <2>8 DEF Answered
<1> QED BY <1>1, <1>7, <1>8

-----------------------------------------------------------------------------
\* LOAD of a session.

\* The program without its variables: the store as it was, or empty.
ProgramOnly(x, y, p) == y = program_only(x, p)
Emptied(x) == [x EXCEPT !.store = <<>>]
Restores(x, y, o) == y = loaded(restored(x, image(o), segment2(o)))

\* The session o can come back on x: the same packages, and tables that fitted.
Welcome(x, o) == x.registry = o.registry /\ ~unfit(o)
\* What SA_RESTORE finds in a block.
Judged(x, r, y, g, o) ==
  /\ r.header.length = image_length(o) /\ r.header.proglen = size(o.prog)
  /\ y = g => (usable(x, r) <=> Welcome(x, o)) /\ y.crc = digest(y)
  /\ y # g => y.crc # digest(y) \/ ~usable(x, r)

\* The checks after the CRC accept the recorded image, when its session can come back, and no variant.
LEMMA Usable ==
  ASSUME TapeOK, rec.kind = "all", NEW o, o = rec.of, NEW g, g = image(o), NEW r, r.header = tape[1].data[2],
         NEW y, r.data = <<"all", y>>, Variant(y, g), NEW x
  PROVE  Judged(x, r, y, g, o)
<1>1. Machine(o) /\ o.sess = TRUE /\ builds(o) /\ TapedAll(tape, o)
  BY AllTape
<1>8. ~unfit(o) => ArrOK(o) /\ Layout(o)
  BY <1>1 DEF Machine
<1>2. r.header.length = image_length(o) /\ r.header.proglen = size(o.prog)
  BY <1>1 DEF TapedAll, Filed, Headed
<1>3. r.data[2] = y
  OBVIOUS
<1>4. ImageOf(g, o)
  BY ImageFacts
<1>9. y = g /\ usable(x, r) => Welcome(x, o)
  <2> SUFFICES ASSUME y = g, usable(x, r) PROVE Welcome(x, o)
    OBVIOUS
  <2>1. y.chain = ~unfit(o) /\ y.rom = identity(o)
    BY <1>4 DEF ImageOf
  <2>2. y.chain /\ y.rom = identity(x)
    BY <1>3 DEF usable
  <2>3. x.registry = o.registry
    BY <2>1, <2>2 DEF identity
  <2> QED BY <2>1, <2>2, <2>3 DEF Welcome
<1>5. ASSUME y = g, Welcome(x, o) PROVE usable(x, r)
  <2>1. y.prog = o.prog /\ y.decl = o.decl /\ y.arena = o.arena /\ y.end2 = o.end2 /\ y.pas = bytes(o.store) /\ y.chain = ~unfit(o)
        /\ y.rom = identity(o) /\ y.arr = pointers(o)
    BY <1>4, <1>5 DEF ImageOf
  <2>2. y.rom = identity(x) /\ y.chain
    BY <1>5, <2>1 DEF identity, Welcome
  <2>6. ArrOK(o) /\ Layout(o)
    BY <1>5, <1>8 DEF Welcome
  <2>3. y.pas <= y.end2 /\ y.end2 <= SEG2
    <3>1. PICK b, f, e : b = bytes(o.store) /\ f = Overflow(o) /\ e = o.end2
      OBVIOUS
    <3>2. e \in Nat /\ b + f <= e /\ e <= SEG2
      BY <2>6, <3>1 DEF Layout
    <3>3. b \in Nat
      BY <1>1, <3>1, StoreFacts DEF Machine
    <3>4. IsFiniteSet(Segment(o))
      BY <2>6 DEF ArrOK
    <3>5. f \in Nat
      BY <3>1, <3>4, FS_CardinalityType, OverflowIs
    <3>6. SEG2 \in Nat
      BY SizesAssumption
    <3>7. b <= e
      BY ONLY <3>2, <3>3, <3>5
    <3> QED BY <2>1, <3>1, <3>2, <3>7
  <2>4. \A k \in DOMAIN y.arr : y.arr[k].at \in {"pool", "seg2", "store"}
    <3> SUFFICES ASSUME NEW k \in DOMAIN y.arr PROVE y.arr[k].at \in {"pool", "seg2", "store"}
      OBVIOUS
    <3>1. k \in DOMAIN o.arr
      BY <2>1 DEF pointers
    <3>2. SoundArray(o, k)
      BY <2>6, <3>1 DEF ArrOK
    <3>3. y.arr[k] = IF o.arr[k].at = "pool" THEN o.arr[k] ELSE [o.arr[k] EXCEPT !.body = Stored.body]
      BY <2>1, <3>1 DEF pointers
    <3>4. PICK a, b : a = o.arr[k] /\ b = [a EXCEPT !.body = Stored.body]
      OBVIOUS
    <3>5. a = [at |-> a.at, body |-> a.body] /\ a.at \in {"pool", "seg2", "store"}
      BY <3>2, <3>4 DEF SoundArray
    <3>6. b.at = a.at
      BY <3>4, <3>5, SMT
    <3> QED BY <3>3, <3>4, <3>5, <3>6
  <2>5. r.header.length = image_length(y)
    <3>1. image_length(y) = image_length(o)
      BY <2>1 DEF image_length, pool_used
    <3> QED BY <1>2, <3>1
  <2> QED BY <1>3, <2>1, <2>2, <2>3, <2>4, <2>5 DEF usable
<1>6. y = g => y.crc = digest(y)
  BY <1>4 DEF ImageOf
<1>7. y # g => y.crc # digest(y) \/ ~usable(x, r)
  BY <1>3 DEF Variant, usable
<1> QED BY <1>2, <1>5, <1>6, <1>7, <1>9 DEF Judged

\* What a session's tape comes to.
LoadsAll(x, y, o, t) ==
  \/ Refuses(x, y) \/ Empties(x, y)
  \/ ProgramOnly(x, y, o.prog) /\ ~(t[2] = tape[2] /\ Welcome(x, o))
  \/ ProgramOnly(Emptied(x), y, o.prog) /\ t[2] = tape[2] /\ Welcome(x, o)
  \/ Restores(x, y, o) /\ t[2] = tape[2] /\ Welcome(x, o)
\* The second block of a session that is received whole.
Finished(u, o) == u # <<>> /\ Whole(Head(u), o.end2) /\ Head(u).data[2] = segment2(o)

\* What a LOAD of the image d comes to, u the tape after it.
Comes(x, y, o, t, d, g, u) ==
  /\ d # g => Empties(x, y) \/ (ProgramOnly(x, y, o.prog) /\ t[2] # tape[2])
  /\ d = g /\ ~Welcome(x, o) => ProgramOnly(x, y, o.prog)
  /\ d = g /\ Welcome(x, o) /\ Finished(u, o) => Restores(x, y, o)
  /\ d = g /\ Welcome(x, o) /\ ~Finished(u, o) => ProgramOnly(Emptied(x), y, o.prog)
  /\ d = g => t[2] = tape[2]
  /\ d.chain = FALSE /\ d.crc = digest(d) => ProgramOnly(x, y, o.prog)

\* LOAD of a tape of a session whose first block is received.
LEMMA LoadGood ==
  ASSUME TapeOK, rec.kind = "all", NEW o, o = rec.of, NEW g, g = image(o), NEW t,
         NEW r, r = storage_load(t, Asked(FALSE)), NEW d, Answered(r, t, d, g), NEW x, NEW y, y = Load(x, t, "f").m
  PROVE  Comes(x, y, o, t, d, g, r.tape)
<1>1. /\ r.class = "ok" /\ r.header = tape[1].data[2] /\ r.data = <<"all", d>> /\ Variant(d, g) /\ (d = g <=> t[2] = tape[2])
      /\ r.tape # <<>> => Head(r.tape).cut \in Cuts
  BY DEF Answered, Delivered, Second
<1>2. PICK n, s : n = image_length(o) /\ s = size(o.prog)
  OBVIOUS
<1>24. Judged(x, r, d, g, o)
  BY <1>1, Usable
<1>3. r.header.length = n /\ r.header.proglen = s
  BY <1>2, <1>24 DEF Judged
<1>4. d = g => (usable(x, r) <=> Welcome(x, o)) /\ d.crc = digest(d)
  BY <1>24 DEF Judged
<1>5. d # g => d.crc # digest(d) \/ ~usable(x, r)
  BY <1>24 DEF Judged
<1>6. Machine(o) /\ o.sess = TRUE
  BY AllTape
<1>7. n \in Nat /\ s \in Nat /\ n - s >= TAIL /\ s < n
  BY ONLY <1>2, <1>6, AllLength
<1>8. is_all(r.header)
  BY ONLY <1>3, <1>7 DEF is_all
<1>9. ~(n - s < TAIL)
  <2>1. TAIL \in Nat
    BY TapeAssumption
  <2> QED BY ONLY <1>7, <2>1
<1>18. r = storage_load(t, Asked(FALSE)) /\ y = Load(x, t, "f").m
  OBVIOUS
<1>19. r.class = "ok" /\ is_all(r.header) => y = restore(x, r).m
  BY ONLY <1>18, LoadIs
<1>10. y = restore(x, r).m
  BY <1>1, <1>8, <1>19
<1>11. r.data[2] = d
  BY ONLY <1>1
<1>12. ~(r.header.length - r.header.proglen < TAIL)
  BY ONLY <1>3, <1>9
<1>13. d.crc # digest(d) => y = emptied(x)
  BY ONLY <1>10, <1>11, <1>12, RestoreIs
<1>14. d.crc = digest(d) /\ usable(x, r) => y = finish(x, d, r.tape)
  BY ONLY <1>10, <1>11, <1>12, RestoreIs
<1>15. d.crc = digest(d) /\ ~usable(x, r) => y = program_only(x, d.prog)
  BY ONLY <1>10, <1>11, <1>12, RestoreIs
<1>16. d.prog = o.prog
  <2>1. g.prog = o.prog
    BY ImageFacts, ZenonT(40) DEF ImageOf
  <2> QED BY <1>1, <2>1 DEF Variant
<1>17. ASSUME d = g, Welcome(x, o)
       PROVE  (Finished(r.tape, o) => Restores(x, y, o)) /\ (~Finished(r.tape, o) => ProgramOnly(Emptied(x), y, o.prog))
  <2>1. y = finish(x, g, r.tape)
    BY <1>4, <1>14, <1>17
  <2>2. \/ /\ y = program_only([x EXCEPT !.store = <<>>], g.prog)
           /\ r.tape = <<>> \/ ~Whole(Head(r.tape), g.end2) \/ Head(r.tape).data[2] # g.seg2
        \/ /\ r.tape # <<>> /\ Whole(Head(r.tape), g.end2) /\ Head(r.tape).data[2] = g.seg2
           /\ y = loaded(restored(x, g, g.seg2))
    BY ONLY <1>1, <2>1, FinishIs
  <2>3. g.prog = o.prog /\ g.end2 = o.end2 /\ g.seg2 = segment2(o)
    BY ImageFacts, ZenonT(40) DEF ImageOf
  <2> QED BY <2>2, <2>3 DEF Finished, Restores, ProgramOnly, Emptied
<1>20. emptied(x) = show(mem_init(x), "LOAD_FAILED")
  BY DEF emptied
<1>21. y = emptied(x) => Empties(x, y)
  BY <1>20 DEF Empties
<1>22. d # g => Empties(x, y) \/ (ProgramOnly(x, y, o.prog) /\ t[2] # tape[2])
  BY <1>1, <1>5, <1>13, <1>15, <1>16, <1>21 DEF ProgramOnly
<1>23. d = g /\ ~Welcome(x, o) => ProgramOnly(x, y, o.prog)
  BY <1>4, <1>15, <1>16 DEF ProgramOnly
<1>25. d.chain = FALSE => ~usable(x, r)
  BY <1>11 DEF usable
<1>26. d.chain = FALSE /\ d.crc = digest(d) => ProgramOnly(x, y, o.prog)
  BY <1>15, <1>16, <1>25 DEF ProgramOnly
<1> QED BY <1>1, <1>17, <1>22, <1>23, <1>26 DEF Comes

\* LOAD of a damaged tape.
LEMMA LoadBad ==
  ASSUME NEW t, NEW q, q = Asked(FALSE), NEW r, r = storage_load(t, q), Damages(r, q), NEW x, NEW y, y = Load(x, t, "f").m
  PROVE  Refuses(x, y) \/ Empties(x, y)
BY LoadIs DEF Damages

\* LOAD of a tape of a session.
LEMMA LoadAll ==
  ASSUME TapeOK, rec.kind = "all", NEW o, o = rec.of, NEW t \in Tapes, NEW x, NEW y, y = Load(x, t, "f").m
  PROVE  /\ LoadsAll(x, y, o, t)
         /\ t = tape => IF Welcome(x, o) THEN Restores(x, y, o) ELSE ProgramOnly(x, y, o.prog)
<1>1. PICK g, q : g = image(o) /\ q = Asked(FALSE)
  OBVIOUS
<1>2. PICK r : r = storage_load(t, q)
  OBVIOUS
<1>3. Bad(t, PROGRAM, image_length(o), size(o.prog)) => Damages(r, q)
  BY <1>1, <1>2, AllAnswer
<1>4. \A d : Good(t, d, g) => Answered(r, t, d, g)
  BY <1>1, <1>2, AllAnswer
<1>5. Damages(r, q) => LoadsAll(x, y, o, t)
  BY <1>1, <1>2, LoadBad DEF LoadsAll
<1>6. ASSUME NEW d, Answered(r, t, d, g)
      PROVE  /\ LoadsAll(x, y, o, t)
             /\ d = g /\ ~Welcome(x, o) => ProgramOnly(x, y, o.prog)
             /\ d = g /\ Welcome(x, o) /\ Finished(r.tape, o) => Restores(x, y, o)
  <2>1. Comes(x, y, o, t, d, g, r.tape)
    BY <1>1, <1>2, <1>6, LoadGood
  <2> QED BY <2>1 DEF LoadsAll, Comes
<1>7. Bad(t, PROGRAM, image_length(o), size(o.prog)) \/ \E d : Good(t, d, g)
  BY <1>1, AllCases
<1>8. ASSUME t = tape PROVE Answered(r, t, g, g) /\ Finished(r.tape, o)
  <2>1. Answered(r, t, g, g)
    BY <1>1, <1>4, <1>8, AllCases
  <2>2. TapedAll(tape, o)
    BY AllTape
  <2>3. Len(tape) = 3
    BY <2>2 DEF TapedAll, Filed
  <2>4. r.tape # <<>> /\ Head(r.tape) = tape[3]
    BY <1>8, <2>1, <2>3 DEF Answered, Delivered
  <2>5. Whole(tape[3], o.end2) /\ tape[3].data[2] = segment2(o)
    BY <2>2 DEF TapedAll, Whole, block2
  <2> QED BY <2>1, <2>4, <2>5 DEF Finished
<1> QED BY <1>3, <1>4, <1>5, <1>6, <1>7, <1>8

-----------------------------------------------------------------------------
\* SA_FINISH puts back what SA_BUILD took.

\* What a recording of a session holds, field by field.
LEMMA HoldsAll ==
  ASSUME NEW x, Shape(x), NEW k, NEW y, y = holds("all", k, x)
  PROVE  /\ Shape(y) /\ y.msg = "none" /\ y.ce = 0 /\ y.ve = 0 /\ y.package = None /\ y.grabbed = {} /\ y.ram = Boot.ram
         /\ Agree(x, y, {"msg", "ce", "ve", "package", "grabbed", "ram"})
<1>1. PICK q, n, r : q = quiet(x) /\ n = None /\ r = Boot.ram
  OBVIOUS
<1>2. y = [q EXCEPT !.package = n, !.grabbed = {}, !.ram = r]
  BY <1>1 DEF holds
<1>3. Shape(q) /\ q.msg = "none" /\ q.ce = 0 /\ q.ve = 0 /\ Agree(x, q, {"msg", "ce", "ve"})
  BY <1>1, QuietFacts
<1> DEFINE a1 == [q EXCEPT !.package = n]
           a2 == [a1 EXCEPT !.grabbed = {}]
           a3 == [a2 EXCEPT !.ram = r]
<1>8. Shape(a1) /\ a1.package = n /\ Agree(q, a1, {"package"})
  BY <1>3, Change, Names
<1> HIDE DEF a1
<1>9. Shape(a2) /\ a2.grabbed = {} /\ Agree(a1, a2, {"grabbed"})
  BY <1>8, Change, Names
<1> HIDE DEF a2
<1>10. Shape(a3) /\ a3.ram = r /\ Agree(a2, a3, {"ram"})
  BY <1>9, Change, Names
<1>11. y = a3
  BY <1>2 DEF a1, a2
<1> HIDE DEF a3
<1>4. Shape(y) /\ y.package = n /\ y.grabbed = {} /\ y.ram = r
  BY <1>8, <1>9, <1>10, <1>11, Names DEF Agree
<1>5. \A f \in Fields \ {"package", "grabbed", "ram"} : y[f] = q[f]
  BY <1>8, <1>9, <1>10, <1>11 DEF Agree
<1>6. y.msg = q.msg /\ y.ce = q.ce /\ y.ve = q.ve
  BY <1>5 DEF Fields
<1>7. \A f \in Fields \ {"msg", "ce", "ve", "package", "grabbed", "ram"} : y[f] = x[f]
  BY <1>3, <1>5 DEF Agree
<1> QED BY <1>1, <1>3, <1>4, <1>6, <1>7 DEF Agree

\* The arrays of an image with those of segment 2 in their places.
rejoined(p, over) == [k \in DOMAIN p |-> IF k \in DOMAIN over THEN [p[k] EXCEPT !.body = over[k]] ELSE p[k]]
\* Taking the arrays of segment 2 apart from the table and joining them again changes nothing.
LEMMA Rejoined ==
  ASSUME NEW o, ArrOK(o), ~unfit(o)
  PROVE  rejoined(pointers(o), segment2(o).over) = o.arr
<1>1. PICK p, v : p = pointers(o) /\ v = [k \in placed(o, "seg2") |-> o.arr[k].body]
  OBVIOUS
<1>2. segment2(o).over = v
  BY <1>1 DEF segment2
<1>3. DOMAIN p = DOMAIN o.arr /\ DOMAIN v = placed(o, "seg2")
  BY <1>1 DEF pointers
<1>4. ASSUME NEW k \in DOMAIN o.arr
      PROVE  (IF k \in DOMAIN v THEN [p[k] EXCEPT !.body = v[k]] ELSE p[k]) = o.arr[k]
  <2>1. PICK a, s : a = o.arr[k] /\ s = Stored.body
    OBVIOUS
  <2>2. a = [at |-> a.at, body |-> a.body] /\ a.at \in {"pool", "seg2", "store"}
    BY <2>1, <1>4 DEF ArrOK, SoundArray
  <2>3. p[k] = IF a.at = "pool" THEN a ELSE [a EXCEPT !.body = s]
    BY <1>1, <2>1 DEF pointers
  <2>4. k \in DOMAIN v <=> a.at = "seg2"
    BY <1>3, <2>1 DEF placed
  <2>5. CASE a.at = "pool"
    BY <2>1, <2>3, <2>4, <2>5
  <2>6. CASE a.at = "seg2"
    <3>1. v[k] = a.body
      BY <1>1, <1>3, <2>1, <2>4, <2>6
    <3>2. p[k] = [a EXCEPT !.body = s]
      BY <2>3, <2>6
    <3>3. PICK b : b = p[k]
      OBVIOUS
    <3>5. b = [at |-> a.at, body |-> s]
      BY ONLY <2>2, <3>2, <3>3, SMT
    <3>6. [b EXCEPT !.body = a.body] = [at |-> a.at, body |-> a.body]
      BY ONLY <3>5, SMT
    <3>4. [b EXCEPT !.body = a.body] = a
      BY ONLY <2>2, <3>6
    <3> QED BY <2>1, <2>4, <2>6, <3>1, <3>3, <3>4
  <2>7. CASE a.at = "store"
    <3>1. a = Stored
      BY <1>4, <2>1, <2>7 DEF ArrOK, SoundArray
    <3>2. a.body = s
      BY <2>1, <3>1
    <3>3. [a EXCEPT !.body = s] = a
      BY ONLY <2>2, <3>2, SMT
    <3>4. a.at # "pool" /\ a.at # "seg2"
      BY <2>7
    <3> QED BY <2>1, <2>3, <2>4, <3>3, <3>4
  <2> QED BY <2>2, <2>5, <2>6, <2>7
<1>5. rejoined(p, v) = [k \in DOMAIN o.arr |-> o.arr[k]]
  BY <1>3, <1>4 DEF rejoined
<1> QED BY <1>1, <1>2, <1>5 DEF ArrOK

\* The machine SA_RESTORE makes from a recorded image and its second block.
LEMMA RestoredFacts ==
  ASSUME NEW o, Machine(o), o.sess = TRUE, ~unfit(o), NEW x, Machine(x), NEW z, z = restored(x, image(o), segment2(o))
  PROVE  Machine(z) /\ Same(o, z) /\ z.vars = o.vars /\ z.mode = 0 /\ z.registry = x.registry
<1>1. PICK g, s : g = image(o) /\ s = segment2(o)
  OBVIOUS
<1>2. ImageOf(g, o)
  BY <1>1, ImageFacts
<1>3. ArrOK(o) /\ o.mode = 0 /\ Shape(x) /\ x.mode = 0
  BY DEF Machine
<1>4. s.store = o.store
  BY <1>1 DEF segment2
<1>5. PICK p, v, d, a, e, t, r :
        p = g.prog /\ v = g.vars /\ d = g.decl /\ a = g.arena /\ e = g.end2 /\ t = s.store /\ r = rejoined(g.arr, s.over)
  OBVIOUS
<1>6. z = [x EXCEPT !.prog = p, !.sess = TRUE, !.vars = v, !.decl = d, !.arena = a, !.end2 = e, !.store = t, !.arr = r]
  BY <1>1, <1>5 DEF restored, rejoined
<1>7. p = o.prog /\ v = o.vars /\ d = o.decl /\ a = o.arena /\ e = o.end2 /\ t = o.store
  BY <1>2, <1>4, <1>5 DEF ImageOf
<1>8. r = o.arr
  BY <1>1, <1>2, <1>3, <1>5, Rejoined DEF ImageOf
<1> DEFINE a1 == [x EXCEPT !.prog = p]
           a2 == [a1 EXCEPT !.sess = TRUE]
           a3 == [a2 EXCEPT !.vars = v]
           a4 == [a3 EXCEPT !.decl = d]
           a5 == [a4 EXCEPT !.arena = a]
           a6 == [a5 EXCEPT !.end2 = e]
           a7 == [a6 EXCEPT !.store = t]
           a8 == [a7 EXCEPT !.arr = r]
<1>21. Shape(a1) /\ a1.prog = p /\ Agree(x, a1, {"prog"})
  BY <1>3, Change, Names
<1> HIDE DEF a1
<1>22. Shape(a2) /\ a2.sess = TRUE /\ Agree(a1, a2, {"sess"})
  BY <1>21, Change, Names
<1> HIDE DEF a2
<1>23. Shape(a3) /\ a3.vars = v /\ Agree(a2, a3, {"vars"})
  BY <1>22, Change, Names
<1> HIDE DEF a3
<1>24. Shape(a4) /\ a4.decl = d /\ Agree(a3, a4, {"decl"})
  BY <1>23, Change, Names
<1> HIDE DEF a4
<1>25. Shape(a5) /\ a5.arena = a /\ Agree(a4, a5, {"arena"})
  BY <1>24, Change, Names
<1> HIDE DEF a5
<1>26. Shape(a6) /\ a6.end2 = e /\ Agree(a5, a6, {"end2"})
  BY <1>25, Change, Names
<1> HIDE DEF a6
<1>27. Shape(a7) /\ a7.store = t /\ Agree(a6, a7, {"store"})
  BY <1>26, Change, Names
<1> HIDE DEF a7
<1>28. Shape(a8) /\ a8.arr = r /\ Agree(a7, a8, {"arr"})
  BY <1>27, Change, Names
<1>10. z = a8
  BY <1>6 DEF a1, a2, a3, a4, a5, a6, a7
<1> HIDE DEF a8
<1>11. Shape(z)
  BY <1>10, <1>28
<1>12. /\ z.prog = p /\ z.sess = TRUE /\ z.vars = v /\ z.decl = d /\ z.arena = a /\ z.end2 = e /\ z.store = t /\ z.arr = r
       /\ z.mode = x.mode /\ z.registry = x.registry
  BY <1>10, <1>21, <1>22, <1>23, <1>24, <1>25, <1>26, <1>27, <1>28, Names DEF Agree
<1>13. Same(o, z)
  BY <1>7, <1>8, <1>12 DEF Same
<1>14. z.mode = 0
  BY <1>3, <1>12
<1>15. Machine(z)
  BY <1>11, <1>13, <1>14, MachineSame
<1> QED BY <1>7, <1>12, <1>13, <1>14, <1>15

\* What a recording of a session holds, field by field.
Alike(x, y) == Same(x, y) /\ y.vars = x.vars /\ y.mode = x.mode /\ y.registry = x.registry
\* Two machines hold the same session when they agree on what SAVE ... ALL writes.
LEMMA HoldsAlike ==
  ASSUME NEW x, Shape(x), NEW y, Shape(y)
  PROVE  Alike(x, y) <=> holds("all", NoKey, x) = holds("all", NoKey, y)
<1>1. PICK a, b : a = holds("all", NoKey, x) /\ b = holds("all", NoKey, y)
  OBVIOUS
<1>2. /\ Shape(a) /\ a.msg = "none" /\ a.ce = 0 /\ a.ve = 0 /\ a.package = None /\ a.grabbed = {} /\ a.ram = Boot.ram
      /\ Agree(x, a, {"msg", "ce", "ve", "package", "grabbed", "ram"})
  BY <1>1, HoldsAll
<1>3. /\ Shape(b) /\ b.msg = "none" /\ b.ce = 0 /\ b.ve = 0 /\ b.package = None /\ b.grabbed = {} /\ b.ram = Boot.ram
      /\ Agree(y, b, {"msg", "ce", "ve", "package", "grabbed", "ram"})
  BY <1>1, HoldsAll
<1>4. \A f \in {"prog", "sess", "decl", "arr", "arena", "end2", "store", "vars", "mode", "registry"} : a[f] = x[f] /\ b[f] = y[f]
  BY <1>2, <1>3, Names DEF Agree
<1>5. ASSUME Alike(x, y) PROVE a = b
  <2>1. \A f \in {"prog", "sess", "decl", "arr", "arena", "end2", "store", "vars", "mode", "registry"} : a[f] = b[f]
    BY <1>4, <1>5 DEF Alike, Same
  <2>2. \A f \in {"msg", "ce", "ve", "package", "grabbed", "ram"} : a[f] = b[f]
    BY <1>2, <1>3
  <2>3. \A f \in Fields : a[f] = b[f]
    BY <2>1, <2>2 DEF Fields
  <2> QED BY <1>2, <1>3, <2>3, Extensional
<1>6. ASSUME a = b PROVE Alike(x, y)
  BY <1>4, <1>6 DEF Alike, Same
<1> QED BY <1>1, <1>5, <1>6

\* And they do exactly when their images are equal, unless both were refused.
LEMMA ImageAlike ==
  ASSUME NEW x, Machine(x), x.sess = TRUE, NEW y, Machine(y), y.sess = TRUE
  PROVE  /\ Alike(x, y) => image(x) = image(y) /\ segment2(x) = segment2(y) /\ (unfit(x) <=> unfit(y))
         /\ image(x) = image(y) /\ ~unfit(y) => Alike(x, y) /\ segment2(x) = segment2(y)
<1>1. ASSUME Alike(x, y) PROVE image(x) = image(y) /\ segment2(x) = segment2(y) /\ (unfit(x) <=> unfit(y))
  <2>1. /\ y.prog = x.prog /\ y.decl = x.decl /\ y.arr = x.arr /\ y.arena = x.arena /\ y.end2 = x.end2 /\ y.store = x.store
        /\ y.vars = x.vars /\ y.registry = x.registry /\ y.sess = x.sess
    BY <1>1 DEF Alike, Same
  <2>2. pointers(x) = pointers(y)
    BY <2>1 DEF pointers
  <2>3. placed(x, "seg2") = placed(y, "seg2")
    BY <2>1 DEF placed
  <2>7. unfit(x) = unfit(y)
    BY <2>1 DEF unfit, pool_used
  <2>4. segment2(x) = segment2(y)
    BY <2>1, <2>3, <2>7 DEF segment2
  <2>5. identity(x) = identity(y)
    BY <2>1 DEF identity
  <2>6. image(x) = image(y)
    <3>1. PICK p, s, i, u, n : p = pointers(x) /\ s = segment2(x) /\ i = identity(x) /\ u = ~unfit(x) /\ n = bytes(x.store)
      OBVIOUS
    <3>2. p = pointers(y) /\ s = segment2(y) /\ i = identity(y) /\ u = ~unfit(y) /\ n = bytes(y.store)
      BY <2>1, <2>2, <2>4, <2>5, <2>7, <3>1
    <3> QED BY <2>1, <3>1, <3>2 DEF image
  <2> QED BY <2>4, <2>6, <2>7
<1>2. ASSUME image(x) = image(y), ~unfit(y) PROVE Alike(x, y) /\ segment2(x) = segment2(y)
  <2>1. PICK g : g = image(x)
    OBVIOUS
  <2>2. ImageOf(g, x) /\ ImageOf(g, y)
    BY <1>2, <2>1, ImageFacts
  <2>11. g.chain = ~unfit(x) /\ g.chain = ~unfit(y)
    BY <2>2 DEF ImageOf
  <2>12. ~unfit(x)
    BY ONLY <1>2, <2>11
  <2>3. ArrOK(x) /\ ArrOK(y) /\ x.mode = 0 /\ y.mode = 0
    BY <1>2, <2>12 DEF Machine
  <2>4. segment2(x) = segment2(y) /\ pointers(x) = pointers(y)
    BY <2>2 DEF ImageOf
  <2>5. x.arr = y.arr
    BY <1>2, <2>3, <2>4, <2>12, Rejoined
  <2>6. \A z : ~unfit(z) => segment2(z).store = z.store
    BY DEF segment2
  <2>7. x.store = y.store
    BY <1>2, <2>4, <2>6, <2>12
  <2>8. identity(x) = identity(y)
    BY <2>2 DEF ImageOf
  <2>9. x.registry = y.registry
    BY <2>8 DEF identity
  <2>10. x.prog = y.prog /\ x.decl = y.decl /\ x.arena = y.arena /\ x.end2 = y.end2 /\ x.vars = y.vars
    BY <2>2 DEF ImageOf
  <2> QED BY <2>3, <2>4, <2>5, <2>7, <2>9, <2>10 DEF Alike, Same
<1> QED BY <1>1, <1>2

HasAll(x, y, o) ==
  /\ Machine(y) /\ y.msg = "LOADED" /\ y.store = o.store /\ y.prog = o.prog /\ Same(o, y)
  /\ x.registry = o.registry => holds("all", NoKey, y) = o
\* A restored session is the recorded one.
LEMMA RestoresFacts ==
  ASSUME NEW o, Machine(o), o.sess = TRUE, ~unfit(o), o = holds("all", NoKey, o), NEW x, Machine(x), NEW y, Restores(x, y, o)
  PROVE  HasAll(x, y, o)
<1>1. PICK z : z = restored(x, image(o), segment2(o))
  OBVIOUS
<1>2. Machine(z) /\ Same(o, z) /\ z.vars = o.vars /\ z.mode = 0 /\ z.registry = x.registry
  BY <1>1, RestoredFacts, ZenonT(40)
<1>3. y = show(z, "LOADED")
  BY <1>1 DEF Restores, loaded
<1>4. Machine(y) /\ Same(z, y)
  BY <1>2, <1>3, ShowKeeps
<1>5. Shape(z) /\ Shape(o) /\ Shape(y) /\ o.mode = 0
  BY <1>2, <1>4 DEF Machine
<1>6. y.msg = "LOADED" /\ Agree(z, y, {"msg"})
  BY <1>3, <1>5, ShowFacts
<1>7. y.vars = z.vars /\ y.mode = z.mode /\ y.registry = z.registry
  BY <1>6, Names DEF Agree
<1>8. Same(o, y)
  BY <1>2, <1>4 DEF Same
<1>9. x.registry = o.registry => Alike(o, y)
  BY <1>2, <1>5, <1>7, <1>8 DEF Alike
<1>10. Alike(o, y) => holds("all", NoKey, y) = o
  BY <1>5, HoldsAlike
<1> QED BY <1>4, <1>6, <1>8, <1>9, <1>10 DEF Same, HasAll

-----------------------------------------------------------------------------
\* What a LOAD leaves, whatever the tape.

\* A message is gone with the next key.
LEMMA QuietShow ==
  ASSUME NEW x, Shape(x), NEW t
  PROVE  quiet(show(x, t)) = quiet(x)
<1>1. PICK y, a, b : y = show(x, t) /\ a = quiet(y) /\ b = quiet(x)
  OBVIOUS
<1>2. Shape(y) /\ Agree(x, y, {"msg"})
  BY <1>1, ShowFacts
<1>3. Shape(a) /\ a.msg = "none" /\ a.ce = 0 /\ a.ve = 0 /\ Agree(y, a, {"msg", "ce", "ve"})
  BY <1>1, <1>2, QuietFacts
<1>4. Shape(b) /\ b.msg = "none" /\ b.ce = 0 /\ b.ve = 0 /\ Agree(x, b, {"msg", "ce", "ve"})
  BY <1>1, QuietFacts
<1>5. \A f \in Fields \ {"msg", "ce", "ve"} : a[f] = b[f]
  BY <1>2, <1>3, <1>4 DEF Agree
<1>6. \A f \in Fields : a[f] = b[f]
  BY <1>3, <1>4, <1>5 DEF Fields
<1> QED BY <1>1, <1>3, <1>4, <1>6, Extensional

\* What a message leaves.
LEMMA Shown ==
  ASSUME NEW x, Machine(x), NEW w, NEW y, y = show(x, w)
  PROVE  Machine(y) /\ y.msg = w /\ y.store = x.store /\ y.prog = x.prog /\ y.sess = x.sess
<1>1. Machine(y) /\ Same(x, y)
  BY ShowKeeps
<1>2. y.msg = w
  BY ShowFacts DEF Machine
<1> QED BY <1>1, <1>2 DEF Same

\* A LOAD that is refused by the header leaves everything.
LEMMA RefusesFacts ==
  ASSUME NEW x, Machine(x), NEW y, Refuses(x, y)
  PROVE  /\ Machine(y) /\ y.msg \in {"LOAD_FAILED", "ABORTED", "BAD_VERSION"} /\ y.store = x.store /\ y.prog = x.prog
         /\ quiet(y) = quiet(x)
<1>1. PICK w \in {"LOAD_FAILED", "ABORTED", "BAD_VERSION"} : y = show(x, w)
  BY DEF Refuses
<1>2. Machine(y) /\ y.msg = w /\ y.store = x.store /\ y.prog = x.prog
  BY <1>1, Shown
<1>3. quiet(y) = quiet(x)
  BY <1>1, QuietShow DEF Machine
<1> QED BY <1>1, <1>2, <1>3

\* A LOAD that failed after its first byte leaves the store, and no program.
LEMMA EmptiesFacts ==
  ASSUME NEW x, Machine(x), NEW y, Empties(x, y)
  PROVE  Machine(y) /\ y.msg \in {"LOAD_FAILED", "ABORTED"} /\ y.store = x.store /\ y.prog = <<>>
<1>1. PICK w \in {"LOAD_FAILED", "ABORTED"} : y = show(mem_init(x), w)
  BY DEF Empties
<1>2. PICK c : c = mem_init(x)
  OBVIOUS
<1>3. Machine(c) /\ c.prog = <<>> /\ c.store = x.store
  BY <1>2, MachinePlain, MemInitKeeps
<1>4. Machine(y) /\ y.msg = w /\ y.store = c.store /\ y.prog = c.prog
  BY <1>1, <1>2, <1>3, Shown
<1> QED BY <1>1, <1>3, <1>4

\* A program in memory, the store as it was, and a message.
Leaves(x, y, p, w) == Machine(y) /\ y.msg = w /\ y.store = x.store /\ y.prog = p /\ y.sess = FALSE
\* A program put in, and the message.
LEMMA Left ==
  ASSUME NEW x, Plain(x), NEW p \in PROGS \cup {<<>>}, NEW w, NEW y, y = show(WithProgram(x, p), w)
  PROVE  Leaves(x, y, p, w)
<1>1. PICK c : c = WithProgram(x, p)
  OBVIOUS
<1>2. HasProgram(x, c, p)
  BY <1>1, ProgramIn
<1>3. Machine(y) /\ y.msg = w /\ y.store = c.store /\ y.prog = c.prog /\ y.sess = c.sess
  BY <1>1, <1>2, Shown DEF HasProgram
<1> QED BY <1>2, <1>3 DEF Leaves, HasProgram

\* A LOAD of a program leaves the store and the program.
LEMMA ReplacesFacts ==
  ASSUME NEW x, Plain(x), NEW p \in PROGS \cup {<<>>}, NEW y, Replaces(x, y, p)
  PROVE  Leaves(x, y, p, "LOADED")
<1>1. y = show(WithProgram(x, p), "LOADED")
  BY DEF Replaces, loaded, WithProgram
<1> QED BY <1>1, Left

\* A LOAD of a program without its variables.
LEMMA ProgramOnlyFacts ==
  ASSUME NEW x, Plain(x), NEW p \in PROGS \cup {<<>>}, NEW y, ProgramOnly(x, y, p)
  PROVE  Leaves(x, y, p, "NO_VARS")
<1>1. y = show(WithProgram(x, p), "NO_VARS")
  BY DEF ProgramOnly, program_only, WithProgram
<1> QED BY <1>1, Left

\* The store is emptied.
LEMMA EmptiedPlain ==
  ASSUME NEW x, Machine(x), NEW y, y = Emptied(x)
  PROVE  Plain(y) /\ y.store = <<>> /\ Agree(x, y, {"store"})
<1>1. Shape(x) /\ x.prog \in PROGS \cup {<<>>} /\ x.mode = 0
  BY DEF Machine
<1>2. Shape(y) /\ y.store = <<>> /\ Agree(x, y, {"store"})
  BY <1>1, Change, Names DEF Emptied
<1>3. y.prog = x.prog /\ y.mode = x.mode
  BY <1>2, Names DEF Agree, Fields
<1> QED BY <1>1, <1>2, <1>3, EmptyStore DEF Plain

\* What a LOAD does to the store, and what FailedLoadSafe asks of it.
OnlyBy(x, y) == y.store = x.store \/ (rec.kind = "all" /\ y.store \in {<<>>, rec.of.store})
LeftSafe(x, t, y) == Machine(y) /\ Safe(x, t, y) /\ OnlyBy(x, y)

\* The failures are safe.
LEMMA SafeFailures ==
  ASSUME NEW x, Machine(x), NEW t, NEW y, Refuses(x, y) \/ Empties(x, y)
  PROVE  LeftSafe(x, t, y)
<1>1. CASE Refuses(x, y)
  BY <1>1, RefusesFacts DEF LeftSafe, Safe, OnlyBy
<1>2. CASE Empties(x, y)
  BY <1>2, EmptiesFacts DEF LeftSafe, Safe, OnlyBy
<1> QED BY <1>1, <1>2

\* So is every LOAD of a tape of a session.
LEMMA SafeAll ==
  ASSUME TapeOK, rec.kind = "all", NEW o, o = rec.of, NEW x, Machine(x), NEW t, NEW y, LoadsAll(x, y, o, t)
  PROVE  LeftSafe(x, t, y)
<1>1. Machine(o) /\ o.sess = TRUE /\ o = holds("all", NoKey, o) /\ o.prog \in PROGS \cup {<<>>}
  BY AllTape
<1>2. CASE Refuses(x, y) \/ Empties(x, y)
  BY <1>2, SafeFailures
<1>3. CASE ProgramOnly(x, y, o.prog) /\ ~(t[2] = tape[2] /\ Welcome(x, o))
  <2>1. Leaves(x, y, o.prog, "NO_VARS")
    BY <1>1, <1>3, MachinePlain, ProgramOnlyFacts
  <2> QED BY <1>3, <2>1 DEF LeftSafe, Safe, OnlyBy, Leaves, Welcome
<1>4. CASE ProgramOnly(Emptied(x), y, o.prog) /\ t[2] = tape[2] /\ Welcome(x, o)
  <2>1. PICK e : e = Emptied(x)
    OBVIOUS
  <2>2. Plain(e) /\ e.store = <<>>
    BY <2>1, EmptiedPlain
  <2>3. Leaves(e, y, o.prog, "NO_VARS")
    BY <1>1, <1>4, <2>1, <2>2, ProgramOnlyFacts
  <2> QED BY <1>4, <2>2, <2>3 DEF LeftSafe, Safe, OnlyBy, Leaves, Welcome
<1>5. CASE Restores(x, y, o) /\ t[2] = tape[2] /\ Welcome(x, o)
  <2>1. HasAll(x, y, o)
    BY <1>1, <1>5, RestoresFacts DEF Welcome
  <2> QED BY <1>5, <2>1 DEF LeftSafe, Safe, OnlyBy, HasAll, Welcome
<1> QED BY <1>2, <1>3, <1>4, <1>5 DEF LoadsAll

\* So is every LOAD.
LEMMA LoadKeeps ==
  ASSUME TapeOK, NEW x, Machine(x), NEW t \in Tapes, NEW y, y = Load(x, t, "f").m
  PROVE  LeftSafe(x, t, y)
<1>1. CASE rec.kind \in {"none", "array"}
  BY <1>1, LoadOther, SafeFailures
<1>2. CASE rec.kind = "program"
  <2>1. PICK p, bad : p = rec.of.prog /\ bad = Bad(t, PROGRAM, size(p), size(p))
    OBVIOUS
  <2>2. p \in PROGS \cup {<<>>}
    BY <1>2, <2>1, ProgramTape
  <2>3. bad \/ t = tape
    BY <1>2, <2>1, ProgramCases
  <2>4. bad => Refuses(x, y) \/ Empties(x, y)
    BY <1>2, <2>1, LoadProgram
  <2>5. t = tape => Replaces(x, y, p)
    BY <1>2, <2>1, LoadProgram
  <2>6. Replaces(x, y, p) => Leaves(x, y, p, "LOADED")
    BY <2>2, MachinePlain, ReplacesFacts
  <2>7. Replaces(x, y, p) => LeftSafe(x, t, y)
    BY <1>2, <2>1, <2>6 DEF LeftSafe, Safe, OnlyBy, Leaves
  <2> QED BY <2>3, <2>4, <2>5, <2>7, SafeFailures
<1>3. CASE rec.kind = "all"
  <2>1. PICK o : o = rec.of
    OBVIOUS
  <2>2. LoadsAll(x, y, o, t)
    BY <1>3, <2>1, LoadAll
  <2> QED BY <1>3, <2>1, <2>2, SafeAll
<1> QED BY <1>1, <1>2, <1>3 DEF TapeOK

-----------------------------------------------------------------------------
\* What was recorded whole comes back.

\* The whole tape is one of the tapes.
LEMMA TapeIn == tape \in Tapes
BY DEF Tapes

\* A program that was recorded comes back.
LEMMA RoundProgram ==
  ASSUME TapeOK, rec.kind = "program", NEW x, NEW y, y = Load(x, tape, "f").m
  PROVE  y = loaded([clear_arrays(x) EXCEPT !.prog = rec.of.prog])
<1>1. PICK t, p : t = tape /\ p = rec.of.prog
  OBVIOUS
<1>2. t \in Tapes /\ y = Load(x, t, "f").m
  BY <1>1, TapeIn
<1>3. Replaces(x, y, p)
  BY <1>1, <1>2, LoadProgram
<1> QED BY <1>1, <1>3 DEF Replaces

\* So does a session whose tables fitted; of another, its program.
LEMMA RoundAll ==
  ASSUME TapeOK, rec.kind = "all", NEW x, Machine(x), NEW y, y = Load(x, tape, "f").m
  PROVE  IF x.registry = rec.of.registry /\ ~unfit(rec.of) THEN y.msg = "LOADED" /\ holds("all", NoKey, y) = rec.of
         ELSE y.msg = "NO_VARS" /\ y.prog = rec.of.prog
<1>1. PICK t, o : t = tape /\ o = rec.of
  OBVIOUS
<1>2. t \in Tapes /\ y = Load(x, t, "f").m
  BY <1>1, TapeIn
<1>3. t = tape => IF Welcome(x, o) THEN Restores(x, y, o) ELSE ProgramOnly(x, y, o.prog)
  BY ONLY TapeOK, rec.kind = "all", <1>1, <1>2, LoadAll
<1>4. Machine(o) /\ o.sess = TRUE /\ o = holds("all", NoKey, o) /\ o.prog \in PROGS \cup {<<>>}
  BY <1>1, AllTape
<1>5. CASE Welcome(x, o)
  <2>1. Restores(x, y, o)
    BY <1>1, <1>3, <1>5
  <2>2. HasAll(x, y, o)
    BY <1>4, <1>5, <2>1, RestoresFacts DEF Welcome
  <2> QED BY <1>1, <1>5, <2>2 DEF HasAll, Welcome
<1>6. CASE ~Welcome(x, o)
  <2>1. ProgramOnly(x, y, o.prog)
    BY <1>1, <1>3, <1>6
  <2>2. Leaves(x, y, o.prog, "NO_VARS")
    BY <1>4, <2>1, MachinePlain, ProgramOnlyFacts
  <2> QED BY <1>1, <1>6, <2>2 DEF Leaves, Welcome
<1> QED BY <1>5, <1>6

-----------------------------------------------------------------------------
\* VERIFY

\* VERIFY changes nothing but the message.
LEMMA VerifyQuiet ==
  ASSUME NEW x, Shape(x), NEW t, NEW v, v = Verify(x, t, "f").m
  PROVE  quiet(v) = quiet(x) /\ Shape(v) /\ Agree(x, v, {"msg"})
<1>1. PICK r : r = storage_load(t, Asked(TRUE))
  OBVIOUS
<1>2. \E w : v = show(x, w)
  BY <1>1, VerifyIs DEF Said
<1> QED BY <1>2, QuietShow, ShowFacts

\* The messages of a VERIFY.
LEMMA VerifyFails ==
  ASSUME NEW x, Shape(x), NEW t, NEW r, r = storage_load(t, Asked(TRUE)), NEW v, v = Verify(x, t, "f").m,
         r.class # "ok" \/ ~matches(x, r.data) \/ r.header.proglen # size(x.prog)
  PROVE  v.msg # "VERIFIED"
<1>3. Said(x, r, v)
  BY VerifyIs
<1>1. (\E w \in {"VERIFY_FAILED", "ABORTED", "BAD_VERSION"} : v = show(x, w)) \/ v = show(x, "VERIFY_FAILED")
  BY <1>3 DEF Said
<1>2. \A w : show(x, w).msg = w
  BY ShowFacts
<1> QED BY <1>1, <1>2

\* What VERIFY says of a first block that matches.
LEMMA VerifySays ==
  ASSUME NEW x, Shape(x), NEW t, NEW r, r = storage_load(t, Asked(TRUE)), NEW v, v = Verify(x, t, "f").m,
         r.class = "ok", matches(x, r.data), r.header.proglen = size(x.prog)
  PROVE  v.msg = IF is_all(r.header) THEN second(x, r) ELSE "VERIFIED"
<1>3. Said(x, r, v)
  BY VerifyIs
<1>1. v = show(x, IF is_all(r.header) THEN second(x, r) ELSE "VERIFIED")
  BY <1>3 DEF Said
<1>2. \A w : show(x, w).msg = w
  BY ShowFacts
<1> QED BY <1>1, <1>2

\* VERIFY of an empty tape or an array is honest.
LEMMA VerifyOther ==
  ASSUME TapeOK, rec.kind \in {"none", "array"}, NEW t \in Tapes, NEW x, Machine(x), NEW v, v = Verify(x, t, "f").m,
         NEW y, y = Load(x, t, "f").m
  PROVE  Honest(x, t, v, y)
<1>1. PICK q : q = Asked(TRUE)
  OBVIOUS
<1>2. PICK r : r = storage_load(t, q)
  OBVIOUS
<1>3. q.type = PROGRAM
  BY ONLY <1>1, AskedFacts
<1>4. r.class = "clean"
  BY <1>2, <1>3, OtherTape
<1>5. Shape(x)
  BY DEF Machine
<1>6. v.msg # "VERIFIED"
  BY <1>1, <1>2, <1>4, <1>5, VerifyFails
<1>7. y.msg # "LOADED"
  BY LoadOther, RefusesFacts
<1> QED BY <1>5, <1>6, <1>7, VerifyQuiet DEF Honest, Brings

\* So is VERIFY of a program.
LEMMA VerifyProgram ==
  ASSUME TapeOK, rec.kind = "program", NEW t \in Tapes, NEW x, Machine(x), NEW v, v = Verify(x, t, "f").m,
         NEW y, y = Load(x, t, "f").m
  PROVE  Honest(x, t, v, y)
<1>1. PICK q : q = Asked(TRUE)
  OBVIOUS
<1>2. PICK r : r = storage_load(t, q)
  OBVIOUS
<1>3. PICK p, bad : p = rec.of.prog /\ bad = Bad(t, PROGRAM, size(p), size(p))
  OBVIOUS
<1>4. Shape(x) /\ x.prog \in PROGS \cup {<<>>} /\ p \in PROGS \cup {<<>>}
  BY <1>3, ProgramTape DEF Machine
<1>5. bad \/ t = tape
  BY <1>3, ProgramCases
<1>6. bad => Damages(r, q)
  BY <1>1, <1>2, <1>3, ProgramAnswer
<1>7. t = tape => Delivered(r, t, <<"text", p>>)
  BY <1>1, <1>2, <1>3, ProgramAnswer
<1>8. CASE bad
  <2>1. r.class # "ok"
    BY <1>6, <1>8 DEF Damages
  <2>2. v.msg # "VERIFIED"
    BY <1>1, <1>2, <1>4, <2>1, VerifyFails
  <2>3. Refuses(x, y) \/ Empties(x, y)
    BY <1>3, <1>8, LoadProgram
  <2>4. y.msg # "LOADED"
    BY <2>3, RefusesFacts, EmptiesFacts
  <2> QED BY <1>4, <2>2, <2>4, VerifyQuiet DEF Honest, Brings
<1>9. CASE t = tape
  <2>1. r.class = "ok" /\ r.header = tape[1].data[2] /\ r.data = <<"text", p>>
    BY <1>7, <1>9 DEF Delivered
  <2>2. PICK d, n : d = <<"text", p>> /\ n = size(p)
    OBVIOUS
  <2>3. n \in Nat /\ Filed(tape, 2, PROGRAM, d, n, n)
    BY <1>3, <2>2, ProgramTape
  <2>4. r.header.length = n /\ r.header.proglen = n
    BY <2>1, <2>3 DEF Filed, Headed
  <2>5. ~is_all(r.header)
    BY ONLY <2>3, <2>4 DEF is_all
  <2>6. r.data[1] = "text" /\ r.data[2] = p
    BY ONLY <2>1
  <2>7. matches(x, r.data) <=> IsPrefix(p, x.prog)
    BY <2>6 DEF matches
  <2>8. IsPrefix(p, x.prog) /\ n = size(x.prog) <=> p = x.prog
    <3>1. well_formed(p) /\ well_formed(x.prog)
      BY <1>4, Programs
    <3>2. IsPrefix(p, x.prog) /\ size(p) = size(x.prog) => p = x.prog
      BY <3>1, SizeGrows
    <3>3. IsPrefix(p, p)
      BY DEF IsPrefix
    <3> QED BY <2>2, <3>2, <3>3
  <2>9. Replaces(x, y, p)
    BY <1>3, <1>9, LoadProgram
  <2>10. Leaves(x, y, p, "LOADED")
    BY <1>4, <2>9, MachinePlain, ReplacesFacts
  <2>11. v.msg = "VERIFIED" <=> p = x.prog
    <3>1. CASE p = x.prog
      <4>1. matches(x, r.data) /\ r.header.proglen = size(x.prog)
        BY <2>4, <2>7, <2>8, <3>1
      <4> QED BY <1>1, <1>2, <1>4, <2>1, <2>5, <3>1, <4>1, VerifySays
    <3>2. CASE p # x.prog
      <4>1. ~matches(x, r.data) \/ r.header.proglen # size(x.prog)
        BY <2>4, <2>7, <2>8, <3>2
      <4>2. v.msg # "VERIFIED"
        BY <1>1, <1>2, <1>4, <4>1, VerifyFails
      <4> QED BY <3>2, <4>2
    <3> QED BY <3>1, <3>2
  <2> QED BY <1>4, <2>10, <2>11, VerifyQuiet DEF Honest, Leaves, Brings
<1> QED BY <1>5, <1>8, <1>9

\* What a VERIFY of the image d says, u the tape after it.
LEMMA SecondIs ==
  ASSUME NEW x, NEW r, r.tape # <<>> => Second(Head(r.tape))
  PROVE  second(x, r) = "VERIFIED" <=> Finished(r.tape, x)
<1>1. PICK u : u = r.tape
  OBVIOUS
<1>2. second(x, r) = LET got == received(u, x.end2) IN
        IF got \in Pressed THEN "ABORTED" ELSE IF got # "ok" \/ Head(u).data # block2(x) THEN "VERIFY_FAILED" ELSE "VERIFIED"
  BY <1>1 DEF second
<1>3. CASE u = <<>>
  <2>1. received(u, x.end2) # "ok"
    BY <1>3, ReceivedNone
  <2>2. second(x, r) # "VERIFIED"
    BY <1>2, <2>1
  <2> QED BY <1>1, <1>3, <2>2 DEF Finished
<1>4. CASE u # <<>>
  <2>1. PICK b, e : b = Head(u) /\ e = x.end2
    OBVIOUS
  <2>2. b.cut \in Cuts /\ (b.flag = 255 => b.data = <<"segment2", b.data[2]>>)
    BY <1>1, <1>4, <2>1 DEF Second
  <2>3. received(u, e) = "ok" <=> Whole(b, e)
    BY <1>4, <2>1, <2>2, ReceivedFirst
  <2>4. "ok" \notin Pressed
    BY DEF Pressed
  <2>5. second(x, r) = "VERIFIED" <=> Whole(b, e) /\ b.data = block2(x)
    BY <1>2, <2>1, <2>3, <2>4
  <2>6. PICK s : s = segment2(x)
    OBVIOUS
  <2>7. block2(x) = <<"segment2", s>>
    BY <2>6 DEF block2
  <2>8. Whole(b, e) => (b.data = <<"segment2", s>> <=> b.data[2] = s)
    <3>1. PICK c, z : c = b.data /\ z = c[2]
      OBVIOUS
    <3>2. Whole(b, e) => c = <<"segment2", z>>
      BY <2>2, <3>1 DEF Whole
    <3>3. <<"segment2", s>>[2] = s
      OBVIOUS
    <3> QED BY <3>1, <3>2, <3>3
  <2> QED BY <1>1, <1>4, <2>1, <2>5, <2>6, <2>7, <2>8 DEF Finished
<1> QED BY <1>3, <1>4

Verified(x, v, d, g, o, u) ==
  /\ v.msg = "VERIFIED" => d = image(x)
  /\ ~unfit(x) => (v.msg = "VERIFIED" <=> d = g /\ x.sess = TRUE /\ Alike(o, x) /\ Finished(u, o))
\* VERIFY of a tape of a session whose first block is received.
LEMMA VerifyGood ==
  ASSUME TapeOK, rec.kind = "all", NEW o, o = rec.of, NEW g, g = image(o), NEW t, NEW d,
         NEW x, Machine(x), NEW r, r = storage_load(t, Asked(TRUE)), Answered(r, t, d, g), NEW v, v = Verify(x, t, "f").m
  PROVE  Verified(x, v, d, g, o, r.tape)
<1>1. /\ r.class = "ok" /\ r.header = tape[1].data[2] /\ r.data = <<"all", d>> /\ Variant(d, g)
      /\ r.tape # <<>> => Second(Head(r.tape))
  BY DEF Answered, Delivered
<1>2. PICK n, s : n = image_length(o) /\ s = size(o.prog)
  OBVIOUS
<1>16. Judged(x, r, d, g, o)
  BY <1>1, Usable
<1>3. r.header.length = n /\ r.header.proglen = s
  BY <1>2, <1>16 DEF Judged
<1>4. Machine(o) /\ o.sess = TRUE /\ builds(o)
  BY AllTape
<1>5. s < n
  BY ONLY <1>2, <1>4, AllLength
<1>6. is_all(r.header)
  BY <1>3, <1>5 DEF is_all
<1>7. Shape(x) /\ Shape(o)
  BY <1>4 DEF Machine
<1>8. matches(x, r.data) <=> x.sess /\ builds(x) /\ d = image(x)
  <2>1. PICK i : i = image(x)
    OBVIOUS
  <2>2. r.data[1] = "all" /\ (r.data = <<"all", i>> <=> d = i)
    BY ONLY <1>1
  <2>3. block1(x) = <<"all", i>>
    BY <2>1 DEF block1
  <2> QED BY <2>1, <2>2, <2>3 DEF matches
<1>9. v.msg = "VERIFIED" <=> matches(x, r.data) /\ s = size(x.prog) /\ second(x, r) = "VERIFIED"
  <2>1. CASE matches(x, r.data) /\ s = size(x.prog)
    <3>1. v.msg = second(x, r)
      BY <1>1, <1>3, <1>6, <1>7, <2>1, VerifySays
    <3> QED BY <2>1, <3>1
  <2>2. CASE ~(matches(x, r.data) /\ s = size(x.prog))
    <3>1. v.msg # "VERIFIED"
      BY <1>1, <1>3, <1>7, <2>2, VerifyFails
    <3> QED BY <2>2, <3>1
  <2> QED BY <2>1, <2>2
<1>10. x.sess => x.sess = TRUE
  BY DEF Machine
<1>11. ASSUME x.sess = TRUE, Alike(o, x)
       PROVE  builds(x) /\ image(x) = g /\ segment2(x) = segment2(o) /\ x.end2 = o.end2 /\ size(x.prog) = s
  <2>1. x.prog = o.prog /\ x.decl = o.decl /\ x.arena = o.arena /\ x.end2 = o.end2
    BY <1>11 DEF Alike, Same
  <2>2. image(o) = image(x) /\ segment2(o) = segment2(x)
    BY <1>4, <1>11, ImageAlike
  <2>3. builds(x)
    <3>1. image_length(x) = image_length(o)
      BY <2>1 DEF image_length, pool_used
    <3> QED BY <1>4, <3>1 DEF builds
  <2> QED BY <1>2, <2>1, <2>2, <2>3
<1>12. ASSUME ~unfit(x), d = image(x) PROVE d = g
  <2>1. ImageOf(d, x)
    BY <1>12, ImageFacts
  <2>2. d.crc = digest(d) /\ d.rom = identity(x) /\ d.chain = ~unfit(x)
    BY <2>1 DEF ImageOf
  <2>3. d.chain # FALSE
    BY ONLY <1>12, <2>2
  <2> QED BY <1>1, <2>2, <2>3 DEF Variant
<1>13. ASSUME ~unfit(x), x.sess = TRUE, d = image(x) PROVE Alike(o, x)
  <2>1. image(o) = image(x)
    BY <1>12, <1>13
  <2> QED BY <1>4, <1>13, <2>1, ImageAlike
<1>14. second(x, r) = "VERIFIED" <=> Finished(r.tape, x)
  BY <1>1, SecondIs
<1>15. x.sess = TRUE /\ Alike(o, x) => (Finished(r.tape, x) <=> Finished(r.tape, o))
  BY <1>11 DEF Finished
<1> QED BY <1>8, <1>9, <1>10, <1>11, <1>12, <1>13, <1>14, <1>15 DEF Verified

\* So is VERIFY of a session.
LEMMA VerifyAll ==
  ASSUME TapeOK, rec.kind = "all", NEW t \in Tapes, NEW x, Machine(x), NEW v, v = Verify(x, t, "f").m,
         NEW y, y = Load(x, t, "f").m
  PROVE  Honest(x, t, v, y)
<1>1. PICK o, g : o = rec.of /\ g = image(o)
  OBVIOUS
<1>2. PICK q, q1 : q = Asked(TRUE) /\ q1 = Asked(FALSE)
  OBVIOUS
<1>3. PICK r, r1 : r = storage_load(t, q) /\ r1 = storage_load(t, q1)
  OBVIOUS
<1>4. PICK bad : bad = Bad(t, PROGRAM, image_length(o), size(o.prog))
  OBVIOUS
<1>5. bad \/ \E d : Good(t, d, g)
  BY <1>1, <1>4, AllCases
<1>6. (bad => Damages(r, q)) /\ \A d : Good(t, d, g) => Answered(r, t, d, g)
  BY <1>1, <1>2, <1>3, <1>4, AllAnswer
<1>7. (bad => Damages(r1, q1)) /\ \A d : Good(t, d, g) => Answered(r1, t, d, g)
  BY <1>1, <1>2, <1>3, <1>4, AllAnswer
<1>8. Machine(o) /\ o.sess = TRUE /\ o = holds("all", NoKey, o) /\ o.prog \in PROGS \cup {<<>>}
  BY <1>1, AllTape
<1>9. Shape(x) /\ Shape(o)
  BY <1>8 DEF Machine
<1>10. quiet(v) = quiet(x)
  BY <1>9, VerifyQuiet
<1>11. CASE bad
  <2>1. r.class # "ok"
    BY <1>6, <1>11 DEF Damages
  <2>2. v.msg # "VERIFIED"
    BY <1>2, <1>3, <1>9, <2>1, VerifyFails
  <2>3. Refuses(x, y) \/ Empties(x, y)
    BY <1>2, <1>3, <1>7, <1>11, LoadBad
  <2>4. y.msg # "LOADED"
    BY <2>3, RefusesFacts, EmptiesFacts
  <2> QED BY <1>10, <2>2, <2>4 DEF Honest, Brings
<1>12. CASE \E d : Good(t, d, g)
  <2>1. PICK d : Good(t, d, g)
    BY <1>12
  <2>2. Answered(r, t, d, g) /\ Answered(r1, t, d, g)
    BY <1>6, <1>7, <2>1
  <2>16. Verified(x, v, d, g, o, r.tape)
    BY <1>1, <1>2, <1>3, <2>2, VerifyGood
  <2>3. ~unfit(x) => (v.msg = "VERIFIED" <=> d = g /\ x.sess = TRUE /\ Alike(o, x) /\ Finished(r.tape, o))
    BY <2>16 DEF Verified
  <2>4. Comes(x, y, o, t, d, g, r1.tape)
    BY <1>1, <1>2, <1>3, <2>2, LoadGood
  <2>5. Finished(r.tape, o) <=> Finished(r1.tape, o)
    <3>1. IsSeq(t) /\ Len(t) >= 2 /\ Len(t) \in Nat
      BY <1>1, AllCases
    <3>2. Len(t) = 2 \/ Len(t) >= 3
      <4>1. PICK l : l = Len(t)
        OBVIOUS
      <4>2. l \in Nat /\ l >= 2
        BY <3>1, <4>1
      <4> QED BY ONLY <4>1, <4>2
    <3>3. CASE Len(t) = 2
      BY <2>2, <3>3 DEF Answered, Delivered, Finished
    <3>4. CASE Len(t) >= 3
      <4>1. r.tape # <<>> /\ Head(r.tape) = t[3] /\ r1.tape # <<>> /\ Head(r1.tape) = t[3]
        BY <2>2, <3>4 DEF Answered, Delivered
      <4> QED BY <4>1 DEF Finished
    <3> QED BY <3>2, <3>3, <3>4
  <2>6. ProgramOnly(x, y, o.prog) => y.msg # "LOADED"
    BY <1>8, MachinePlain, ProgramOnlyFacts DEF Leaves
  <2>7. ProgramOnly(Emptied(x), y, o.prog) => y.msg # "LOADED"
    <3>1. PICK e : e = Emptied(x)
      OBVIOUS
    <3>2. Plain(e)
      BY <3>1, EmptiedPlain
    <3>3. ProgramOnly(e, y, o.prog) => Leaves(e, y, o.prog, "NO_VARS")
      BY <1>8, <3>2, ProgramOnlyFacts
    <3> QED BY <3>1, <3>3 DEF Leaves
  <2>8. Empties(x, y) => y.msg # "LOADED"
    BY EmptiesFacts
  <2>9. Restores(x, y, o) /\ Welcome(x, o) => HasAll(x, y, o)
    BY <1>8, RestoresFacts DEF Welcome
  <2>10. y.msg = "LOADED" <=> d = g /\ Welcome(x, o) /\ Finished(r.tape, o)
    BY <2>4, <2>5, <2>6, <2>7, <2>8, <2>9 DEF Comes, HasAll
  <2>11. y.msg = "LOADED" => holds("all", NoKey, y) = o
    BY <2>4, <2>5, <2>9, <2>10 DEF Comes, HasAll, Welcome
  <2>12. Alike(o, x) <=> holds("all", NoKey, x) = o
    BY <1>8, <1>9, HoldsAlike
  <2>13. Alike(o, x) /\ ~unfit(x) => Welcome(x, o)
    BY DEF Alike, Same, Welcome, unfit, pool_used
  <2>14. x.sess \in BOOLEAN
    BY DEF Machine
  <2>15. ~unfit(x) => (v.msg = "VERIFIED" <=> Brings(x, y))
    <3>1. y.msg = "LOADED" => d = g /\ Welcome(x, o) /\ Finished(r.tape, o) /\ holds("all", NoKey, y) = o
      BY <2>10, <2>11
    <3>2. d = g /\ Alike(o, x) /\ ~unfit(x) /\ Finished(r.tape, o) => y.msg = "LOADED"
      BY <2>10, <2>13
    <3> QED BY <1>1, <2>3, <2>12, <2>14, <3>1, <3>2 DEF Brings
  <2>17. unfit(x) /\ v.msg = "VERIFIED" => y.msg = "NO_VARS" /\ y.prog = x.prog
    <3> SUFFICES ASSUME unfit(x), v.msg = "VERIFIED" PROVE y.msg = "NO_VARS" /\ y.prog = x.prog
      OBVIOUS
    <3>1. ImageOf(d, x)
      BY <2>16, ImageFacts DEF Verified
    <3>2. d.crc = digest(d) /\ d.chain = ~unfit(x) /\ d.prog = x.prog
      BY <3>1 DEF ImageOf
    <3>3. d.chain = FALSE
      BY ONLY unfit(x), <3>2
    <3>4. ProgramOnly(x, y, o.prog)
      BY <2>4, <3>2, <3>3 DEF Comes
    <3>5. Leaves(x, y, o.prog, "NO_VARS")
      BY <1>8, <3>4, MachinePlain, ProgramOnlyFacts
    <3>6. g.prog = o.prog
      BY <1>1, ImageFacts, ZenonT(40) DEF ImageOf
    <3>7. d.prog = g.prog
      BY <2>2 DEF Answered, Variant
    <3> QED BY <3>2, <3>5, <3>6, <3>7 DEF Leaves
  <2> QED BY <1>1, <1>10, <2>15, <2>17 DEF Honest
<1> QED BY <1>5, <1>11, <1>12

\* So is every VERIFY.
LEMMA VerifyIsHonest ==
  ASSUME TapeOK, NEW t \in Tapes, NEW x, Machine(x), NEW v, v = Verify(x, t, "f").m, NEW y, y = Load(x, t, "f").m
  PROVE  Honest(x, t, v, y)
BY VerifyOther, VerifyProgram, VerifyAll DEF TapeOK

-----------------------------------------------------------------------------
\* LOAD of an array.

AskedArray(x, k) == request(ARRAY, "f", room(x, k, 1), 0, FALSE)
\* What LOAD of an array asks for.
LEMMA AskedArrayFacts ==
  ASSUME NEW x, NEW k, NEW q, q = AskedArray(x, k)
  PROVE  q.type = ARRAY /\ q.name = "f" /\ q.max = room(x, k, 1) /\ q.verify = FALSE
<1>1. PICK n : n = room(x, k, 1)
  OBVIOUS
<1>2. q = request(ARRAY, "f", n, 0, FALSE)
  BY <1>1 DEF AskedArray
<1>3. q.type = ARRAY /\ q.name = "f" /\ q.max = n
  BY ONLY <1>2, SMT DEF request
<1>4. q.verify = FALSE
  BY ONLY <1>2, SMT DEF request
<1> QED BY <1>1, <1>3, <1>4

\* The room depends on the store and the program alone.
LEMMA SameRoom ==
  ASSUME NEW x, NEW y, y.store = x.store, y.prog = x.prog, NEW k
  PROVE  room(y, k, 1) = room(x, k, 1)
<1>1. stored(y, k) = stored(x, k)
  BY DEF stored
<1>2. found(y, k) = found(x, k)
  BY <1>1 DEF found
<1>3. old_size(y, k) = old_size(x, k)
  BY <1>1, <1>2 DEF old_size
<1>4. PICK s, p, o : s = bytes(x.store) /\ p = size(x.prog) /\ o = old_size(x, k)
  OBVIOUS
<1>5. s = bytes(y.store) /\ p = size(y.prog) /\ o = old_size(y, k)
  BY <1>3, <1>4
<1> QED BY <1>4, <1>5 DEF room

\* What it leaves: the program and the store, or the new entry last.
WithEntry(x, k, b) == [clear_arrays(x) EXCEPT !.store = without(x.store, k) \o <<entry(k, 1, b)>>]
Fails(x, y) == \E w \in {"STORE_FULL", "LOAD_FAILED", "ABORTED", "BAD_VERSION", "BAD_ARRAY"} : y = show(clear_arrays(x), w)
Enters(x, y, k, b) == valid(k[2], b) /\ y = show(WithEntry(x, k, b), "LOADED")

\* What LOAD ... ARRAY makes of an answer.
MadeOf(x, y, k, r) ==
  /\ room(x, k, 1) < 0 \/ r.class = "long" => y = show(clear_arrays(x), "STORE_FULL")
  /\ ~(room(x, k, 1) < 0) /\ r.class = "ok" =>
       y = IF valid(k[2], r.data[2]) THEN show(WithEntry(x, k, r.data[2]), "LOADED") ELSE show(clear_arrays(x), "BAD_ARRAY")
  /\ ~(room(x, k, 1) < 0) /\ r.class \notin {"ok", "long"} =>
       \E w \in {"LOAD_FAILED", "ABORTED", "BAD_VERSION"} : y = show(clear_arrays(x), w)

\* LOAD of an array by the class of the answer.
LEMMA LoadArrayIs ==
  ASSUME NEW x, Machine(x), NEW t, NEW k, NEW r, r = storage_load(t, AskedArray(x, k)), NEW y, y = LoadArray(x, t, "f", k, 1).m
  PROVE  MadeOf(x, y, k, r)
<1>1. PICK c, n : c = clear_arrays(x) /\ n = room(x, k, 1)
  OBVIOUS
<1>2. c.store = x.store /\ c.prog = x.prog
  BY <1>1, MachinePlain, ClearedKeeps
<1>3. room(c, k, 1) = n
  BY <1>1, <1>2, SameRoom
<1>4. storage_load(t, request(ARRAY, "f", room(c, k, 1), 0, FALSE)) = r
  BY <1>1, <1>3 DEF AskedArray
<1>5. [c EXCEPT !.store = without(@, k) \o <<entry(k, 1, r.data[2])>>] = WithEntry(x, k, r.data[2])
  <2>1. [c EXCEPT !.store = without(@, k) \o <<entry(k, 1, r.data[2])>>]
          = [c EXCEPT !.store = without(c.store, k) \o <<entry(k, 1, r.data[2])>>]
    OBVIOUS
  <2> QED BY <1>1, <1>2, <2>1 DEF WithEntry
<1>6. PICK z : z = WithEntry(x, k, r.data[2])
  OBVIOUS
<1>7. LoadArray(x, t, "f", k, 1) =
        IF n < 0 THEN on(show(c, "STORE_FULL"), t)
        ELSE CASE r.class = "ok" -> on(IF valid(k[2], r.data[2]) THEN loaded(z) ELSE show(c, "BAD_ARRAY"), r.tape)
               [] r.class = "long" -> on(show(c, "STORE_FULL"), r.tape)
               [] OTHER -> on(show(c, reason(r, "LOAD_FAILED")), r.tape)
  BY <1>1, <1>3, <1>4, <1>5, <1>6 DEF LoadArray
<1>8. \A a, b : on(a, b).m = a
  BY DEF on
<1>9. n < 0 => y = show(c, "STORE_FULL")
  BY <1>7, <1>8
<1>10. ~(n < 0) /\ r.class = "long" => y = show(c, "STORE_FULL")
  <2> SUFFICES ASSUME ~(n < 0), r.class = "long" PROVE y = show(c, "STORE_FULL")
    OBVIOUS
  <2>1. r.class # "ok"
    OBVIOUS
  <2>2. LoadArray(x, t, "f", k, 1) = on(show(c, "STORE_FULL"), r.tape)
    BY <1>7, <2>1
  <2> QED BY <1>8, <2>2
<1>11. ~(n < 0) /\ r.class = "ok" => y = IF valid(k[2], r.data[2]) THEN loaded(z) ELSE show(c, "BAD_ARRAY")
  <2> SUFFICES ASSUME ~(n < 0), r.class = "ok" PROVE y = IF valid(k[2], r.data[2]) THEN loaded(z) ELSE show(c, "BAD_ARRAY")
    OBVIOUS
  <2>1. PICK e : e = IF valid(k[2], r.data[2]) THEN loaded(z) ELSE show(c, "BAD_ARRAY")
    OBVIOUS
  <2>2. LoadArray(x, t, "f", k, 1) = on(e, r.tape)
    BY <1>7, <2>1
  <2> QED BY <1>8, <2>1, <2>2
<1>12. ~(n < 0) /\ r.class \notin {"ok", "long"} => y = show(c, reason(r, "LOAD_FAILED"))
  <2> SUFFICES ASSUME ~(n < 0), r.class \notin {"ok", "long"} PROVE y = show(c, reason(r, "LOAD_FAILED"))
    OBVIOUS
  <2>1. r.class # "ok" /\ r.class # "long"
    OBVIOUS
  <2>2. LoadArray(x, t, "f", k, 1) = on(show(c, reason(r, "LOAD_FAILED")), r.tape)
    BY <1>7, <2>1
  <2> QED BY <1>8, <2>2
<1>13. reason(r, "LOAD_FAILED") \in {"LOAD_FAILED", "ABORTED", "BAD_VERSION"}
  BY Reasons
<1> QED BY <1>1, <1>6, <1>9, <1>10, <1>11, <1>12, <1>13 DEF MadeOf, loaded

\* A tape of an array, played.

\* LOAD of an array from a tape of something else.
LEMMA LoadArrayOther ==
  ASSUME TapeOK, rec.kind # "array", NEW t \in Tapes, NEW x, Machine(x), NEW k, NEW y, y = LoadArray(x, t, "f", k, 1).m
  PROVE  Fails(x, y)
<1>1. PICK q : q = AskedArray(x, k)
  OBVIOUS
<1>2. PICK r : r = storage_load(t, q)
  OBVIOUS
<1>3. q.type = ARRAY
  BY ONLY <1>1, AskedArrayFacts
<1>4. rec.kind \in {"none", "program", "all"}
  BY DEF TapeOK
<1>5. r.class = "clean"
  BY <1>2, <1>3, <1>4, OtherTape
<1>6. MadeOf(x, y, k, r)
  BY <1>1, <1>2, LoadArrayIs
<1> QED BY <1>5, <1>6 DEF MadeOf, Fails

\* LOAD of an array from a tape of one.
LEMMA LoadArrayTape ==
  ASSUME TapeOK, rec.kind = "array", NEW b, b = rec.of.store[1].body, NEW t \in Tapes, NEW x, Machine(x), NEW k,
         NEW y, y = LoadArray(x, t, "f", k, 1).m
  PROVE  /\ Fails(x, y) \/ (b.len <= room(x, k, 1) /\ \E d \in {b, miscounted(b)} : Enters(x, y, k, d))
         /\ t = tape /\ b.len <= room(x, k, 1) /\ valid(k[2], b) => Enters(x, y, k, b)
         /\ t = tape /\ b.len <= room(x, k, 1) /\ ~valid(k[2], b) => y = show(clear_arrays(x), "BAD_ARRAY")
         /\ t = tape /\ ~(b.len <= room(x, k, 1)) => y = show(clear_arrays(x), "STORE_FULL")
<1>1. PICK q : q = AskedArray(x, k)
  OBVIOUS
<1>2. PICK r : r = storage_load(t, q)
  OBVIOUS
<1>3. PICK n, l, e : n = room(x, k, 1) /\ l = b.len /\ e = <<"array", b>>
  OBVIOUS
<1>4. q.type = ARRAY /\ q.name = "f"
  BY ONLY <1>1, AskedArrayFacts
<1>5. q.max = n
  BY ONLY <1>1, <1>3, AskedArrayFacts
<1>6. Filed(tape, 2, ARRAY, e, l, l) /\ l \in Nat
  BY <1>3, ArrayTape DEF Readable
<1>7. n \in Int
  BY <1>3, RoomFacts DEF Machine
<1>8. MadeOf(x, y, k, r)
  BY <1>1, <1>2, LoadArrayIs
<1>9. IsSeq(t) /\ Len(t) = 2 /\ (Unheaded(t) \/ Later(t, ARRAY, l, l) \/ Damaged(t) \/ t = tape
                                   \/ Bringing(t, <<"array", miscounted(b)>>))
  BY <1>3, <1>6, TapesArray
<1>10. Len(t) >= 2 /\ Len(t) \in Nat
  BY <1>9
<1>11. Unheaded(t) => r.class = "clean"
  BY ONLY <1>2, <1>4, <1>6, <1>9, <1>10, Answer
<1>12. Later(t, ARRAY, l, l) => r.class = "version"
  BY ONLY <1>2, <1>4, <1>6, <1>9, <1>10, Answer
<1>13. Damaged(t) => Spoiled(r, q, l)
  BY ONLY <1>2, <1>4, <1>6, <1>9, <1>10, Answer
<1>14. \A d : Bringing(t, d) /\ l > q.max => r.class = "long"
  BY ONLY <1>2, <1>4, <1>6, <1>9, <1>10, Answer, ZenonT(40)
<1>15. \A d : Bringing(t, d) /\ ~(l > q.max) => Delivered(r, t, d)
  BY ONLY <1>2, <1>4, <1>6, <1>9, <1>10, Answer
<1>16. t = tape => Bringing(t, e)
  BY <1>6 DEF Bringing, Filed
<1>17. r.class \in {"clean", "version", "long", "touched"} => Fails(x, y)
  <2>1. n < 0 \/ r.class = "long" => y = show(clear_arrays(x), "STORE_FULL")
    BY <1>3, <1>8 DEF MadeOf
  <2>2. ~(n < 0) /\ r.class \notin {"ok", "long"} => \E w \in {"LOAD_FAILED", "ABORTED", "BAD_VERSION"} : y = show(clear_arrays(x), w)
    BY <1>3, <1>8 DEF MadeOf
  <2> QED BY <2>1, <2>2 DEF Fails
<1>18. Unheaded(t) \/ Later(t, ARRAY, l, l) \/ Damaged(t) => Fails(x, y)
  BY <1>11, <1>12, <1>13, <1>17 DEF Spoiled
<1>19. ASSUME NEW d, Bringing(t, <<"array", d>>)
       PROVE  /\ Fails(x, y) \/ (l <= n /\ Enters(x, y, k, d))
              /\ l <= n /\ valid(k[2], d) => Enters(x, y, k, d)
              /\ l <= n /\ ~valid(k[2], d) => y = show(clear_arrays(x), "BAD_ARRAY")
              /\ ~(l <= n) => y = show(clear_arrays(x), "STORE_FULL")
  <2>1. PICK g : g = <<"array", d>>
    OBVIOUS
  <2>2. Bringing(t, g)
    BY <1>19, <2>1
  <2>3. CASE l <= n
    <3>1. ~(l > q.max) /\ ~(n < 0)
      BY ONLY <1>5, <1>6, <1>7, <2>3
    <3>2. Delivered(r, t, g)
      BY <1>15, <2>2, <3>1
    <3>3. r.class = "ok" /\ r.data[2] = d
      BY <2>1, <3>2 DEF Delivered
    <3>4. y = IF valid(k[2], d) THEN show(WithEntry(x, k, d), "LOADED") ELSE show(clear_arrays(x), "BAD_ARRAY")
      BY <1>3, <1>8, <3>1, <3>3 DEF MadeOf
    <3> QED BY <2>3, <3>4 DEF Fails, Enters
  <2>4. CASE ~(l <= n)
    <3>1. l > q.max
      BY ONLY <1>5, <1>6, <1>7, <2>4
    <3>2. r.class = "long"
      BY <1>14, <2>2, <3>1
    <3>3. y = show(clear_arrays(x), "STORE_FULL")
      BY <1>3, <1>8, <3>2 DEF MadeOf
    <3> QED BY <2>4, <3>3 DEF Fails
  <2> QED BY <2>3, <2>4
<1>20. t = tape => /\ Fails(x, y) \/ (l <= n /\ Enters(x, y, k, b))
                   /\ l <= n /\ valid(k[2], b) => Enters(x, y, k, b)
                   /\ l <= n /\ ~valid(k[2], b) => y = show(clear_arrays(x), "BAD_ARRAY")
                   /\ ~(l <= n) => y = show(clear_arrays(x), "STORE_FULL")
  BY <1>3, <1>16, <1>19
<1>21. Bringing(t, <<"array", miscounted(b)>>) => Fails(x, y) \/ (l <= n /\ Enters(x, y, k, miscounted(b)))
  BY <1>19
<1>22. Fails(x, y) \/ (l <= n /\ \E d \in {b, miscounted(b)} : Enters(x, y, k, d))
  BY <1>9, <1>18, <1>20, <1>21
<1> QED BY <1>3, <1>20, <1>22

\* A LOAD of an array that fails leaves the store and the program.
LEMMA FailsFacts ==
  ASSUME NEW x, Machine(x), NEW y, Fails(x, y)
  PROVE  Machine(y) /\ y.store = x.store /\ y.prog = x.prog /\ y.msg # "LOADED"
<1>1. PICK c : c = clear_arrays(x)
  OBVIOUS
<1>2. Machine(c) /\ c.store = x.store /\ c.prog = x.prog
  BY <1>1, MachinePlain, ClearedKeeps
<1>3. PICK w \in {"STORE_FULL", "LOAD_FAILED", "ABORTED", "BAD_VERSION", "BAD_ARRAY"} : y = show(c, w)
  BY <1>1 DEF Fails
<1>4. Machine(y) /\ y.msg = w /\ y.store = c.store /\ y.prog = c.prog
  BY <1>2, <1>3, Shown
<1> QED BY <1>2, <1>3, <1>4

\* An array of another count has the same length.
LEMMA Miscounted ==
  ASSUME NEW b, Readable(b), NEW d, d \in {b, miscounted(b)}
  PROVE  Readable(d) /\ d.len = b.len
<1>1. CASE d = b
  BY <1>1
<1>2. CASE d = miscounted(b)
  <2>1. PICK n : n = b.count + 8
    OBVIOUS
  <2>2. d = [b EXCEPT !.count = n]
    BY <1>2, <2>1 DEF miscounted
  <2>3. DOMAIN d = DOMAIN b /\ d.width = b.width /\ d.len = b.len
    BY <2>2 DEF Readable
  <2> QED BY <2>3 DEF Readable
<1> QED BY <1>1, <1>2

\* An array that is received becomes the last entry.
HasEntry(x, y, k, d) ==
  /\ Machine(y) /\ y.msg = "LOADED" /\ y.prog = x.prog /\ y.store = without(x.store, k) \o <<entry(k, 1, d)>>
  /\ found(y, k).body = d
\* A LOAD of an array that succeeds.
LEMMA EntersFacts ==
  ASSUME NEW x, Machine(x), NEW k, k[2] \in {2, 3}, NEW b, Readable(b), NEW d, d \in {b, miscounted(b)},
         b.len <= room(x, k, 1), NEW y, Enters(x, y, k, d)
  PROVE  HasEntry(x, y, k, d)
<1>1. PICK c, s : c = clear_arrays(x) /\ s = without(x.store, k) \o <<entry(k, 1, d)>>
  OBVIOUS
<1>2. Machine(c) /\ c.store = x.store /\ c.prog = x.prog /\ c.sess = FALSE /\ c.decl = {} /\ c.arr = Boot.arr
  BY <1>1, MachinePlain, ClearedKeeps
<1>3. Readable(d) /\ d.len = b.len
  BY Miscounted
<1>4. valid(k[2], d) /\ y = show(WithEntry(x, k, d), "LOADED")
  BY DEF Enters
<1>5. SoundBody(k, d) /\ d.count <= 4095
  BY <1>3, <1>4, ValidSound DEF Readable
<1>6. d.len <= room(x, k, 1)
  BY <1>3
<1>7. StoreOK(x.store) /\ x.prog \in PROGS \cup {<<>>}
  BY DEF Machine
<1>19. Fits(x, k, d)
  BY <1>5, <1>6, <1>7 DEF Fits
<1>18. EntryIn(s, k, d)
  BY <1>1, <1>19, NewEntry
<1>8. StoreOK(s)
  BY ONLY <1>18 DEF EntryIn
<1>9. \A z : z.store = s => found(z, k).body = d
  BY ONLY <1>18 DEF EntryIn
<1>10. PICK z : z = [c EXCEPT !.store = s]
  OBVIOUS
<1>11. WithEntry(x, k, d) = z
  BY <1>1, <1>10 DEF WithEntry
<1>12. Shape(c) /\ c.mode = 0 /\ c.prog \in PROGS \cup {<<>>}
  BY <1>2 DEF Machine
<1>13. Shape(z) /\ z.store = s /\ Agree(c, z, {"store"})
  BY <1>10, <1>12, Change, Names, ZenonT(40)
<1>14. z.prog = c.prog /\ z.mode = 0 /\ z.sess = FALSE /\ z.decl = {} /\ z.arr = Boot.arr
  BY <1>2, <1>12, <1>13, Names DEF Agree, Fields
<1>15. Machine(z)
  BY <1>8, <1>12, <1>13, <1>14, NoSession, EmptyDecl
<1>16. Machine(y) /\ y.msg = "LOADED" /\ y.store = z.store /\ y.prog = z.prog
  BY <1>4, <1>11, <1>15, Shown
<1>17. found(y, k).body = d
  BY <1>9, <1>13, <1>16
<1> QED BY <1>1, <1>2, <1>13, <1>14, <1>16, <1>17 DEF HasEntry

\* What a LOAD of an array leaves.
ArraySafe(x, y, k) ==
  /\ Machine(y) /\ y.prog = x.prog /\ (y.msg # "LOADED" => y.store = x.store)
  /\ \/ y.store = x.store
     \/ /\ rec.kind = "array"
        /\ \E b \in {rec.of.store[1].body, miscounted(rec.of.store[1].body)} :
             valid(k[2], b) /\ y.store = without(x.store, k) \o <<entry(k, 1, b)>>

\* Every LOAD of an array is safe.
LEMMA LoadArrayKeeps ==
  ASSUME TapeOK, NEW t \in Tapes, NEW x, Machine(x), NEW k \in KEYS, NEW y, y = LoadArray(x, t, "f", k, 1).m
  PROVE  ArraySafe(x, y, k)
<1>1. Fails(x, y) => ArraySafe(x, y, k)
  BY FailsFacts DEF ArraySafe
<1>2. CASE rec.kind # "array"
  BY <1>1, <1>2, LoadArrayOther
<1>3. CASE rec.kind = "array"
  <2>1. PICK b : b = rec.of.store[1].body
    OBVIOUS
  <2>2. Fails(x, y) \/ (b.len <= room(x, k, 1) /\ \E d \in {b, miscounted(b)} : Enters(x, y, k, d))
    BY ONLY TapeOK, t \in Tapes, Machine(x), y = LoadArray(x, t, "f", k, 1).m, <1>3, <2>1, LoadArrayTape
  <2>3. k[2] \in {2, 3}
    BY CodeAssumption
  <2>4. Readable(b)
    BY <1>3, <2>1, ArrayTape 
  <2>5. ASSUME NEW d \in {b, miscounted(b)}, b.len <= room(x, k, 1), Enters(x, y, k, d) PROVE ArraySafe(x, y, k)
    <3>1. HasEntry(x, y, k, d)
      BY <2>3, <2>4, <2>5, EntersFacts
    <3>2. valid(k[2], d)
      BY <2>5 DEF Enters
    <3> QED BY <1>3, <2>1, <3>1, <3>2 DEF HasEntry, ArraySafe
  <2> QED BY <1>1, <2>2, <2>5
<1> QED BY <1>2, <1>3

\* An array that was recorded comes back.
LEMMA RoundArray ==
  ASSUME TapeOK, rec.kind = "array", NEW x, Machine(x), NEW k, k = rec.key, NEW b, b = rec.of.store[1].body,
         NEW y, y = LoadArray(x, tape, "f", k, 1).m
  PROVE  IF b.len > room(x, k, 1) THEN y.msg = "STORE_FULL"
         ELSE IF valid(k[2], b) THEN y.msg = "LOADED" /\ found(y, k).body = b ELSE y.msg = "BAD_ARRAY"
<1>1. PICK t : t = tape
  OBVIOUS
<1>2. t \in Tapes /\ y = LoadArray(x, t, "f", k, 1).m
  BY <1>1, TapeIn
<1>3. /\ t = tape /\ b.len <= room(x, k, 1) /\ valid(k[2], b) => Enters(x, y, k, b)
      /\ t = tape /\ b.len <= room(x, k, 1) /\ ~valid(k[2], b) => y = show(clear_arrays(x), "BAD_ARRAY")
  BY ONLY TapeOK, rec.kind = "array", b = rec.of.store[1].body, Machine(x), <1>2, LoadArrayTape
<1>4. t = tape /\ ~(b.len <= room(x, k, 1)) => y = show(clear_arrays(x), "STORE_FULL")
  BY ONLY TapeOK, rec.kind = "array", b = rec.of.store[1].body, Machine(x), <1>2, LoadArrayTape
<1>5. k[2] \in {2, 3} /\ Readable(b)
  BY ArrayTape
<1>6. Shape(clear_arrays(x))
  BY MachinePlain, ClearedKeeps DEF Machine
<1>7. \A w : y = show(clear_arrays(x), w) => y.msg = w
  BY <1>6, ShowFacts
<1>8. b.len > room(x, k, 1) <=> ~(b.len <= room(x, k, 1))
  <2>1. room(x, k, 1) \in Int /\ b.len \in Nat
    BY <1>5, RoomFacts DEF Machine, Readable
  <2>2. \A l \in Nat, n \in Int : l > n <=> ~(l <= n)
    OBVIOUS
  <2> QED BY ONLY <2>1, <2>2, Zenon
<1>9. Enters(x, y, k, b) /\ b.len <= room(x, k, 1) => y.msg = "LOADED" /\ found(y, k).body = b
  <2> SUFFICES ASSUME Enters(x, y, k, b), b.len <= room(x, k, 1) PROVE y.msg = "LOADED" /\ found(y, k).body = b
    OBVIOUS
  <2>1. b \in {b, miscounted(b)} /\ k[2] \in {2, 3}
    BY <1>5
  <2>2. HasEntry(x, y, k, b)
    BY <1>5, <2>1, EntersFacts
  <2> QED BY <2>2 DEF HasEntry
<1> QED BY <1>1, <1>3, <1>4, <1>7, <1>8, <1>9

-----------------------------------------------------------------------------
\* SAVE

\* What the tape holds of a recording (TapeOK's conjuncts, of any recording).
Recorded(kind, key, o, t) ==
  /\ kind = "program" => o.prog \in PROGS \cup {<<>>} /\ t = program_file("f", o.prog)
  /\ kind = "array" => key[2] \in {2, 3} /\ Readable(o.store[1].body) /\ t = array_file("f", o.store[1].body)
  /\ kind = "all" => Machine(o) /\ o.sess = TRUE /\ builds(o) /\ o = holds("all", NoKey, o) /\ t = Taped(o)
\* What a SAVE leaves.
Saves(x, r, kind, key) ==
  /\ Machine(r.m) /\ r.m.store = x.store
  /\ r.m.msg = "SAVED" => Recorded(kind, key, holds(kind, key, r.m), r.tape)

\* A sequence is all of itself.
LEMMA WholeSeq ==
  ASSUME NEW s, IsSeq(s)
  PROVE  SubSeq(s, 1, Len(s)) \o <<>> = s
<1>1. PICK S : s \in Seq(S)
  BY DEF IsSeq
<1>2. PICK n \in Nat : n = Len(s) /\ s \in [1 .. n -> S]
  BY <1>1
<1>3. SubSeq(s, 1, n) = [i \in 1 .. n |-> s[i]]
  BY ONLY <1>1, <1>2, SMT
<1>4. SubSeq(s, 1, n) = s
  BY <1>2, <1>3
<1>5. s \o <<>> = s
  BY <1>1
<1> QED BY <1>2, <1>4, <1>5

\* A recording that SPACE does not stop.
LEMMA SentWhole ==
  ASSUME NEW x, NEW s, IsSeq(s), NEW r, r = sent(x, s, 0)
  PROVE  r.m = show(x, "SAVED") /\ r.tape = s
<1>1. r = on(show(x, "SAVED"), SubSeq(s, 1, Len(s)) \o <<>>)
  BY DEF sent
<1>2. PICK y : y = show(x, "SAVED")
  OBVIOUS
<1>3. r = on(y, s)
  BY <1>1, <1>2, WholeSeq
<1> QED BY <1>2, <1>3 DEF on

\* A SAVE that says something else records nothing.
LEMMA NotSaved ==
  ASSUME NEW x, NEW r, NEW kind, NEW key, Machine(r.m), r.m.store = x.store, r.m.msg # "SAVED"
  PROVE  Saves(x, r, kind, key)
BY DEF Saves

\* SAVE.
LEMMA SaveProgramKeeps ==
  ASSUME NEW x, Machine(x), NEW r, r = SaveProgram(x, "f", 0)
  PROVE  Saves(x, r, "program", NoKey)
<1>1. PICK p, f : p = x.prog /\ f = program_file("f", p)
  OBVIOUS
<1>2. PICK d, n : d = <<"text", p>> /\ n = size(p)
  OBVIOUS
<1>3. f = file(PROGRAM, "f", d, n, n)
  BY <1>1, <1>2 DEF program_file
<1>4. Filed(f, 2, PROGRAM, d, n, n)
  BY <1>3, FileFacts
<1>5. r = sent(x, f, 0)
  BY <1>1 DEF SaveProgram
<1>6. IsSeq(f)
  BY <1>4 DEF Filed
<1>7. r.m = show(x, "SAVED") /\ r.tape = f
  BY <1>5, <1>6, SentWhole
<1>8. Machine(r.m) /\ r.m.store = x.store /\ r.m.prog = x.prog
  BY <1>7, Shown
<1>9. holds("program", NoKey, r.m).prog = p
  <2>1. holds("program", NoKey, r.m) = [Boot EXCEPT !.prog = p]
    BY <1>1, <1>8 DEF holds
  <2>2. "prog" \in Fields /\ Shape(Boot)
    BY BootShape, Names
  <2>3. [Boot EXCEPT !.prog = p].prog = p
    BY <2>2, SetField
  <2> QED BY <2>1, <2>3
<1>10. p \in PROGS \cup {<<>>}
  BY <1>1 DEF Machine
<1> QED BY <1>1, <1>7, <1>8, <1>9, <1>10 DEF Saves, Recorded

\* What a recording holds of a sound machine is a sound machine.
LEMMA HoldsKeeps ==
  ASSUME NEW x, Machine(x), NEW o, o = holds("all", NoKey, x)
  PROVE  Machine(o) /\ Alike(x, o) /\ o = holds("all", NoKey, o)
<1>1. Shape(x) /\ x.mode = 0
  BY DEF Machine
<1>2. Shape(o) /\ Agree(x, o, {"msg", "ce", "ve", "package", "grabbed", "ram"})
  BY <1>1, HoldsAll
<1>3. Alike(x, o)
  BY <1>2, Names DEF Agree, Alike, Same
<1>4. Machine(o)
  BY <1>1, <1>2, <1>3, MachineSame DEF Alike
<1>5. o = holds("all", NoKey, o)
  BY <1>1, <1>2, <1>3, HoldsAlike
<1> QED BY <1>3, <1>4, <1>5

\* SAVE ... ALL.
LEMMA SaveAllKeeps ==
  ASSUME NEW x, Machine(x), NEW r, r = SaveAll(x, "f", 0)
  PROVE  Saves(x, r, "all", NoKey)
<1>1. PICK s : s = ensure_session(x)
  OBVIOUS
<1>2. Machine(s) /\ s.store = x.store /\ s.prog = x.prog
  BY <1>1, EnsureKeeps
<1>3. PICK f : f = Taped(s)
  OBVIOUS
<1>4. r = IF ~s.sess THEN on(failed_compile(x, x.prog), <<>>) ELSE IF ~builds(s) THEN on(show(s, "NOMEM"), <<>>) ELSE sent(s, f, 0)
  BY <1>1, <1>3 DEF SaveAll, Taped
<1>5. \A a, b : on(a, b).m = a
  BY DEF on
<1>6. CASE ~s.sess
  <2>1. r.m = failed_compile(x, x.prog)
    BY <1>4, <1>5, <1>6
  <2>2. well_formed(x.prog)
    BY Programs DEF Machine
  <2>3. compile(x, {}, x.prog) # 0
    <3>1. SUFFICES ASSUME ~(compile(x, {}, x.prog) # 0) PROVE FALSE
      OBVIOUS
    <3>2. s = x \/ s = session_start(x)
      BY <1>1, <3>1 DEF ensure_session
    <3>3. s = x => x.sess
      BY <1>1, <1>6, <3>1, StartKeeps DEF ensure_session, Machine
    <3>4. s = session_start(x) => s.sess = TRUE
      BY StartKeeps DEF Machine
    <3> QED BY <1>6, <3>2, <3>3, <3>4
  <2>4. Machine(r.m) /\ r.m.store = x.store
    BY <2>1, <2>2, <2>3, FailedKeeps
  <2>5. r.m.msg = "SYNTAX"
    BY <2>1, <2>2, <2>3, FailedSays
  <2> QED BY <2>4, <2>5, NotSaved
<1>7. CASE s.sess /\ ~builds(s)
  <2>1. r.m = show(s, "NOMEM")
    BY <1>4, <1>5, <1>7
  <2>2. Machine(r.m) /\ r.m.store = s.store /\ r.m.msg = "NOMEM"
    BY <1>2, <2>1, Shown
  <2> QED BY <1>2, <2>2, NotSaved
<1>8. CASE s.sess /\ builds(s)
  <2>1. r = sent(s, f, 0)
    BY <1>4, <1>8
  <2>2. TapedAll(f, s)
    BY <1>3, TapedFacts
  <2>3. IsSeq(f)
    BY <2>2 DEF TapedAll, Filed
  <2>4. r.m = show(s, "SAVED") /\ r.tape = f
    BY <2>1, <2>3, SentWhole
  <2>5. PICK y, o : y = r.m /\ o = holds("all", NoKey, y)
    OBVIOUS
  <2>6. Machine(y) /\ Same(s, y)
    BY <1>2, <2>4, <2>5, ShowKeeps
  <2>7. Machine(o) /\ Alike(y, o) /\ o = holds("all", NoKey, o)
    BY <2>5, <2>6, HoldsKeeps
  <2>8. s.sess = TRUE
    BY <1>2, <1>8 DEF Machine
  <2>9. Alike(s, y)
    <3>1. Shape(s) /\ s.mode = 0
      BY <1>2 DEF Machine
    <3>2. Agree(s, y, {"msg"})
      BY <2>4, <2>5, <3>1, ShowFacts
    <3> QED BY <2>6, <3>2, Names DEF Agree, Alike
  <2>10. o.sess = TRUE /\ o.prog = s.prog /\ o.decl = s.decl /\ o.arena = s.arena /\ o.end2 = s.end2 /\ Alike(s, o)
    BY <2>7, <2>8, <2>9 DEF Alike, Same
  <2>11. image(s) = image(o) /\ segment2(s) = segment2(o)
    BY <1>2, <2>7, <2>8, <2>10, ImageAlike
  <2>12. block1(s) = block1(o) /\ block2(s) = block2(o)
    BY <2>11 DEF block1, block2
  <2>16. image_length(s) = image_length(o)
    BY <2>10 DEF image_length, pool_used
  <2>13. Taped(s) = Taped(o)
    BY <2>10, <2>12, <2>16 DEF Taped
  <2>14. builds(o)
    BY <1>8, <2>16 DEF builds
  <2>15. Machine(r.m) /\ r.m.store = x.store
    BY <1>2, <2>5, <2>6 DEF Same
  <2> QED BY <1>3, <2>4, <2>5, <2>7, <2>10, <2>13, <2>14, <2>15 DEF Saves, Recorded
<1> QED BY <1>6, <1>7, <1>8

\* What a recording of an array holds of it.
LEMMA RecordedArray ==
  ASSUME NEW k, NEW b, NEW o, o = [Boot EXCEPT !.store = <<entry(k, 1, b)>>]
  PROVE  o.store[1].body = b
<1>1. PICK e, s : e = entry(k, 1, b) /\ s = <<e>>
  OBVIOUS
<1>2. s[1] = e /\ e.body = b
  BY <1>1 DEF entry
<1>3. PICK z : z = [Boot EXCEPT !.store = s]
  OBVIOUS
<1>4. z.store = s
  BY <1>3, Names, BootShape, SetField
<1>5. o = z
  BY ONLY o = [Boot EXCEPT !.store = <<entry(k, 1, b)>>], <1>1, <1>3
<1> QED BY <1>2, <1>4, <1>5

\* A body of an array that is read.
LEMMA SentArray ==
  ASSUME NEW x, Shape(x), NEW k, k[2] \in {2, 3}, NEW b, Readable(b),
         NEW r, r = sent(x, array_file("f", b), 0),
         r.m = show(x, "SAVED") => holds("array", k, r.m) = [Boot EXCEPT !.store = <<entry(k, 1, b)>>]
  PROVE  Recorded("array", k, holds("array", k, r.m), r.tape)
<1>1. PICK f, d, n : f = array_file("f", b) /\ d = <<"array", b>> /\ n = b.len
  OBVIOUS
<1>2. f = file(ARRAY, "f", d, n, n)
  BY <1>1 DEF array_file
<1>3. Filed(f, 2, ARRAY, d, n, n)
  BY <1>2, FileFacts
<1>4. IsSeq(f)
  BY <1>3 DEF Filed
<1>5. r.m = show(x, "SAVED") /\ r.tape = f
  BY <1>1, <1>4, SentWhole
<1>7. PICK o : o = holds("array", k, r.m)
  OBVIOUS
<1>8. o.store[1].body = b
  BY <1>5, <1>7, RecordedArray
<1>9. Recorded("array", k, o, r.tape)
  BY <1>1, <1>5, <1>8 DEF Recorded
<1> QED BY <1>7, <1>9

\* What a reading of a sound machine's array k is.
Read(x, k, z) ==
  /\ Shape(z) /\ z.store = x.store
  /\ k \in DOMAIN z.arr => Readable(body(z, k))
LEMMA SoundReadable ==
  ASSUME NEW k, NEW b, SoundBody(k, b)
  PROVE  Readable(b)
BY DEF SoundBody, Readable

\* An entry's body.
LEMMA FoundReadable ==
  ASSUME NEW x, StoreOK(x.store), NEW k, stored(x, k) # {}
  PROVE  Readable(found(x, k).body)
<1>1. PICK i \in DOMAIN x.store : x.store[i].key = k /\ found(x, k) = x.store[i]
  BY Found
<1>2. SoundEntry(x.store[i])
  BY DEF StoreOK
<1> QED BY <1>1, <1>2, SoundReadable DEF SoundEntry

\* A slot of a sound machine.
LEMMA SlotReadable ==
  ASSUME NEW x, Machine(x), NEW k \in DOMAIN x.arr
  PROVE  Readable(body(x, k))
<1>1. CASE ArrOK(x)
  <2>1. SoundArray(x, k)
    BY <1>1 DEF ArrOK
  <2>2. CASE x.arr[k].at = "store"
    <3>1. stored(x, k) # {}
      BY <2>1, <2>2 DEF SoundArray
    <3> QED BY <2>2, <3>1, FoundReadable DEF body, Machine
  <2>3. CASE x.arr[k].at # "store"
    BY <2>1, <2>3, SoundReadable DEF SoundArray, body
  <2> QED BY <2>2, <2>3
<1>2. CASE StaleOK(x)
  <2>1. SoundBody(k, x.arr[k].body) /\ x.arr[k] = [at |-> "stale", body |-> x.arr[k].body]
    BY <1>2 DEF StaleOK
  <2>2. x.arr[k].at = "stale"
    <3>1. PICK d : d = x.arr[k].body
      OBVIOUS
    <3> QED BY <2>1, <3>1
  <2> QED BY <2>1, <2>2, SoundReadable DEF body
<1> QED BY <1>1, <1>2 DEF Machine

\* Bytes read for a body's.
LEMMA MisreadReadable ==
  ASSUME NEW b, Readable(b), NEW d \in misread(b)
  PROVE  Readable(d)
<1>1. d = b \/ d = [b EXCEPT !.vals = updated(b.vals, 0, 1)] \/ d = [b EXCEPT !.dims = 0]
  BY DEF misread
<1>2. \A f, v : f \in {"vals", "dims"} => LET c == [b EXCEPT ![f] = v] IN
        DOMAIN c = DOMAIN b /\ (c.width = b.width \/ "width" \notin DOMAIN b) /\ (c.len = b.len \/ "len" \notin DOMAIN b)
  OBVIOUS
<1> QED BY <1>1, <1>2 DEF Readable

\* A slot is read as it is, as none, or as other bytes.
LEMMA ReadingIs ==
  ASSUME NEW x, Machine(x), NEW k, NEW z \in readings(x, k)
  PROVE  Read(x, k, z)
<1>1. Shape(x)
  BY DEF Machine
<1>2. CASE z = x
  BY <1>1, <1>2, SlotReadable DEF Read
<1>3. CASE z = [x EXCEPT !.arr = Boot.arr]
  <2>1. PICK e : e = Boot.arr
    OBVIOUS
  <2>2. z = [x EXCEPT !.arr = e]
    BY <1>3, <2>1
  <2>3. Shape(z) /\ z.arr = e /\ Agree(x, z, {"arr"})
    BY ONLY <1>1, <2>2, Change, Names
  <2>4. z.store = x.store
    BY <2>3, Names DEF Agree
  <2> QED BY <2>1, <2>3, <2>4, BootShape DEF Read
<1>4. CASE /\ k \in DOMAIN x.arr /\ x.arr[k].at = "stale"
           /\ \E d \in misread(x.arr[k].body) : z = [x EXCEPT !.arr = updated(x.arr, k, [at |-> "stale", body |-> d])]
  <2>1. PICK d \in misread(x.arr[k].body) : z = [x EXCEPT !.arr = updated(x.arr, k, [at |-> "stale", body |-> d])]
    BY <1>4
  <2>2. PICK a, e : a = [at |-> "stale", body |-> d] /\ e = updated(x.arr, k, a)
    OBVIOUS
  <2>3. z = [x EXCEPT !.arr = e]
    BY <2>1, <2>2
  <2>4. Shape(z) /\ z.arr = e /\ Agree(x, z, {"arr"})
    BY ONLY <1>1, <2>3, Change, Names
  <2>5. z.store = x.store
    BY <2>4, Names DEF Agree
  <2>6. e[k] = a
    BY <2>2 DEF updated
  <2>7. body(z, k) = d
    BY <2>2, <2>4, <2>6 DEF body
  <2>8. body(x, k) = x.arr[k].body
    BY <1>4 DEF body
  <2>9. Readable(d)
    BY <1>4, <2>1, <2>8, SlotReadable, MisreadReadable
  <2> QED BY <2>4, <2>5, <2>7, <2>9 DEF Read
<1> QED BY <1>2, <1>3, <1>4 DEF readings

\* SAVE ... ARRAY, of an array of the session or of the store alone.
LEMMA SaveArrayKeeps ==
  ASSUME NEW x, Machine(x), NEW k, k[2] \in {2, 3}, NEW z \in readings(x, k), NEW r, r = SaveArray(z, "f", k, 0),
         r.m.msg = "SAVED"
  PROVE  Recorded("array", k, holds("array", k, r.m), r.tape)
<1>1. StoreOK(x.store)
  BY DEF Machine
<1>2. Read(x, k, z)
  BY ReadingIs
<1>3. Shape(z) /\ z.store = x.store
  BY <1>2 DEF Read
<1>4. \A y : y = show(z, "SAVED") => y.arr = z.arr /\ y.store = z.store
  BY <1>3, ShowFacts, Names DEF Agree
<1>5. \A y : y.arr = z.arr /\ y.store = z.store =>
        /\ body(y, k) = body(z, k) /\ found(y, k) = found(z, k)
    BY DEF body, found, stored
<1>6. \A y : y = show(z, "SAVED") => y.arr = z.arr /\ body(y, k) = body(z, k) /\ found(y, k) = found(z, k)
  BY <1>4, <1>5
<1>7. CASE k \in DOMAIN z.arr
  <2>1. PICK b : b = body(z, k)
    OBVIOUS
  <2>2. Readable(b)
    BY <1>2, <1>7, <2>1 DEF Read
  <2>3. r = sent(z, array_file("f", b), 0)
    BY <1>7, <2>1 DEF SaveArray
  <2>4. r.m = show(z, "SAVED") => holds("array", k, r.m) = [Boot EXCEPT !.store = <<entry(k, 1, b)>>]
    BY <1>6, <1>7, <2>1 DEF holds
  <2> QED BY <1>3, <2>2, <2>3, <2>4, SentArray
<1>8. CASE k \notin DOMAIN z.arr /\ stored(z, k) # {}
  <2>1. PICK b : b = found(z, k).body
    OBVIOUS
  <2>2. StoreOK(z.store)
    BY <1>1, <1>3
  <2>3. Readable(b)
    BY <1>8, <2>1, <2>2, FoundReadable
  <2>4. r = sent(z, array_file("f", b), 0)
    BY <1>8, <2>1 DEF SaveArray
  <2>5. r.m = show(z, "SAVED") => holds("array", k, r.m) = [Boot EXCEPT !.store = <<entry(k, 1, b)>>]
    BY <1>6, <1>8, <2>1 DEF holds
  <2> QED BY <1>3, <2>3, <2>4, <2>5, SentArray
<1>9. CASE k \notin DOMAIN z.arr /\ stored(z, k) = {}
  <2>1. r = on(show(z, "ARRAY_NOT_DIMD"), <<>>)
    BY <1>9 DEF SaveArray
  <2>2. r.m = show(z, "ARRAY_NOT_DIMD")
    BY <2>1 DEF on
  <2>3. r.m.msg = "ARRAY_NOT_DIMD"
    BY <1>3, <2>2, ShowFacts
  <2> QED BY <2>3
<1> QED BY <1>7, <1>8, <1>9

-----------------------------------------------------------------------------
\* NEW, a line typed, a package.

\* NEW.
LEMMA NewKeeps ==
  ASSUME NEW x, Machine(x), NEW y, y = New(x)
  PROVE  Machine(y)
<1> DEFINE a1 == [x EXCEPT !.store = <<>>]
           a2 == [a1 EXCEPT !.msg = "none"]
<1>1. Shape(a1) /\ a1.store = <<>> /\ Agree(x, a1, {"store"})
  BY Change, Names DEF Machine
<1> HIDE DEF a1
<1>2. Shape(a2) /\ Agree(a1, a2, {"msg"})
  BY <1>1, Change, Names
<1>3. y = mem_init(a2)
  BY DEF New, a1, a2
<1> HIDE DEF a2
<1>4. a2.store = <<>> /\ a2.prog = x.prog /\ a2.mode = x.mode
  BY <1>1, <1>2, Names DEF Agree, Fields
<1>5. Plain(a2)
  BY <1>2, <1>4, EmptyStore DEF Plain, Machine
<1> QED BY <1>3, <1>5, MemInitKeeps

\* A program is typed.
LEMMA EditKeeps ==
  ASSUME NEW x, Machine(x), NEW p \in PROGS, NEW y, y = Edit(x, p)
  PROVE  Machine(y) /\ y.store = x.store
<1>1. PICK w, z : w = WithProgram(x, p) /\ z = show(w, "none")
  OBVIOUS
<1>2. HasProgram(x, w, p)
  BY <1>1, MachinePlain, ProgramIn
<1>3. Machine(z) /\ z.store = w.store
  BY <1>1, <1>2, Shown DEF HasProgram
<1>4. y = z
  <2>1. PICK c : c = clear_arrays(x)
    OBVIOUS
  <2>2. y = [c EXCEPT !.prog = p, !.msg = "none"] /\ w = [c EXCEPT !.prog = p]
    BY <1>1, <2>1 DEF Edit, WithProgram
  <2> QED BY ONLY <1>1, <2>2 DEF show
<1> QED BY <1>2, <1>3, <1>4 DEF HasProgram

\* The session goes, its arrays stay where they are.
LEMMA SessionGone ==
  ASSUME NEW x, Machine(x), NEW y, Shape(y), y.sess = FALSE, Agree(x, y, {"sess", "package", "registry", "grabbed"})
  PROVE  Machine(y) /\ y.store = x.store
<1>1. y.prog = x.prog /\ y.mode = x.mode /\ y.store = x.store /\ y.decl = x.decl /\ y.arr = x.arr
  BY Names DEF Agree, Fields
<1>2. ArrOK(x) => ArrOK(y)
  BY <1>1, SameArr
<1>3. StaleOK(x) => StaleOK(y)
  BY <1>1, SameStale
<1>4. ~unfit(y)
  BY DEF unfit
<1> QED BY <1>1, <1>2, <1>3, <1>4 DEF Machine

Stays(x, y) == Machine(y) /\ y.store = x.store
\* What packages own changes.
LEMMA Taken ==
  ASSUME NEW x, Machine(x), NEW f \in {"package", "registry", "grabbed"}, NEW v, NEW y, y = [x EXCEPT ![f] = v]
  PROVE  Stays(x, y)
<1>1. f \in Fields \ Kept
  BY DEF Fields, Kept
<1>2. Shape(x) /\ x.mode = 0
  BY DEF Machine
<1>3. Shape(y) /\ Same(x, y)
  BY <1>1, <1>2, SetOther
<1>4. y.mode = x.mode
  BY <1>1, <1>2, SetField, Names
<1> QED BY <1>2, <1>3, <1>4, MachineSame DEF Same, Stays

Attached(c, p) == loaded([c EXCEPT !.package = p, !.registry = p.words, !.grabbed = {}])
Detached(c, w) == show([c EXCEPT !.package = None], w)
Sessionless(x) == [x EXCEPT !.sess = FALSE, !.registry = <<>>]
\* LOAD of a package: it is attached, or there is none.
LEMMA PackageIs ==
  ASSUME NEW x, NEW t, NEW c, c = Sessionless(x), NEW y, y = LoadPackage(x, t, "p").m
  PROVE  (\E p : y = Attached(c, p)) \/ (\E w : y = Detached(c, w))
<1>1. \A a, b : on(a, b).m = a
  BY DEF on
<1>2. PICK r : r = storage_load(t, request(EXTENSION, "p", WINDOW, 0, FALSE))
  OBVIOUS
<1>3. PICK p, w, a, d : p = r.data[2] /\ w = reason(r, "LOAD_FAILED") /\ a = Attached(c, p) /\ d = Detached(c, w)
  OBVIOUS
<1>4. LoadPackage(x, t, "p") = IF r.class = "ok" /\ ~p.carry THEN on(a, r.tape) ELSE on(d, r.tape)
  BY <1>2, <1>3 DEF LoadPackage, Attached, Detached, Sessionless
<1>5. y = a \/ y = d
  BY <1>1, <1>4
<1> QED BY <1>3, <1>5

\* A package is attached.
LEMMA AttachedKeeps ==
  ASSUME NEW c, Machine(c), NEW p, NEW y, y = Attached(c, p)
  PROVE  Stays(c, y)
<1>1. PICK w : w = p.words
  OBVIOUS
<1>2. PICK a1 : a1 = [c EXCEPT !.package = p]
  OBVIOUS
<1>3. PICK a2 : a2 = [a1 EXCEPT !.registry = w]
  OBVIOUS
<1>4. PICK a3 : a3 = [a2 EXCEPT !.grabbed = {}]
  OBVIOUS
<1>5. y = show(a3, "LOADED")
  BY <1>1, <1>2, <1>3, <1>4 DEF loaded, Attached
<1>6. Stays(c, a1)
  BY <1>2, Taken
<1>7. Machine(a1)
  BY <1>6 DEF Stays
<1>8. Stays(a1, a2)
  BY ONLY <1>3, <1>7, Taken
<1>9. Machine(a2)
  BY <1>8 DEF Stays
<1>10. Stays(a2, a3)
  BY ONLY <1>4, <1>9, Taken
<1>11. Machine(a3)
  BY <1>10 DEF Stays
<1>12. Machine(y) /\ y.store = a3.store
  BY ONLY <1>5, <1>11, Shown
<1> QED BY <1>6, <1>8, <1>10, <1>12 DEF Stays

\* There is none any more.
LEMMA DetachedKeeps ==
  ASSUME NEW c, Machine(c), NEW w, NEW y, y = Detached(c, w)
  PROVE  Stays(c, y)
<1>1. PICK a : a = [c EXCEPT !.package = None]
  OBVIOUS
<1>2. PICK n : n = None
  OBVIOUS
<1>3. Stays(c, a)
  BY ONLY Machine(c), <1>1, <1>2, Taken
<1>4. y = show(a, w)
  BY <1>1 DEF Detached
<1>5. Machine(a)
  BY <1>3 DEF Stays
<1>6. Machine(y) /\ y.store = a.store
  BY ONLY <1>4, <1>5, Shown
<1> QED BY <1>3, <1>6 DEF Stays

\* The session goes, its arrays stay where they are.
LEMMA SessionlessKeeps ==
  ASSUME NEW x, Machine(x), NEW c, c = Sessionless(x)
  PROVE  Machine(c) /\ c.store = x.store
<1>1. PICK a1 : a1 = [x EXCEPT !.sess = FALSE]
  OBVIOUS
<1>2. PICK a2 : a2 = [a1 EXCEPT !.registry = <<>>]
  OBVIOUS
<1>3. c = a2
  BY <1>1, <1>2 DEF Sessionless
<1>4. Shape(x)
  BY DEF Machine
<1>5. Shape(a1) /\ a1.sess = FALSE /\ Agree(x, a1, {"sess"})
  BY <1>1, <1>4, Change, Names
<1>6. Shape(a2) /\ Agree(a1, a2, {"registry"})
  BY <1>2, <1>5, Change, Names
<1>7. Agree(x, a2, {"sess", "package", "registry", "grabbed"}) /\ a2.sess = FALSE
  BY <1>5, <1>6, Names DEF Agree, Fields
<1> QED BY <1>3, <1>6, <1>7, SessionGone

\* LOAD of a package.
LEMMA LoadPackageKeeps ==
  ASSUME NEW x, Machine(x), NEW t, NEW y, y = LoadPackage(x, t, "p").m
  PROVE  Machine(y) /\ y.store = x.store
<1>1. PICK c : c = Sessionless(x)
  OBVIOUS
<1>2. Machine(c) /\ c.store = x.store
  BY <1>1, SessionlessKeeps
<1>3. (\E p : y = Attached(c, p)) \/ (\E w : y = Detached(c, w))
  BY <1>1, PackageIs
<1>4. ASSUME NEW p, y = Attached(c, p) PROVE Stays(c, y)
  BY ONLY <1>2, <1>4, AttachedKeeps
<1>5. ASSUME NEW w, y = Detached(c, w) PROVE Stays(c, y)
  BY ONLY <1>2, <1>5, DetachedKeeps
<1>6. Stays(c, y)
  BY ONLY <1>3, <1>4, <1>5
<1> QED BY <1>2, <1>6 DEF Stays

-----------------------------------------------------------------------------
\* The invariant.

Quiet == m.msg = "none" /\ m.ce = 0 /\ m.ve = 0
IInv == Machine(m) /\ TapeOK /\ Quiet

\* The machine is switched on, without a tape.
LEMMA InitIInv == Init => IInv
<1> SUFFICES ASSUME Init PROVE IInv
  OBVIOUS
<1>1. m = Boot /\ tape = <<>> /\ rec = NoRecord
  BY DEF Init
<1>2. StoreOK(m.store) /\ DeclOK(m.decl)
  BY <1>1, BootShape, EmptyStore, EmptyDecl
<1>3. Machine(m)
  BY <1>1, <1>2, BootShape, NoSession
<1>4. TapeOK
  BY <1>1 DEF TapeOK, NoRecord
<1> QED BY <1>1, <1>3, <1>4, BootShape DEF IInv, Quiet

\* A key that leaves a sound machine and does not record.
LEMMA Becomes ==
  ASSUME IInv, NEW y, Machine(y), becomes(y)
  PROVE  IInv' /\ m'.store = y.store /\ m'.decl = y.decl
<1>1. m' = quiet(y) /\ tape' = tape /\ rec' = rec
  BY DEF becomes
<1>2. PICK z : z = quiet(y)
  OBVIOUS
<1>3. Machine(z) /\ Same(y, z) /\ z.msg = "none" /\ z.ce = 0 /\ z.ve = 0
  BY <1>2, QuietKeeps
<1>4. Machine(m')
  BY <1>1, <1>2, <1>3
<1>5. Machine(m)'
  BY <1>4
<1>6. TapeOK'
  BY <1>1 DEF IInv, TapeOK
<1>7. Quiet'
  BY <1>1, <1>2, <1>3 DEF Quiet
<1> QED BY <1>1, <1>2, <1>3, <1>5, <1>6, <1>7 DEF IInv, Same

\* A key that records.
LEMMA Records ==
  ASSUME IInv, NEW r, NEW kind \in {"program", "array", "all"}, NEW key,
         r.m.msg = "SAVED" => Recorded(kind, key, holds(kind, key, r.m), r.tape), records(r, kind, key)
  PROVE  TapeOK'
<1>1. CASE r.m.msg = "SAVED"
  <2>1. PICK o : o = holds(kind, key, r.m)
    OBVIOUS
  <2>2. tape' = r.tape /\ rec' = [kind |-> kind, key |-> key, of |-> o]
    BY <1>1, <2>1 DEF records
  <2>3. Recorded(kind, key, o, tape')
    BY <1>1, <2>1, <2>2
  <2>4. rec'.kind = kind /\ rec'.key = key /\ rec'.of = o
    BY <2>2
  <2> QED BY <2>3, <2>4 DEF TapeOK, Recorded
<1>2. CASE ~(r.m.msg = "SAVED")
  <2>1. tape' = tape /\ rec' = rec
    BY <1>2 DEF records
  <2> QED BY <2>1 DEF IInv, TapeOK
<1> QED BY <1>1, <1>2

\* A SAVE of the program or of a session.
LEMMA Saved ==
  ASSUME IInv, NEW r, NEW kind \in {"program", "array", "all"}, NEW key, Saves(m, r, kind, key), records(r, kind, key), m' = quiet(r.m)
  PROVE  IInv' /\ m'.store = m.store
<1>1. Machine(r.m) /\ r.m.store = m.store
  BY DEF Saves
<1>2. PICK z : z = quiet(r.m)
  OBVIOUS
<1>3. Machine(z) /\ Same(r.m, z) /\ z.msg = "none" /\ z.ce = 0 /\ z.ve = 0
  BY <1>1, <1>2, QuietKeeps
<1>4. Machine(m)'
  BY <1>2, <1>3
<1>5. TapeOK'
  BY Records DEF Saves
<1>6. Quiet'
  BY <1>2, <1>3 DEF Quiet
<1> QED BY <1>1, <1>2, <1>3, <1>4, <1>5, <1>6 DEF IInv, Same

\* A SAVE of an array changes nothing but the tape.
LEMMA SavedOne ==
  ASSUME IInv, NEW k \in KEYS, NEW z \in readings(m, k), m' = m, records(SaveArray(z, "f", k, 0), "array", k)
  PROVE  IInv' /\ m'.store = m.store
<1>1. PICK r : r = SaveArray(z, "f", k, 0)
  OBVIOUS
<1>2. k[2] \in {2, 3}
  BY CodeAssumption
<1>3. Machine(m)
  BY DEF IInv
<1>4. r.m.msg = "SAVED" => Recorded("array", k, holds("array", k, r.m), r.tape)
  BY <1>1, <1>2, <1>3, SaveArrayKeeps
<1>5. TapeOK'
  BY <1>1, <1>4, Records
<1>6. Machine(m)' /\ Quiet'
  BY <1>3 DEF Quiet, IInv
<1> QED BY <1>5, <1>6 DEF IInv

\* What a step does to the store.
StoreStays == StoreKept(m, m')
Restored == rec.kind = "all" /\ m'.store \in {<<>>, rec.of.store}
Entered(k) ==
  /\ rec.kind = "array"
  /\ \E b \in {rec.of.store[1].body, miscounted(rec.of.store[1].body)} :
       valid(k[2], b) /\ m'.store = without(m.store, k) \o <<entry(k, 1, b)>>
StoreStep == StoreStays \/ NewIt \/ Restored \/ \E k \in KEYS : Entered(k)

\* A step that leaves the store alone.
LEMMA Unmoved ==
  ASSUME m'.store = m.store
  PROVE  StoreStep
BY SameStore DEF StoreStep, StoreStays

\* Every key: Type, RunIt, Say, NewIt, Save, Play and LoadExt.
LEMMA NextStep ==
  ASSUME IInv, Next
  PROVE  IInv' /\ StoreStep
<1>1. Machine(m) /\ TapeOK
  BY DEF IInv
<1>2. CASE Type
  <2>1. PICK p \in PROGS : becomes(Edit(m, p))
    BY <1>2 DEF Type
  <2>2. PICK y : y = Edit(m, p)
    OBVIOUS
  <2>3. Machine(y) /\ y.store = m.store /\ becomes(y)
    BY <1>1, <2>1, <2>2, EditKeeps
  <2> QED BY <2>3, Becomes, Unmoved
<1>3. CASE RunIt
  <2>1. PICK y : y = Run(m)
    OBVIOUS
  <2>2. Machine(y) /\ StoreKept(m, y) /\ becomes(y)
    BY <1>1, <1>3, <2>1, RunKeeps DEF RunIt
  <2>3. IInv' /\ m'.store = y.store /\ m'.decl = y.decl
    BY <2>2, Becomes
  <2>4. StoreStays
    BY <2>2, <2>3 DEF StoreStays, StoreKept, Declared
  <2> QED BY <2>3, <2>4 DEF StoreStep
<1>4. CASE Say
  <2>1. PICK c \in SAYS : becomes(Immediate(m, c))
    BY <1>4 DEF Say
  <2>2. PICK y : y = Immediate(m, c)
    OBVIOUS
  <2>3. well_formed(c)
    BY CodeAssumption
  <2>4. Machine(y) /\ StoreKept(m, y) /\ becomes(y)
    BY <1>1, <2>1, <2>2, <2>3, ImmediateKeeps
  <2>5. IInv' /\ m'.store = y.store /\ m'.decl = y.decl
    BY <2>4, Becomes
  <2>6. StoreStays
    BY <2>4, <2>5 DEF StoreStays, StoreKept, Declared
  <2> QED BY <2>5, <2>6 DEF StoreStep
<1>5. CASE NewIt
  <2>1. PICK y : y = New(m)
    OBVIOUS
  <2>2. Machine(y) /\ becomes(y)
    BY <1>1, <1>5, <2>1, NewKeeps DEF NewIt
  <2> QED BY <1>5, <2>2, Becomes DEF StoreStep
<1>6. CASE Save
  <2>1. CASE SaveIt
    <3>1. PICK r : r = SaveProgram(m, "f", 0)
      OBVIOUS
    <3>2. Saves(m, r, "program", NoKey)
      BY <1>1, <3>1, SaveProgramKeeps
    <3>3. m' = quiet(r.m) /\ records(r, "program", NoKey)
      BY <2>1, <3>1 DEF SaveIt
    <3> QED BY <3>2, <3>3, Saved, Unmoved
  <2>2. CASE SaveSession
    <3>1. PICK r : r = SaveAll(m, "f", 0)
      OBVIOUS
    <3>2. Saves(m, r, "all", NoKey)
      BY <1>1, <3>1, SaveAllKeeps
    <3>3. m' = quiet(r.m) /\ records(r, "all", NoKey)
      BY <2>2, <3>1 DEF SaveSession
    <3> QED BY <3>2, <3>3, Saved, Unmoved
  <2>3. CASE SaveOne
    BY <2>3, SavedOne, Unmoved DEF SaveOne
  <2> QED BY <1>6, <2>1, <2>2, <2>3 DEF Save
<1>7. CASE Play
  <2>1. ASSUME NEW t \in Tapes, becomes(Load(m, t, "f").m) PROVE IInv' /\ StoreStep
    <3>1. PICK y : y = Load(m, t, "f").m
      OBVIOUS
    <3>2. LeftSafe(m, t, y)
      BY <1>1, <3>1, LoadKeeps
    <3>3. Machine(y) /\ OnlyBy(m, y) /\ becomes(y)
      BY <2>1, <3>1, <3>2 DEF LeftSafe
    <3>4. IInv' /\ m'.store = y.store
      BY <3>3, Becomes
    <3>5. y.store = m.store => StoreStep
      BY <3>4, Unmoved
    <3> QED BY <3>3, <3>4, <3>5 DEF OnlyBy, StoreStep, Restored
  <2>2. CASE becomes(Verify(m, tape, "f").m)
    <3>1. PICK y : y = Verify(m, tape, "f").m
      OBVIOUS
    <3>2. Shape(m) /\ m.mode = 0
      BY <1>1 DEF Machine
    <3>3. Shape(y) /\ Agree(m, y, {"msg"})
      BY <3>1, <3>2, VerifyQuiet
    <3>4. Same(m, y) /\ y.mode = 0
      BY <3>2, <3>3, Names DEF Agree, Same, Fields
    <3>5. Machine(y) /\ y.store = m.store /\ becomes(y)
      BY <1>1, <2>2, <3>1, <3>3, <3>4, MachineSame DEF Same
    <3> QED BY <3>5, Becomes, Unmoved
  <2>3. ASSUME NEW t \in Tapes, NEW k \in KEYS, becomes(LoadArray(m, t, "f", k, 1).m) PROVE IInv' /\ StoreStep
    <3>1. PICK y : y = LoadArray(m, t, "f", k, 1).m
      OBVIOUS
    <3>2. ArraySafe(m, y, k)
      BY <1>1, <3>1, LoadArrayKeeps
    <3>3. Machine(y) /\ becomes(y)
      BY <2>3, <3>1, <3>2 DEF ArraySafe
    <3>4. IInv' /\ m'.store = y.store
      BY <3>3, Becomes
    <3>5. y.store = m.store => StoreStep
      BY <3>4, Unmoved
    <3>6. y.store = m.store \/ Entered(k)
      BY <3>2, <3>4 DEF ArraySafe, Entered
    <3> QED BY <3>4, <3>5, <3>6 DEF StoreStep
  <2> QED BY <1>7, <2>1, <2>2, <2>3 DEF Play
<1>8. CASE LoadExt
  <2>1. PICK c : becomes(LoadPackage(m, c, "p").m)
    BY <1>8 DEF LoadExt
  <2>2. PICK y : y = LoadPackage(m, c, "p").m
    OBVIOUS
  <2>3. Machine(y) /\ y.store = m.store /\ becomes(y)
    BY <1>1, <2>1, <2>2, LoadPackageKeeps
  <2> QED BY <2>3, Becomes, Unmoved
<1> QED BY <1>2, <1>3, <1>4, <1>5, <1>6, <1>7, <1>8 DEF Next

\* And none.
LEMMA Stuttering ==
  ASSUME IInv, UNCHANGED vars
  PROVE  IInv' /\ StoreStep
<1>1. m' = m /\ tape' = tape /\ rec' = rec
  BY DEF vars
<1>2. IInv'
  BY <1>1 DEF IInv, TapeOK, Quiet
<1> QED BY <1>1, <1>2, Unmoved

\* Whatever is typed, run, saved and played, the machine is sound and the tape holds what rec says it does (V2_RUN_STORED,
\* V2_RUN_IMMEDIATE, V2_SAVE, V2_LOAD, V2_VERIFY, V2_LOAD_ARRAY, V2_CLEAR_ARRAYS).
THEOREM Invariant == Spec => []IInv
<1>1. IInv /\ [Next]_vars => IInv'
  BY NextStep, Stuttering
<1> QED BY InitIInv, <1>1, PTL DEF Spec

\* SessionSound, of a sound machine.
LEMMA IInvSound ==
  ASSUME IInv
  PROVE  SessionSound
<1>1. Machine(m) /\ StoreOK(m.store) /\ (ArrOK(m) \/ StaleOK(m))
  BY DEF IInv, Machine
<1>2. bytes(m.store) <= SEG2
  BY <1>1 DEF StoreOK
<1>3. \A i, j \in DOMAIN m.store : valid(m.store[i].key[2], m.store[i].body) /\ (m.store[i].key = m.store[j].key => i = j)
  <2>1. \A i \in DOMAIN m.store : SoundEntry(m.store[i])
    BY <1>1 DEF StoreOK
  <2>2. ASSUME NEW i \in DOMAIN m.store PROVE valid(m.store[i].key[2], m.store[i].body)
    <3>1. PICK k, b : k = m.store[i].key /\ b = m.store[i].body
      OBVIOUS
    <3>2. k[2] \in {2, 3} /\ SoundBody(k, b) /\ b.count <= 4095
      BY <2>1, <3>1 DEF SoundEntry
    <3>3. valid(k[2], b)
      BY <3>2, SoundValid
    <3> QED BY <3>1, <3>3
  <2>3. \A i, j \in DOMAIN m.store : m.store[i].key = m.store[j].key => i = j
    BY <1>1 DEF StoreOK
  <2> QED BY <2>2, <2>3
<1>4. StaleOK(m) => \A k \in DOMAIN m.arr : m.arr[k].at = "stale"
  <2>1. ASSUME StaleOK(m), NEW k \in DOMAIN m.arr PROVE m.arr[k].at = "stale"
    <3>1. PICK d : d = m.arr[k].body
      OBVIOUS
    <3>2. m.arr[k] = [at |-> "stale", body |-> d]
      BY <2>1, <3>1 DEF StaleOK
    <3> QED BY <3>2
  <2> QED BY <2>1
<1>5. \A k \in DOMAIN m.arr : m.arr[k].at # "stale" => (m.arr[k].at = "store" <=> stored(m, k) # {})
  BY <1>1, <1>4 DEF ArrOK, SoundArray
<1>6. ASSUME m.sess, ~unfit(m)
      PROVE  /\ \A k \in DOMAIN m.arr : m.arr[k].at # "stale"
             /\ ~mismatch(m, m.decl) => \A d \in m.decl : stored(m, d[1]) # {} => d[1] \in DOMAIN m.arr
             /\ m.end2 \in bytes(m.store) + Overflow(m) .. SEG2
  <2>1. Layout(m) /\ ArrOK(m)
    BY <1>1, <1>6 DEF Machine
  <2>2. PICK a, e : a = bytes(m.store) + Overflow(m) /\ e = m.end2
    OBVIOUS
  <2>3. a \in Nat
    <3>1. bytes(m.store) \in Nat
      BY <1>1, StoreFacts
    <3>2. Overflow(m) \in Nat
      BY <2>1, OverflowFewer DEF ArrOK
    <3> QED BY <2>2, <3>1, <3>2
  <2>4. e \in Nat /\ a <= e /\ e <= SEG2 /\ SEG2 \in Nat
    BY <2>1, <2>2, SizesAssumption DEF Layout
  <2>5. e \in a .. SEG2
    BY ONLY <2>3, <2>4
  <2>6. \A k \in DOMAIN m.arr : m.arr[k].at # "stale"
    BY <2>1 DEF ArrOK, SoundArray
  <2> QED BY <2>1, <2>2, <2>5, <2>6 DEF Layout, Bound
<1>7. unfit(m) => m.end2 = 0 /\ m.arena = 0 /\ \A k \in DOMAIN m.arr : m.arr[k].at = "stale"
  BY <1>1, <1>4 DEF Machine
<1> QED BY <1>2, <1>3, <1>5, <1>6, <1>7 DEF SessionSound

\* The session, the store and the layout agree (ARR_RUN_BIND, ARR_DIM, SA_RESTORE, V2_LOAD_ARRAY), for every program, statement, array and
\* tape.
THEOREM SessionIsSound == Spec => []SessionSound
BY Invariant, IInvSound, PTL

\* The entries of the Array Store change only as StoreOnlyBy says (V2_LOAD_ARRAY, SA_RESTORE, NEW and assignment are their only writers).
THEOREM StoreIsKept == Spec => StoreOnlyBy
<1>1. IInv /\ [Next]_vars =>
    [\/ /\ Shapes(m'.store) = Shapes(m.store)
        /\ \A i \in DOMAIN m.store : m'.store[i] = m.store[i] \/ Declared(m', m.store[i].key)
     \/ NewIt
     \/ rec.kind = "all" /\ m'.store \in {<<>>, rec.of.store}
     \/ /\ rec.kind = "array"
        /\ \E k \in KEYS, b \in {rec.of.store[1].body, miscounted(rec.of.store[1].body)} :
             valid(k[2], b) /\ m'.store = without(m.store, k) \o <<entry(k, 1, b)>>]_vars
  BY NextStep DEF StoreStep, StoreStays, StoreKept, Restored, Entered
<1> QED BY Invariant, <1>1, PTL DEF Spec, StoreOnlyBy

\* FailedLoadSafe, of a sound machine.
LEMMA IInvLoads ==
  ASSUME IInv
  PROVE  FailedLoadSafe
<1>1. Machine(m) /\ TapeOK
  BY DEF IInv
<1>2. ASSUME NEW t \in Tapes, NEW x, x = Load(m, t, "f").m PROVE Safe(m, t, x)
  BY <1>1, <1>2, LoadKeeps DEF LeftSafe
<1>3. ASSUME NEW t \in Tapes, NEW k \in KEYS, NEW x, x = LoadArray(m, t, "f", k, 1).m PROVE SafeArray(m, x)
  <2>1. ArraySafe(m, x, k)
    BY <1>1, <1>3, LoadArrayKeeps
  <2> QED BY <2>1 DEF ArraySafe, SafeArray
<1> QED BY <1>2, <1>3, Zenon DEF FailedLoadSafe

\* A LOAD that failed, whatever the tape did, leaves what FailedLoadSafe says it does (V2_LOAD, SA_RESTORE, V2_LOAD_ARRAY).
THEOREM FailedLoadIsSafe == Spec => []FailedLoadSafe
BY Invariant, IInvLoads, PTL

\* RoundTrip, of a sound machine.
LEMMA IInvRound ==
  ASSUME IInv
  PROVE  RoundTrip
<1>1. Machine(m) /\ TapeOK
  BY DEF IInv
<1>2. ASSUME rec.kind = "program", NEW x, x = Load(m, tape, "f").m PROVE Returned(x)
  <2>1. x = loaded([clear_arrays(m) EXCEPT !.prog = rec.of.prog])
    BY <1>1, <1>2, RoundProgram
  <2> QED BY <1>2, <2>1 DEF Returned
<1>3. ASSUME rec.kind = "all", NEW x, x = Load(m, tape, "f").m PROVE Returned(x)
  <2>1. IF m.registry = rec.of.registry /\ ~unfit(rec.of) THEN x.msg = "LOADED" /\ holds("all", NoKey, x) = rec.of
        ELSE x.msg = "NO_VARS" /\ x.prog = rec.of.prog
    BY <1>1, <1>3, RoundAll
  <2> QED BY <1>3, <2>1 DEF Returned
<1>4. ASSUME rec.kind = "array", NEW k, NEW b, NEW x, k = rec.key, b = rec.of.store[1].body, x = LoadArray(m, tape, "f", k, 1).m
      PROVE  ReturnedArray(k, b, x)
  <2>1. IF b.len > room(m, k, 1) THEN x.msg = "STORE_FULL"
        ELSE IF valid(k[2], b) THEN x.msg = "LOADED" /\ found(x, k).body = b ELSE x.msg = "BAD_ARRAY"
    BY <1>1, <1>4, RoundArray
  <2> QED BY <2>1 DEF ReturnedArray
<1> QED BY <1>2, <1>3, <1>4, Zenon DEF RoundTrip

\* What was recorded whole comes back on any machine (V2_SAVE, V2_SAVE_ARRAY, V2_LOAD, V2_LOAD_ARRAY).
THEOREM WhatWasSavedComesBack == Spec => []RoundTrip
BY Invariant, IInvRound, PTL

\* VerifyHonest, of a sound machine.
LEMMA IInvVerify ==
  ASSUME IInv
  PROVE  VerifyHonest
<1>1. Machine(m) /\ TapeOK
  BY DEF IInv
<1>2. \A t \in Tapes : \A v, x : v = Verify(m, t, "f").m /\ x = Load(m, t, "f").m => Honest(m, t, v, x)
  BY <1>1, VerifyIsHonest
<1> QED BY <1>2, Zenon DEF VerifyHonest

\* VERIFY changes nothing, and is right (V2_VERIFY).
THEOREM VerifyIsTrue == Spec => []VerifyHonest
BY Invariant, IInvVerify, PTL

===============================================================================
