---------------------------- MODULE SharedLemmas ----------------------------
(* What the proofs about several components need.  First, numbers,           *)
(* recursion and sequences.  Then, for the two components whose bodies are   *)
(* read with JsonParser, what its getters find in the text of a form: the    *)
(* value that was typed under the key, for any number of fields and any      *)
(* words.                                                                    *)
EXTENDS JsonParser, FiniteSetTheorems, TLAPS

\* A set of natural numbers has a least element: the intervals below its
\* elements are ordered by inclusion, which is well-founded.
LEMMA Least ==
    ASSUME NEW T \in SUBSET Nat, T # {}
    PROVE  \E n \in T : \A m \in T : n <= m
<1> DEFINE I == {0..n : n \in T}
<1>1. /\ I \subseteq FiniteSubsetsOf(Nat) /\ I # {}
      /\ IsWellFoundedOn(StrictSubsetOrdering(Nat), FiniteSubsetsOf(Nat))
  <2>1. \A n \in T : IsFiniteSet(0..n)
    BY FS_Interval
  <2>2. I \subseteq FiniteSubsetsOf(Nat)
    BY <2>1 DEF FiniteSubsetsOf
  <2>3. I # {}
    OBVIOUS
  <2> QED BY <2>2, <2>3, FS_StrictSubsetOrderingWellFounded
<1>2. \E x \in I : \A y \in I : <<y, x>> \notin StrictSubsetOrdering(Nat)
  <2> HIDE DEF I
  <2> QED BY <1>1, WFMin
<1>3. PICK n \in T : \A m \in T : <<0..m, 0..n>> \notin StrictSubsetOrdering(Nat)
  BY <1>2
<1>4. SUFFICES ASSUME NEW m \in T, m < n PROVE FALSE
  BY <1>3
<1>5. <<0..m, 0..n>> \in StrictSubsetOrdering(Nat)
  BY <1>4 DEF StrictSubsetOrdering
<1> QED BY <1>3, <1>5

\* Induction, with the set of the numbers that have the property.
LEMMA Induction ==
    ASSUME NEW T, 0 \in T, \A n \in Nat : n \in T => n + 1 \in T
    PROVE  Nat \subseteq T
<1> DEFINE U == Nat \ T
<1> SUFFICES ASSUME U # {} PROVE FALSE
  OBVIOUS
<1>1. PICK n \in U : \A m \in U : n <= m
  <2> HIDE DEF U
  <2>1. U \in SUBSET Nat
    BY DEF U
  <2> QED BY <2>1, Least
<1>2. n # 0 /\ n \in Nat
  BY <1>1
<1>3. n - 1 \in T
  BY <1>1, <1>2
<1> QED BY <1>1, <1>2, <1>3

-----------------------------------------------------------------------------
(* Recursion                                                                *)

\* f is the recursion up to k.
Obeys(f, start, step, k) ==
    f[0] = start /\ \A n \in 0..(k - 1) : f[n + 1] = step[n][f[n]]

LEMMA OneRecursion ==
    ASSUME NEW S, NEW start \in S, NEW step \in [Nat -> [S -> S]],
           NEW k \in Nat, NEW f, NEW g, Obeys(f, start, step, k), Obeys(g, start, step, k)
    PROVE  f[k] = g[k]
<1> DEFINE T == {n \in Nat : n <= k => f[n] = g[n]}
<1>1. 0 \in T
  BY DEF Obeys
<1>2. ASSUME NEW n \in Nat, n \in T PROVE n + 1 \in T
  <2>1. CASE n + 1 <= k
    <3>1. n \in 0..(k - 1) /\ f[n] = g[n]
      BY <1>2, <2>1
    <3>2. f[n + 1] = g[n + 1]
      BY <3>1 DEF Obeys
    <3> QED BY <1>2, <3>2
  <2> QED BY <1>2, <2>1
<1>3. k \in T
  <2> HIDE DEF T
  <2> QED BY <1>1, <1>2, Induction
<1> QED BY <1>3

LEMMA RecursionUpTo ==
    ASSUME NEW S, NEW start \in S, NEW step \in [Nat -> [S -> S]], NEW k \in Nat
    PROVE  \E f \in [Nat -> S] : Obeys(f, start, step, k)
<1> DEFINE T == {n \in Nat : \E f \in [Nat -> S] : Obeys(f, start, step, n)}
<1>1. 0 \in T
  <2>1. [n \in Nat |-> start] \in [Nat -> S]
    OBVIOUS
  <2>2. Obeys([n \in Nat |-> start], start, step, 0)
    BY DEF Obeys
  <2> QED BY <2>1, <2>2
<1>2. ASSUME NEW n \in Nat, n \in T PROVE n + 1 \in T
  <2>1. PICK f \in [Nat -> S] : Obeys(f, start, step, n)
    BY <1>2
  <2>2. step[n][f[n]] \in S
    BY <1>2
  <2>3. PICK g \in [Nat -> S] : g[n + 1] = step[n][f[n]] /\ \A m \in 0..n : g[m] = f[m]
    <3>1. [f EXCEPT ![n + 1] = step[n][f[n]]] \in [Nat -> S]
      BY <1>2, <2>2
    <3>2. /\ [f EXCEPT ![n + 1] = step[n][f[n]]][n + 1] = step[n][f[n]]
          /\ \A m \in 0..n : [f EXCEPT ![n + 1] = step[n][f[n]]][m] = f[m]
      BY <1>2
    <3> QED BY <3>1, <3>2
  <2>4. Obeys(g, start, step, n + 1)
    <3>1. g[0] = start
      BY <1>2, <2>1, <2>3 DEF Obeys
    <3>2. ASSUME NEW m \in 0..n PROVE g[m + 1] = step[m][g[m]]
      <4>1. CASE m = n
        BY <1>2, <2>3, <3>2, <4>1
      <4>2. CASE m # n
        <5>1. m \in 0..(n - 1) /\ m + 1 \in 0..n
          BY <1>2, <3>2, <4>2
        <5> QED BY <2>1, <2>3, <3>2, <5>1 DEF Obeys
      <4> QED BY <4>1, <4>2
    <3>3. (n + 1) - 1 = n
      BY <1>2
    <3> QED BY <3>1, <3>2, <3>3 DEF Obeys
  <2>5. n + 1 \in Nat
    BY <1>2
  <2> QED BY <2>4, <2>5
<1>3. k \in T
  <2> HIDE DEF T
  <2> QED BY <1>1, <1>2, Induction
<1> QED BY <1>3

\* What is defined by recursion over the naturals exists, in its set.
RunsBy(f, start, step) ==
    f[0] = start /\ \A n \in Nat : f[n + 1] = step[n][f[n]]

LEMMA Recursion ==
    ASSUME NEW S, NEW start \in S, NEW step \in [Nat -> [S -> S]]
    PROVE  \E f \in [Nat -> S] : RunsBy(f, start, step)
<1> DEFINE g(k) == CHOOSE f \in [Nat -> S] : Obeys(f, start, step, k)
           h == [k \in Nat |-> g(k)[k]]
<1>1. ASSUME NEW k \in Nat PROVE g(k) \in [Nat -> S] /\ Obeys(g(k), start, step, k)
  <2>1. \E f \in [Nat -> S] : Obeys(f, start, step, k)
    BY RecursionUpTo, Zenon
  <2> QED BY <2>1, Zenon
<1> HIDE DEF g
<1>2. h \in [Nat -> S]
  BY <1>1
<1>3. h[0] = start
  BY <1>1 DEF Obeys
<1>4. ASSUME NEW n \in Nat PROVE h[n + 1] = step[n][h[n]]
  <2>1. n + 1 \in Nat /\ n \in 0..((n + 1) - 1) /\ \A m \in 0..(n - 1) : m \in 0..((n + 1) - 1)
    BY <1>4
  <2>2. Obeys(g(n), start, step, n) /\ Obeys(g(n + 1), start, step, n + 1)
    BY <1>1, <2>1
  <2>3. Obeys(g(n + 1), start, step, n)
    BY <2>1, <2>2 DEF Obeys
  <2>4. g(n + 1)[n] = g(n)[n]
    BY <2>2, <2>3, OneRecursion
  <2>5. g(n + 1)[n + 1] = step[n][g(n + 1)[n]]
    BY <2>1, <2>2 DEF Obeys
  <2> QED BY <2>1, <2>4, <2>5
<1> HIDE DEF h
<1> QED BY <1>2, <1>3, <1>4 DEF RunsBy

-----------------------------------------------------------------------------
(* Division with remainder                                                  *)

LEMMA Remainder ==
    ASSUME NEW a \in Int, NEW n \in Nat \ {0}
    PROVE  a % n \in 0..(n - 1) /\ a \div n \in Int /\ a = n * (a \div n) + (a % n)
OBVIOUS

LEMMA UniqueRemainder ==
    ASSUME NEW n \in Nat \ {0}, NEW q \in Int, NEW r \in 0..(n - 1)
    PROVE  (n * q + r) % n = r /\ (n * q + r) \div n = q
<1> DEFINE a == n * q + r
<1>1. a \in Int
  OBVIOUS
<1>2. a % n \in 0..(n - 1) /\ a \div n \in Int /\ a = n * (a \div n) + (a % n)
  BY <1>1, Remainder
<1> DEFINE d == (a \div n) - q
<1>3. d \in Int /\ n * d = r - (a % n)
  BY <1>2
<1>4. n * d < n /\ n * d > -n
  BY <1>2, <1>3
<1> HIDE DEF d
<1>5. d < 1
  BY <1>3, <1>4
<1>6. d > -1
  BY <1>3, <1>4
<1>7. d = 0
  BY <1>3, <1>5, <1>6
<1> QED BY <1>2, <1>3, <1>7

-----------------------------------------------------------------------------
(* Sequences                                                                *)

\* IsPrefix, place by place.
BeginsWith(t, s) == Len(s) <= Len(t) /\ \A j \in 1..Len(s) : s[j] = t[j]

LEMMA PrefixIs ==
    ASSUME NEW S, NEW D, NEW s \in Seq(S), NEW t \in Seq(D)
    PROVE  IsPrefix(s, t) <=> BeginsWith(t, s)
<1>1. Len(s) \in Nat /\ Len(t) \in Nat
  OBVIOUS
<1>2. CASE Len(s) <= Len(t)
  <2> DEFINE a == SubSeq(s, 1, Len(s))
             b == SubSeq(t, 1, Len(s))
  <2>1. a \in Seq(S) /\ Len(a) = Len(s) /\ \A j \in 1..Len(s) : a[j] = s[j]
    BY <1>1, <1>2
  <2>2. b \in Seq(D) /\ Len(b) = Len(s) /\ \A j \in 1..Len(s) : b[j] = t[j]
    BY <1>1, <1>2
  <2>3. IsPrefix(s, t) <=> a = b
    BY <1>2, Zenon DEF IsPrefix
  <2> HIDE DEF a, b
  <2>4. a = b <=> \A j \in 1..Len(s) : a[j] = b[j]
    <3>1. a = [j \in 1..Len(s) |-> a[j]] /\ b = [j \in 1..Len(s) |-> b[j]]
      BY <2>1, <2>2
    <3> QED BY <3>1
  <2> QED BY <1>2, <2>1, <2>2, <2>3, <2>4 DEF BeginsWith
<1> QED BY <1>1, <1>2 DEF IsPrefix, BeginsWith

\* t ends with s.
EndsWith(s, t) ==
    /\ Len(s) <= Len(t)
    /\ \A k \in 1..Len(s) : s[k] = t[Len(t) - Len(s) + k]

LEMMA SuffixIs ==
    ASSUME NEW S, NEW s \in Seq(S), NEW t \in Seq(S), EndsWith(s, t)
    PROVE  IsSuffix(s, t)
<1>1. /\ Len(s) \in Nat /\ Len(t) \in Nat /\ Len(s) <= Len(t)
      /\ \A k \in 1..Len(s) : s[k] = t[Len(t) - Len(s) + k]
  BY DEF EndsWith
<1> DEFINE r == Reverse(s)
           u == Reverse(t)
<1>2. /\ r \in Seq(S) /\ Len(r) = Len(s) /\ \A k \in 1..Len(s) : r[k] = s[(Len(s) - k) + 1]
      /\ u \in Seq(S) /\ Len(u) = Len(t) /\ \A k \in 1..Len(t) : u[k] = t[(Len(t) - k) + 1]
  BY <1>1 DEF Reverse
<1>3. ASSUME NEW k \in 1..Len(s) PROVE r[k] = u[k]
  <2>1. (Len(s) - k) + 1 \in 1..Len(s) /\ k \in 1..Len(t)
        /\ Len(t) - Len(s) + ((Len(s) - k) + 1) = (Len(t) - k) + 1
    BY <1>1
  <2>2. r[k] = s[(Len(s) - k) + 1] /\ u[k] = t[(Len(t) - k) + 1]
    BY <1>2, <2>1
  <2>3. s[(Len(s) - k) + 1] = t[Len(t) - Len(s) + ((Len(s) - k) + 1)]
    BY <1>1, <2>1
  <2> QED BY <2>1, <2>2, <2>3
<1> HIDE DEF r, u
<1>4. SubSeq(r, 1, Len(r)) = SubSeq(u, 1, Len(r))
  BY <1>1, <1>2, <1>3
<1>5. Len(r) <= Len(u)
  BY <1>1, <1>2
<1> QED BY <1>4, <1>5 DEF IsSuffix, IsPrefix, r, u

\* r is s with t after it.
IsConcat(r, s, t) ==
    /\ Len(s) \in Nat /\ Len(t) \in Nat /\ Len(r) = Len(s) + Len(t)
    /\ \A n \in 1..Len(s) : r[n] = s[n]
    /\ \A n \in 1..Len(t) : r[Len(s) + n] = t[n]

LEMMA ConcatIs ==
    ASSUME NEW S, NEW s \in Seq(S), NEW t \in Seq(S)
    PROVE  s \o t \in Seq(S) /\ IsConcat(s \o t, s, t)
BY DEF IsConcat

LEMMA LeastIs ==
    ASSUME NEW T \in SUBSET Nat, NEW m \in T, \A t \in T : m <= t
    PROVE  Min(T) = m
<1>1. Min(T) = CHOOSE x : x \in T /\ \A y \in T : x <= y
  BY Zenon DEF Min
<1>2. \A x : x \in T /\ (\A y \in T : x <= y) => x = m
  OBVIOUS
<1> QED BY <1>1, <1>2

-----------------------------------------------------------------------------
(* Names between quotes                                                     *)

Colon == ":"
EndMarks == {",", "}"}
StartMarks == {"{", ","}
Marks == {Q, Colon, " "} \cup EndMarks \cup StartMarks

\* No mark is another one (the provers take a mark as a word).
LEMMA MarksDiffer ==
    /\ Colon # Q /\ Q \notin EndMarks /\ Q \notin StartMarks /\ Colon \notin EndMarks
    /\ Q # " " /\ {Q, Colon} \cup EndMarks \cup StartMarks \subseteq Marks
BY Zenon DEF Colon, Q, EndMarks, StartMarks, Marks

\* u, in quotes, is in t at place n.
Occurs(t, u, n) ==
    /\ n + Len(u) + 1 <= Len(t)
    /\ t[n] = Q /\ t[n + Len(u) + 1] = Q
    /\ \A j \in 1..Len(u) : t[n + j] = u[j]

LEMMA QuoteIs ==
    ASSUME NEW S, Q \in S, NEW s \in Seq(S)
    PROVE  /\ Quote(s) \in Seq(S) /\ Len(Quote(s)) = Len(s) + 2
           /\ Quote(s)[1] = Q /\ Quote(s)[Len(s) + 2] = Q
           /\ \A j \in 1..Len(s) : Quote(s)[j + 1] = s[j]
<1> DEFINE h == <<Q>>
           m == <<Q>> \o s
<1>1. h \in Seq(S) /\ Len(h) = 1 /\ h[1] = Q
  OBVIOUS
<1>2. /\ m \in Seq(S) /\ Len(m) = Len(s) + 1 /\ m[1] = Q /\ Len(s) \in Nat
      /\ \A j \in 1..Len(s) : m[j + 1] = s[j]
  <2> HIDE DEF h
  <2>1. m = h \o s
    BY DEF h
  <2> HIDE DEF m
  <2>2. m \in Seq(S) /\ IsConcat(m, h, s)
    BY <1>1, <2>1, ConcatIs, Zenon
  <2> QED BY <1>1, <2>2 DEF IsConcat
<1>3. Quote(s) = m \o h
  BY DEF Quote
<1> HIDE DEF h, m
<1> DEFINE q == m \o h
<1>4. q \in Seq(S) /\ IsConcat(q, m, h)
  BY <1>1, <1>2, ConcatIs, Zenon
<1> HIDE DEF q
<1>5. q[1] = Q /\ \A j \in 1..Len(s) : q[j + 1] = s[j]
  BY <1>2, <1>4 DEF IsConcat
<1>6. q[Len(s) + 2] = Q /\ Len(q) = Len(s) + 2
  <2>1. q[Len(m) + 1] = h[1] /\ Len(m) + 1 = Len(s) + 2 /\ Len(q) = Len(m) + 1
    BY <1>1, <1>2, <1>4 DEF IsConcat
  <2> QED BY <1>1, <2>1
<1>7. Quote(s) = q
  BY <1>3 DEF q
<1> QED BY <1>4, <1>5, <1>6, <1>7

LEMMA OccursIs ==
    ASSUME NEW S, Q \in S, NEW t \in Seq(S), NEW u \in Seq(S), NEW n \in 1..Len(t)
    PROVE  IsPrefix(Quote(u), SubSeq(t, n, Len(t))) <=> Occurs(t, u, n)
<1> DEFINE q == Quote(u)
           r == SubSeq(t, n, Len(t))
<1>1. /\ q \in Seq(S) /\ Len(q) = Len(u) + 2 /\ q[1] = Q /\ q[Len(u) + 2] = Q
      /\ \A j \in 1..Len(u) : q[j + 1] = u[j]
  BY QuoteIs, Zenon
<1>2. /\ r \in Seq(S) /\ Len(r) = Len(t) - n + 1
      /\ \A j \in 1..(Len(t) - n + 1) : r[j] = t[n + j - 1]
  OBVIOUS
<1>3. IsPrefix(q, r) <=> BeginsWith(r, q)
  BY <1>1, <1>2, PrefixIs, Zenon
<1> HIDE DEF q, r
<1>4. Len(u) \in Nat /\ Len(t) \in Nat /\ n \in Nat
  OBVIOUS
<1>5. BeginsWith(r, q) => Occurs(t, u, n)
  <2> SUFFICES ASSUME BeginsWith(r, q) PROVE Occurs(t, u, n)
    OBVIOUS
  <2>1. Len(u) + 2 <= Len(t) - n + 1 /\ \A j \in 1..(Len(u) + 2) : q[j] = t[n + j - 1]
    <3>1. Len(q) <= Len(r) /\ \A j \in 1..Len(q) : q[j] = r[j]
      BY DEF BeginsWith
    <3>2. Len(u) + 2 <= Len(t) - n + 1
      BY <1>1, <1>2, <3>1
    <3>3. \A j \in 1..(Len(u) + 2) : j \in 1..(Len(t) - n + 1)
      BY <1>4, <3>2
    <3> QED BY <1>1, <1>2, <3>1, <3>2, <3>3
  <2>2. t[n] = Q
    <3>1. q[1] = t[n + 1 - 1] /\ n + 1 - 1 = n
      BY <1>4, <2>1
    <3> QED BY <1>1, <3>1
  <2>3. t[n + Len(u) + 1] = Q
    <3>1. q[Len(u) + 2] = t[n + (Len(u) + 2) - 1] /\ n + (Len(u) + 2) - 1 = n + Len(u) + 1
      BY <1>4, <2>1
    <3> QED BY <1>1, <3>1
  <2>4. ASSUME NEW j \in 1..Len(u) PROVE t[n + j] = u[j]
    <3>1. q[j + 1] = t[n + (j + 1) - 1] /\ n + (j + 1) - 1 = n + j
      <4>1. j + 1 \in 1..(Len(u) + 2) /\ n + (j + 1) - 1 = n + j
        BY <1>4, <2>4
      <4> QED BY <2>1, <4>1
    <3> QED BY <1>1, <2>4, <3>1
  <2> QED BY <1>4, <2>1, <2>2, <2>3, <2>4 DEF Occurs
<1>6. Occurs(t, u, n) => BeginsWith(r, q)
  <2> SUFFICES ASSUME Occurs(t, u, n), NEW j \in 1..(Len(u) + 2) PROVE q[j] = r[j]
    BY <1>1, <1>2, <1>4 DEF Occurs, BeginsWith
  <2>1. r[j] = t[n + j - 1]
    BY <1>2, <1>4 DEF Occurs
  <2>2. CASE j = 1
    <3>1. n + j - 1 = n
      BY <1>4, <2>2
    <3> QED BY <1>1, <2>1, <2>2, <3>1 DEF Occurs
  <2>3. CASE j = Len(u) + 2
    <3>1. n + j - 1 = n + Len(u) + 1
      BY <1>4, <2>3
    <3> QED BY <1>1, <2>1, <2>3, <3>1 DEF Occurs
  <2>4. CASE j # 1 /\ j # Len(u) + 2
    <3>1. j - 1 \in 1..Len(u) /\ n + j - 1 = n + (j - 1) /\ (j - 1) + 1 = j
      BY <1>4, <2>4
    <3>2. q[(j - 1) + 1] = u[j - 1] /\ t[n + (j - 1)] = u[j - 1]
      BY <1>1, <3>1 DEF Occurs
    <3> QED BY <2>1, <3>1, <3>2
  <2> QED BY <2>2, <2>3, <2>4
<1>7. IsPrefix(q, r) <=> Occurs(t, u, n)
  BY <1>3, <1>5, <1>6
<1> QED BY <1>7 DEF q, r

Same(u, s) == Len(u) = Len(s) /\ \A j \in 1..Len(u) : u[j] = s[j]
NoQuote(u) == Len(u) \in Nat /\ \A j \in 1..Len(u) : u[j] # Q
EndsQuoted(t, n, u) == t[n + Len(u) + 1] = Q /\ \A j \in 1..Len(u) : t[n + j] = u[j]

\* A word sequence with no quote in it is between quotes only where they are its
\* own.
LEMMA SameBetweenQuotes ==
    ASSUME NEW t, NEW n \in Nat, NEW u, NEW s, NoQuote(u), NoQuote(s),
           EndsQuoted(t, n, u), EndsQuoted(t, n, s)
    PROVE  Same(u, s)
<1> USE DEF NoQuote, EndsQuoted, Same
<1>1. ~(Len(u) < Len(s))
  <2> SUFFICES ASSUME Len(u) < Len(s) PROVE FALSE
    OBVIOUS
  <2>1. Len(u) + 1 \in 1..Len(s) /\ n + (Len(u) + 1) = n + Len(u) + 1
    OBVIOUS
  <2> QED BY <2>1
<1>2. ~(Len(s) < Len(u))
  <2> SUFFICES ASSUME Len(s) < Len(u) PROVE FALSE
    OBVIOUS
  <2>1. Len(s) + 1 \in 1..Len(u) /\ n + (Len(s) + 1) = n + Len(s) + 1
    OBVIOUS
  <2> QED BY <2>1
<1> QED BY <1>1, <1>2

-----------------------------------------------------------------------------
(* The text of a form                                                       *)

\* The pair with the name s and the printed value v is in t after place a.
PairAt(t, a, s, v) ==
    /\ Len(s) \in Nat /\ Len(v) \in Nat /\ a + Len(s) + 3 + Len(v) <= Len(t)
    /\ t[a + 1] = Q /\ t[a + Len(s) + 2] = Q /\ t[a + Len(s) + 3] = Colon
    /\ \A j \in 1..Len(s) : t[a + 1 + j] = s[j]
    /\ \A j \in 1..Len(v) : t[a + Len(s) + 3 + j] = v[j]

LEMMA PairIs ==
    ASSUME NEW S, Marks \subseteq S, NEW key, Spelled(key) \in Seq(S), NEW v \in Seq(S)
    PROVE  /\ Pair(key, v) \in Seq(S) /\ Len(Pair(key, v)) = Len(Spelled(key)) + 3 + Len(v)
           /\ PairAt(Pair(key, v), 0, Spelled(key), v)
<1> DEFINE s == Spelled(key)
           q == Quote(s)
           c == <<Colon>>
           m == q \o c
           p == m \o v
<1>1. Q \in S /\ Colon \in S
  BY MarksDiffer
<1>2. /\ q \in Seq(S) /\ Len(q) = Len(s) + 2 /\ q[1] = Q /\ q[Len(s) + 2] = Q
      /\ \A j \in 1..Len(s) : q[j + 1] = s[j]
  BY <1>1, QuoteIs, Zenon
<1>3. c \in Seq(S) /\ Len(c) = 1 /\ c[1] = Colon
  BY <1>1
<1>4. Pair(key, v) = p /\ s \in Seq(S) /\ Len(s) \in Nat /\ Len(v) \in Nat
  <2> QED BY DEF Pair, Colon
<1> HIDE DEF s, q, c
<1>5. m \in Seq(S) /\ IsConcat(m, q, c)
  BY <1>2, <1>3, ConcatIs, Zenon
<1> HIDE DEF m
<1>6. p \in Seq(S) /\ IsConcat(p, m, v)
  BY <1>5, ConcatIs, Zenon
<1> HIDE DEF p
<1>7. Len(m) = Len(s) + 3 /\ Len(p) = Len(s) + 3 + Len(v)
  BY <1>2, <1>3, <1>4, <1>5, <1>6 DEF IsConcat
<1>8. \A j \in 1..(Len(s) + 2) : p[j] = q[j]
  <2> SUFFICES ASSUME NEW j \in 1..(Len(s) + 2) PROVE p[j] = q[j]
    OBVIOUS
  <2>1. j \in 1..Len(q) /\ j \in 1..Len(m)
    BY <1>2, <1>4, <1>7
  <2> QED BY <1>5, <1>6, <2>1 DEF IsConcat
<1>9. p[Len(s) + 3] = Colon
  <2>1. Len(s) + 3 \in 1..Len(m) /\ Len(q) + 1 = Len(s) + 3 /\ 1 \in 1..Len(c)
    BY <1>2, <1>3, <1>4, <1>7
  <2>2. p[Len(s) + 3] = m[Len(s) + 3] /\ m[Len(q) + 1] = c[1]
    BY <1>5, <1>6, <2>1 DEF IsConcat
  <2> QED BY <1>3, <2>1, <2>2
<1>10. \A j \in 1..Len(v) : p[Len(s) + 3 + j] = v[j]
  BY <1>6, <1>7 DEF IsConcat
<1>11. PairAt(p, 0, s, v)
  <2>1. p[1] = Q /\ p[Len(s) + 2] = Q
    BY <1>2, <1>4, <1>8
  <2>2. \A j \in 1..Len(s) : p[j + 1] = s[j]
    <3> SUFFICES ASSUME NEW j \in 1..Len(s) PROVE p[j + 1] = s[j]
      OBVIOUS
    <3>1. j + 1 \in 1..(Len(s) + 2)
      BY <1>4
    <3> QED BY <1>2, <1>8, <3>1
  <2>3. /\ 0 + 1 = 1 /\ 0 + Len(s) + 2 = Len(s) + 2 /\ 0 + Len(s) + 3 = Len(s) + 3
        /\ \A j \in 1..Len(s) : 0 + 1 + j = j + 1
        /\ \A j \in 1..Len(v) : 0 + Len(s) + 3 + j = Len(s) + 3 + j
    BY <1>4
  <2> HIDE DEF Q
  <2>4. 0 + Len(s) + 3 + Len(v) <= Len(p)
    BY <1>4, <1>7
  <2>5. p[0 + 1] = Q /\ p[0 + Len(s) + 2] = Q /\ p[0 + Len(s) + 3] = Colon
    BY <1>9, <2>1, <2>3
  <2>6. \A j \in 1..Len(s) : p[0 + 1 + j] = s[j]
    BY <2>2, <2>3
  <2>7. \A j \in 1..Len(v) : p[0 + Len(s) + 3 + j] = v[j]
    BY <1>10, <2>3
  <2> QED BY <1>4, <2>4, <2>5, <2>6, <2>7 DEF PairAt
<1> QED BY <1>4, <1>6, <1>7, <1>11 DEF s

\* t with a pair and a mark after it.
Extends(r, t, s, v, mark) ==
    /\ Len(r) = Len(t) + Len(s) + 3 + Len(v) + 1
    /\ BeginsWith(r, t) /\ PairAt(r, Len(t), s, v) /\ r[Len(r)] = mark

LEMMA ExtendsIs ==
    ASSUME NEW S, Marks \subseteq S, NEW t \in Seq(S), NEW key, Spelled(key) \in Seq(S),
           NEW v \in Seq(S), NEW mark \in Marks
    PROVE  /\ t \o Pair(key, v) \o <<mark>> \in Seq(S)
           /\ Extends(t \o Pair(key, v) \o <<mark>>, t, Spelled(key), v, mark)
<1> DEFINE s == Spelled(key)
           p == Pair(key, v)
           m == t \o p
           c == <<mark>>
           r == m \o c
<1>1. p \in Seq(S) /\ Len(p) = Len(s) + 3 + Len(v) /\ PairAt(p, 0, s, v)
  BY PairIs, Zenon
<1>2. c \in Seq(S) /\ Len(c) = 1 /\ c[1] = mark
  OBVIOUS
<1>3. Len(s) \in Nat /\ Len(v) \in Nat /\ Len(t) \in Nat
  OBVIOUS
<1> HIDE DEF s, p, c
<1>4. m \in Seq(S) /\ IsConcat(m, t, p)
  BY <1>1, ConcatIs, Zenon
<1> HIDE DEF m
<1>5. r \in Seq(S) /\ IsConcat(r, m, c)
  BY <1>2, <1>4, ConcatIs, Zenon
<1> HIDE DEF r
<1>6. Len(m) = Len(t) + Len(p) /\ Len(r) = Len(t) + Len(s) + 3 + Len(v) + 1 /\ Len(r) = Len(m) + 1
  BY <1>1, <1>2, <1>3, <1>4, <1>5 DEF IsConcat
<1>7. \A j \in 1..Len(p) : r[Len(t) + j] = p[j]
  <2> SUFFICES ASSUME NEW j \in 1..Len(p) PROVE r[Len(t) + j] = p[j]
    OBVIOUS
  <2>1. Len(t) + j \in 1..Len(m)
    BY <1>1, <1>3, <1>6
  <2> QED BY <1>4, <1>5, <2>1 DEF IsConcat
<1>8. BeginsWith(r, t)
  <2>1. \A j \in 1..Len(t) : j \in 1..Len(m)
    BY <1>1, <1>3, <1>6
  <2> QED BY <1>1, <1>3, <1>4, <1>5, <1>6, <2>1 DEF IsConcat, BeginsWith
<1>9. r[Len(r)] = mark
  BY <1>2, <1>3, <1>5, <1>6 DEF IsConcat
<1>10. PairAt(r, Len(t), s, v)
  <2> DEFINE a == Len(t)
  <2>1. /\ p[0 + 1] = Q /\ p[0 + Len(s) + 2] = Q /\ p[0 + Len(s) + 3] = Colon
        /\ \A j \in 1..Len(s) : p[0 + 1 + j] = s[j]
        /\ \A j \in 1..Len(v) : p[0 + Len(s) + 3 + j] = v[j]
    BY <1>1 DEF PairAt
  <2>2. r[a + 1] = Q
    <3>1. 1 \in 1..Len(p) /\ 0 + 1 = 1
      BY <1>1, <1>3
    <3> QED BY <1>7, <2>1, <3>1
  <2>3. r[a + Len(s) + 2] = Q
    <3>1. Len(s) + 2 \in 1..Len(p) /\ 0 + Len(s) + 2 = Len(s) + 2 /\ a + (Len(s) + 2) = a + Len(s) + 2
      BY <1>1, <1>3
    <3> QED BY <1>7, <2>1, <3>1
  <2>4. r[a + Len(s) + 3] = Colon
    <3>1. Len(s) + 3 \in 1..Len(p) /\ 0 + Len(s) + 3 = Len(s) + 3 /\ a + (Len(s) + 3) = a + Len(s) + 3
      BY <1>1, <1>3
    <3> QED BY <1>7, <2>1, <3>1
  <2>5. ASSUME NEW j \in 1..Len(s) PROVE r[a + 1 + j] = s[j]
    <3>1. 1 + j \in 1..Len(p) /\ 0 + 1 + j = 1 + j /\ a + (1 + j) = a + 1 + j
      BY <1>1, <1>3, <2>5
    <3> QED BY <1>7, <2>1, <2>5, <3>1
  <2>6. ASSUME NEW j \in 1..Len(v) PROVE r[a + Len(s) + 3 + j] = v[j]
    <3>1. /\ Len(s) + 3 + j \in 1..Len(p) /\ 0 + Len(s) + 3 + j = Len(s) + 3 + j
          /\ a + (Len(s) + 3 + j) = a + Len(s) + 3 + j
      BY <1>1, <1>3, <2>6
    <3> QED BY <1>7, <2>1, <2>6, <3>1
  <2>7. a + Len(s) + 3 + Len(v) <= Len(r)
    BY <1>3, <1>6
  <2> HIDE DEF a, Q
  <2> QED BY <1>3, <2>2, <2>3, <2>4, <2>5, <2>6, <2>7 DEF PairAt, a
<1>11. Extends(r, t, s, v, mark)
  BY <1>6, <1>8, <1>9, <1>10 DEF Extends
<1> QED BY <1>5, <1>11 DEF r, m, c, p, s

-----------------------------------------------------------------------------
(* A name is found at its own pair first                                    *)

IsName(u) == Len(u) \in Nat \ {0} /\ \A j \in 1..Len(u) : u[j] \notin Marks
Quiet(t, u) == \A n \in 1..Len(t) : ~Occurs(t, u, n)

\* v is w as it is printed.
Quotes(v, w) ==
    /\ Len(w) \in Nat /\ Len(v) = Len(w) + 2 /\ v[1] = Q /\ v[Len(w) + 2] = Q
    /\ \A j \in 1..Len(w) : v[j + 1] = w[j] /\ w[j] # Q

\* A printed value that is not the name u in quotes.
IsValue(v) == \/ Len(v) = 1 /\ v[1] \notin Marks
              \/ \E w : Quotes(v, w)
Differs(v, u) == \A w : Quotes(v, w) => ~Same(u, w)

\* A name that is not in t is not across the mark at its end either.
LEMMA QuietBefore ==
    ASSUME NEW t, NEW r, BeginsWith(r, t), Len(t) \in Nat \ {0}, t[Len(t)] \in StartMarks,
           NEW u, IsName(u), Quiet(t, u), NEW n \in 1..Len(t)
    PROVE  ~Occurs(r, u, n)
<1> SUFFICES ASSUME Occurs(r, u, n) PROVE FALSE
  OBVIOUS
<1> DEFINE a == Len(t)
<1>1. Len(u) \in Nat \ {0} /\ a \in Nat \ {0} /\ n \in 1..a
  BY DEF IsName
<1>2. /\ \A j \in 1..a : r[j] = t[j]
      /\ r[n] = Q /\ r[n + Len(u) + 1] = Q /\ \A j \in 1..Len(u) : r[n + j] = u[j]
  BY DEF BeginsWith, Occurs
<1>3. \A j \in 1..Len(u) : u[j] \notin Marks
  BY DEF IsName
<1>4. t[a] \in Marks /\ t[a] # Q
  BY MarksDiffer
<1> HIDE DEF a
<1>5. CASE n + Len(u) + 1 <= a
  <2>1. /\ n \in 1..a /\ n + Len(u) + 1 \in 1..a
        /\ \A j \in 1..Len(u) : n + j \in 1..a
    BY <1>1, <1>5
  <2>2. t[n] = Q /\ t[n + Len(u) + 1] = Q /\ \A j \in 1..Len(u) : t[n + j] = u[j]
    BY <1>2, <2>1
  <2>3. Occurs(t, u, n)
    BY <1>5, <2>2 DEF Occurs, a
  <2> QED BY <2>1, <2>3 DEF Quiet, a
<1>6. CASE n = a
  <2>1. t[a] = r[n]
    BY <1>1, <1>2, <1>6
  <2> QED BY <1>2, <1>4, <2>1
<1>7. CASE n < a /\ n + Len(u) + 1 > a
  <2>1. a - n \in 1..Len(u) /\ n + (a - n) = a /\ a \in 1..a
    BY <1>1, <1>7
  <2>2. u[a - n] = t[a]
    BY <1>2, <2>1
  <2> QED BY <1>3, <1>4, <2>1, <2>2
<1> QED BY <1>1, <1>5, <1>6, <1>7

LEMMA QuietStep ==
    ASSUME NEW t, NEW r, NEW s, NEW v, NEW mark \in EndMarks, Extends(r, t, s, v, mark),
           Len(t) \in Nat \ {0}, t[Len(t)] \in StartMarks,
           NEW u, IsName(u), IsName(s), ~Same(u, s), IsValue(v), Differs(v, u), Quiet(t, u)
    PROVE  Quiet(r, u)
<1> SUFFICES ASSUME NEW n \in 1..Len(r), Occurs(r, u, n) PROVE FALSE
  BY DEF Quiet
<1> DEFINE a == Len(t)
           b == a + Len(s) + 3
<1>1. /\ Len(s) \in Nat \ {0} /\ Len(v) \in Nat /\ a \in Nat \ {0} /\ Len(u) \in Nat \ {0}
      /\ Len(r) = b + Len(v) + 1 /\ n \in Nat
  <2>1. Len(s) \in Nat \ {0} /\ Len(u) \in Nat \ {0}
    BY DEF IsName
  <2>2. Len(v) \in Nat /\ Len(r) = b + Len(v) + 1
    BY DEF Extends, PairAt
  <2>3. Len(r) \in Nat
    BY <2>1, <2>2
  <2> QED BY <2>1, <2>2, <2>3
<1>2. /\ \A j \in 1..a : r[j] = t[j]
      /\ r[a + 1] = Q /\ r[a + Len(s) + 2] = Q /\ r[b] = Colon /\ r[Len(r)] = mark
      /\ \A j \in 1..Len(s) : r[a + 1 + j] = s[j]
      /\ \A j \in 1..Len(v) : r[b + j] = v[j]
  BY DEF Extends, PairAt, BeginsWith
<1>3. /\ n + Len(u) + 1 <= Len(r) /\ r[n] = Q /\ r[n + Len(u) + 1] = Q
      /\ \A j \in 1..Len(u) : r[n + j] = u[j]
  BY DEF Occurs
<1>4. /\ \A j \in 1..Len(u) : u[j] \notin Marks
      /\ \A j \in 1..Len(s) : s[j] \notin Marks
      /\ r[n + 1] \notin Marks
  BY <1>1, <1>3 DEF IsName
<1>5. \A j \in 1..Len(u) : u[j] # Q
  BY <1>4, MarksDiffer
<1>6. \A j \in 1..Len(s) : s[j] # Q
  BY <1>4, MarksDiffer
<1>7. /\ Colon # Q /\ mark # Q /\ mark \in Marks /\ Colon \in Marks /\ t[a] # Q
      /\ t[a] \in Marks /\ Q \in Marks
  BY MarksDiffer
<1> HIDE DEF a, b
<1>8. ~(n <= a)
  <2> SUFFICES ASSUME n <= a PROVE FALSE
    OBVIOUS
  <2>1. n \in 1..Len(t) /\ BeginsWith(r, t)
    BY <1>1 DEF Extends, a
  <2> QED BY <2>1, QuietBefore
<1>9. n # a + 1
  <2> SUFFICES ASSUME n = a + 1 PROVE FALSE
    OBVIOUS
  <2>1. r[n + Len(s) + 1] = Q
    <3>1. n + Len(s) + 1 = a + Len(s) + 2
      BY <1>1
    <3> QED BY <1>2, <3>1
  <2>2. \A j \in 1..Len(s) : r[n + j] = s[j]
    BY <1>2
  <2>3. NoQuote(u) /\ NoQuote(s) /\ EndsQuoted(r, n, u) /\ EndsQuoted(r, n, s)
    BY <1>1, <1>3, <1>5, <1>6, <2>1, <2>2 DEF NoQuote, EndsQuoted
  <2>4. Same(u, s)
    BY <1>1, <2>3, SameBetweenQuotes
  <2> QED BY <2>4
<1>10. ~(n > a + 1 /\ n <= a + 1 + Len(s))
  <2> SUFFICES ASSUME n > a + 1, n <= a + 1 + Len(s) PROVE FALSE
    OBVIOUS
  <2>1. n - a - 1 \in 1..Len(s) /\ a + 1 + (n - a - 1) = n
    BY <1>1
  <2>2. s[n - a - 1] = r[n]
    BY <1>2, <2>1
  <2> QED BY <1>3, <1>6, <2>1, <2>2
<1>11. n # a + Len(s) + 2
  <2> SUFFICES ASSUME n = a + Len(s) + 2 PROVE FALSE
    OBVIOUS
  <2>1. n + 1 = b
    BY <1>1 DEF b
  <2> QED BY <1>2, <1>4, <1>7, <2>1
<1>12. n # b
  BY <1>2, <1>3, <1>7
<1>13. n # Len(r)
  BY <1>2, <1>3, <1>7
<1>14. PICK k \in 1..Len(v) : n = b + k
  <2>1. n - b \in 1..Len(v) /\ n = b + (n - b)
    BY <1>1, <1>8, <1>9, <1>10, <1>11, <1>12, <1>13 DEF b
  <2> QED BY <2>1
<1>15. v[k] = Q
  BY <1>2, <1>3, <1>14
<1>16. PICK w : Quotes(v, w)
  <2>1. ~(Len(v) = 1 /\ v[1] \notin Marks)
    <3> SUFFICES ASSUME Len(v) = 1, v[1] \notin Marks PROVE FALSE
      OBVIOUS
    <3>1. k = 1
      BY <1>14
    <3> QED BY <1>7, <1>15, <3>1
  <2> QED BY <2>1 DEF IsValue
<1>17. ~Same(u, w)
  BY <1>16 DEF Differs
<1>18. /\ Len(w) \in Nat /\ Len(v) = Len(w) + 2 /\ v[1] = Q /\ v[Len(w) + 2] = Q
       /\ \A j \in 1..Len(w) : v[j + 1] = w[j]
       /\ \A j \in 1..Len(w) : w[j] # Q
  BY <1>16 DEF Quotes
<1>19. k = 1 \/ k = Len(w) + 2
  <2> SUFFICES ASSUME k # 1, k # Len(w) + 2 PROVE FALSE
    OBVIOUS
  <2>1. k - 1 \in 1..Len(w) /\ (k - 1) + 1 = k
    BY <1>14, <1>18
  <2> QED BY <1>15, <1>18, <2>1
<1>20. CASE k = 1
  <2>1. \A j \in 1..Len(w) : r[n + j] = w[j]
    <3> SUFFICES ASSUME NEW j \in 1..Len(w) PROVE r[n + j] = w[j]
      OBVIOUS
    <3>1. j + 1 \in 1..Len(v) /\ b + (j + 1) = n + j
      BY <1>1, <1>14, <1>18, <1>20 DEF b
    <3> QED BY <1>2, <1>18, <3>1, SMTT(30)
  <2>2. r[n + Len(w) + 1] = Q
    <3>1. Len(w) + 2 \in 1..Len(v) /\ b + (Len(w) + 2) = n + Len(w) + 1
      BY <1>1, <1>14, <1>18, <1>20 DEF b
    <3> QED BY <1>2, <1>18, <3>1
  <2>3. NoQuote(u) /\ NoQuote(w) /\ EndsQuoted(r, n, u) /\ EndsQuoted(r, n, w)
    BY <1>1, <1>3, <1>5, <1>18, <2>1, <2>2 DEF NoQuote, EndsQuoted
  <2>4. Same(u, w)
    BY <1>1, <2>3, SameBetweenQuotes
  <2> QED BY <1>17, <2>4
<1>21. CASE k = Len(w) + 2
  <2>1. n + 1 = Len(r)
    BY <1>1, <1>14, <1>18, <1>21 DEF b
  <2> QED BY <1>2, <1>4, <1>7, <2>1
<1> QED BY <1>19, <1>20, <1>21

\* The text as it grows, pair by pair.
Opener == <<"{">>
MarkAfter(n, keys) == IF n = Len(keys) THEN "}" ELSE ","
Grows(f, keys, printed) ==
    f = [n \in 0..Len(keys) |->
           IF n = 0 THEN Opener
           ELSE f[n - 1] \o Pair(keys[n], printed[keys[n]]) \o <<MarkAfter(n, keys)>>]
IsForm(keys, printed, S) ==
    /\ Marks \subseteq S /\ Len(keys) \in Nat
    /\ \A n \in 1..Len(keys) :
         Spelled(keys[n]) \in Seq(S) /\ printed[keys[n]] \in Seq(S)
Chain(f, keys, printed, S) ==
    /\ f[0] = Opener
    /\ \A n \in 0..Len(keys) : f[n] \in Seq(S)
    /\ \A n \in 1..Len(keys) :
         Extends(f[n], f[n - 1], Spelled(keys[n]), printed[keys[n]], MarkAfter(n, keys))

LEMMA MarkIs ==
    ASSUME NEW n, NEW keys
    PROVE  /\ MarkAfter(n, keys) \in EndMarks /\ MarkAfter(n, keys) \in Marks
           /\ n # Len(keys) => MarkAfter(n, keys) \in StartMarks
BY Zenon DEF MarkAfter, EndMarks, StartMarks, Marks

LEMMA OpenerIs ==
    ASSUME NEW S, Marks \subseteq S
    PROVE  Opener \in Seq(S) /\ Len(Opener) = 1 /\ Opener[1] \in StartMarks
<1>1. /\ Opener \in Seq({"{"}) /\ Len(Opener) = 1 /\ Opener[1] = "{"
  BY DEF Opener
<1>2. "{" \in StartMarks /\ "{" \in Marks
  BY Zenon DEF StartMarks, Marks
<1>3. ASSUME NEW b \in S PROVE <<b>> \in Seq(S)
  OBVIOUS
<1>4. Opener \in Seq(S)
  BY <1>2, <1>3, Zenon DEF Opener
<1> QED BY <1>1, <1>2, <1>4, Zenon

LEMMA GrowsChain ==
    ASSUME NEW S, NEW keys, NEW printed, IsForm(keys, printed, S), NEW f, Grows(f, keys, printed)
    PROVE  Chain(f, keys, printed, S)
<1>1. /\ Marks \subseteq S /\ Len(keys) \in Nat
      /\ \A n \in 1..Len(keys) : Spelled(keys[n]) \in Seq(S) /\ printed[keys[n]] \in Seq(S)
  BY DEF IsForm
<1>2. f[0] = Opener
  <2>1. 0 \in 0..Len(keys)
    BY <1>1
  <2> QED BY <2>1, Zenon DEF Grows
<1>3. f[0] \in Seq(S)
  BY <1>1, <1>2, OpenerIs, Zenon
<1>4. ASSUME NEW n \in 1..Len(keys)
      PROVE  f[n] = f[n - 1] \o Pair(keys[n], printed[keys[n]]) \o <<MarkAfter(n, keys)>>
  <2>1. n \in 0..Len(keys) /\ n # 0
    BY <1>1, <1>4
  <2> QED BY <2>1, Zenon DEF Grows
<1>5. ASSUME NEW n \in 1..Len(keys), f[n - 1] \in Seq(S)
      PROVE  /\ f[n] \in Seq(S)
             /\ Extends(f[n], f[n - 1], Spelled(keys[n]), printed[keys[n]], MarkAfter(n, keys))
  <2>1. MarkAfter(n, keys) \in Marks
    BY MarkIs
  <2>2. Spelled(keys[n]) \in Seq(S) /\ printed[keys[n]] \in Seq(S)
    BY <1>1, <1>5
  <2>3. f[n] = f[n - 1] \o Pair(keys[n], printed[keys[n]]) \o <<MarkAfter(n, keys)>>
    BY <1>4, <1>5
  <2>4. /\ f[n - 1] \o Pair(keys[n], printed[keys[n]]) \o <<MarkAfter(n, keys)>> \in Seq(S)
        /\ Extends(f[n - 1] \o Pair(keys[n], printed[keys[n]]) \o <<MarkAfter(n, keys)>>,
                   f[n - 1], Spelled(keys[n]), printed[keys[n]], MarkAfter(n, keys))
    BY <1>1, <1>5, <2>1, <2>2, ExtendsIs, Zenon
  <2> QED BY <2>3, <2>4, Zenon
<1> DEFINE T == {n \in Nat : n <= Len(keys) => f[n] \in Seq(S)}
<1>6. 0 \in T
  BY <1>3
<1>7. ASSUME NEW n \in Nat, n \in T PROVE n + 1 \in T
  <2>1. CASE n + 1 <= Len(keys)
    <3>1. n + 1 \in 1..Len(keys) /\ (n + 1) - 1 = n /\ f[n] \in Seq(S)
      BY <1>1, <1>7, <2>1
    <3>2. f[n + 1] \in Seq(S)
      BY <1>5, <3>1
    <3> QED BY <1>7, <3>2
  <2> QED BY <1>7, <2>1
<1>8. \A n \in Nat : n \in T
  <2> HIDE DEF T
  <2> QED BY <1>6, <1>7, Induction
<1>9. \A n \in 0..Len(keys) : f[n] \in Seq(S)
  BY <1>1, <1>8
<1>10. \A n \in 1..Len(keys) : n - 1 \in 0..Len(keys)
  BY <1>1
<1>11. \A n \in 1..Len(keys) :
         Extends(f[n], f[n - 1], Spelled(keys[n]), printed[keys[n]], MarkAfter(n, keys))
  BY <1>5, <1>9, <1>10, Zenon
<1> QED BY <1>2, <1>9, <1>11, Zenon DEF Chain

LEMMA GrowsExists ==
    ASSUME NEW S, NEW keys, NEW printed, IsForm(keys, printed, S)
    PROVE  \E f : Grows(f, keys, printed)
<1> DEFINE next(k, x) == x \o Pair(keys[k + 1], printed[keys[k + 1]])
                           \o <<MarkAfter(k + 1, keys)>>
           step == [k \in Nat |-> [x \in Seq(S) |-> IF k < Len(keys) THEN next(k, x) ELSE x]]
<1>1. /\ Marks \subseteq S /\ Len(keys) \in Nat
      /\ \A n \in 1..Len(keys) : Spelled(keys[n]) \in Seq(S) /\ printed[keys[n]] \in Seq(S)
  BY DEF IsForm
<1>2. ASSUME NEW k \in Nat, k < Len(keys), NEW x \in Seq(S) PROVE next(k, x) \in Seq(S)
  <2>1. k + 1 \in 1..Len(keys)
    BY <1>1, <1>2
  <2>2. Spelled(keys[k + 1]) \in Seq(S) /\ printed[keys[k + 1]] \in Seq(S)
    BY <1>1, <2>1
  <2>3. MarkAfter(k + 1, keys) \in Marks
    BY MarkIs
  <2> QED BY <1>1, <1>2, <2>2, <2>3, ExtendsIs, Zenon
<1> HIDE DEF next
<1>3. step \in [Nat -> [Seq(S) -> Seq(S)]]
  BY <1>2
<1>4. Opener \in Seq(S)
  BY <1>1, OpenerIs, Zenon
<1>5. \A k \in Nat, x \in Seq(S) : k < Len(keys) => step[k][x] = next(k, x)
  OBVIOUS
<1> HIDE DEF step
<1>6. PICK h \in [Nat -> Seq(S)] : RunsBy(h, Opener, step)
  BY <1>3, <1>4, Recursion, Zenon
<1> DEFINE f == [n \in 0..Len(keys) |-> h[n]]
<1>7. ASSUME NEW n \in 1..Len(keys)
      PROVE  f[n] = f[n - 1] \o Pair(keys[n], printed[keys[n]]) \o <<MarkAfter(n, keys)>>
  <2> Len(keys) \in Nat /\ n \in 1..Len(keys)
    BY <1>1, <1>7
  <2>1. n - 1 \in Nat /\ n - 1 < Len(keys) /\ (n - 1) + 1 = n
        /\ n - 1 \in 0..Len(keys) /\ n \in 0..Len(keys)
    BY SMTT(30)
  <2>2. h[n] = step[n - 1][h[n - 1]] /\ h[n - 1] \in Seq(S)
    BY <1>6, <2>1 DEF RunsBy
  <2>3. h[n] = next(n - 1, h[n - 1])
    BY <1>5, <2>1, <2>2
  <2> QED BY <2>1, <2>3, Zenon DEF next
<1>8. f[0] = Opener /\ \A n \in 0..Len(keys) : n = 0 \/ n \in 1..Len(keys)
  BY <1>1, <1>6 DEF RunsBy
<1>9. f = [n \in 0..Len(keys) |-> f[n]]
  OBVIOUS
<1> HIDE DEF f
<1>10. \A n \in 0..Len(keys) :
         f[n] = IF n = 0 THEN Opener
                ELSE f[n - 1] \o Pair(keys[n], printed[keys[n]]) \o <<MarkAfter(n, keys)>>
  BY <1>7, <1>8, Zenon
<1>11. Grows(f, keys, printed)
  BY <1>9, <1>10, Zenon DEF Grows
<1> QED BY <1>11

LEMMA StringifyIs ==
    ASSUME NEW S, NEW keys, NEW printed, IsForm(keys, printed, S)
    PROVE  \E f : Chain(f, keys, printed, S) /\ Stringify(keys, printed) = f[Len(keys)]
<1> DEFINE g == CHOOSE f : Grows(f, keys, printed)
<1>1. Grows(g, keys, printed)
  BY GrowsExists, Zenon
<1>2. Stringify(keys, printed) = g[Len(keys)]
  BY Zenon DEF Stringify, Grows, MarkAfter, Opener
<1> HIDE DEF g
<1>3. Chain(g, keys, printed, S)
  BY <1>1, GrowsChain, Zenon
<1> QED BY <1>2, <1>3

-----------------------------------------------------------------------------
(* The pair of a key in the text                                            *)

\* The first u in quotes in t is the name of a pair with the value v.
PairFound(t, a, u, v) ==
    /\ a \in Nat \ {0} /\ PairAt(t, a, u, v)
    /\ a + Len(u) + 3 + Len(v) + 1 <= Len(t)
    /\ t[a + Len(u) + 3 + Len(v) + 1] \in EndMarks
    /\ \A n \in 1..a : ~Occurs(t, u, n)

\* u is the name of the kth pair, and neither a name nor a value before it.
IsKey(u, k, keys, printed) ==
    /\ IsName(u)
    /\ \A n \in 1..(k - 1) :
         /\ IsName(Spelled(keys[n])) /\ ~Same(u, Spelled(keys[n]))
         /\ IsValue(printed[keys[n]]) /\ Differs(printed[keys[n]], u)

LEMMA BeginsOn ==
    ASSUME NEW r, NEW t, NEW s, BeginsWith(r, t), BeginsWith(t, s),
           Len(r) \in Nat, Len(t) \in Nat, Len(s) \in Nat
    PROVE  BeginsWith(r, s)
BY DEF BeginsWith

LEMMA ChainBegins ==
    ASSUME NEW S, NEW keys, NEW printed, NEW f, Len(keys) \in Nat,
           Chain(f, keys, printed, S), NEW k \in 1..Len(keys)
    PROVE  BeginsWith(f[Len(keys)], f[k])
<1> DEFINE T == {n \in Nat : k + n <= Len(keys) => BeginsWith(f[k + n], f[k])}
<1>1. \A n \in 0..Len(keys) : f[n] \in Seq(S)
  BY DEF Chain
<1>2. \A n \in 1..Len(keys) : BeginsWith(f[n], f[n - 1])
  BY DEF Chain, Extends
<1>3. k \in Nat
  OBVIOUS
<1>4. 0 \in T
  <2>1. k + 0 = k /\ f[k] \in Seq(S)
    BY <1>1
  <2>2. BeginsWith(f[k], f[k])
    BY <2>1 DEF BeginsWith
  <2> QED BY <2>1, <2>2
<1>5. ASSUME NEW n \in Nat, n \in T PROVE n + 1 \in T
  <2> SUFFICES ASSUME k + (n + 1) <= Len(keys) PROVE BeginsWith(f[k + (n + 1)], f[k])
    BY <1>5
  <2>1. /\ k + n <= Len(keys) /\ k + (n + 1) \in 1..Len(keys) /\ (k + (n + 1)) - 1 = k + n
        /\ k + n \in 0..Len(keys) /\ k + (n + 1) \in 0..Len(keys) /\ k \in 0..Len(keys)
    BY <1>3, <1>5
  <2>2. BeginsWith(f[k + n], f[k]) /\ BeginsWith(f[k + (n + 1)], f[k + n])
    BY <1>2, <1>5, <2>1
  <2>3. Len(f[k]) \in Nat /\ Len(f[k + n]) \in Nat /\ Len(f[k + (n + 1)]) \in Nat
    <3>1. f[k] \in Seq(S) /\ f[k + n] \in Seq(S) /\ f[k + (n + 1)] \in Seq(S)
      BY <1>1, <2>1
    <3> QED BY <3>1
  <2> QED BY <2>2, <2>3, BeginsOn, Zenon
<1>6. Len(keys) - k \in Nat /\ k + (Len(keys) - k) = Len(keys)
  BY <1>3
<1>7. Len(keys) - k \in T
  <2> HIDE DEF T
  <2> QED BY <1>4, <1>5, <1>6, Induction
<1> QED BY <1>6, <1>7

LEMMA ChainQuiet ==
    ASSUME NEW S, NEW keys, NEW printed, NEW f, Len(keys) \in Nat, Marks \subseteq S,
           Chain(f, keys, printed, S), NEW k \in 1..Len(keys), NEW u,
           IsKey(u, k, keys, printed)
    PROVE  /\ Quiet(f[k - 1], u) /\ Len(f[k - 1]) \in Nat \ {0}
           /\ f[k - 1][Len(f[k - 1])] \in StartMarks
<1> DEFINE P(n) == /\ Quiet(f[n], u) /\ Len(f[n]) \in Nat \ {0}
                   /\ f[n][Len(f[n])] \in StartMarks
           T == {n \in Nat : n <= k - 1 => P(n)}
<1>1. /\ f[0] = Opener /\ \A n \in 0..Len(keys) : f[n] \in Seq(S)
  BY DEF Chain
<1>2. \A n \in 1..Len(keys) :
        Extends(f[n], f[n - 1], Spelled(keys[n]), printed[keys[n]], MarkAfter(n, keys))
  BY DEF Chain
<1>3. k \in Nat
  OBVIOUS
<1>4. 0 \in T
  <2>1. Len(f[0]) = 1 /\ f[0][1] \in StartMarks
    BY <1>1, OpenerIs, Zenon
  <2>2. Quiet(f[0], u)
    BY <2>1 DEF Quiet, Occurs, IsKey, IsName
  <2> QED BY <2>1, <2>2
<1>5. ASSUME NEW n \in Nat, n \in T PROVE n + 1 \in T
  <2> SUFFICES ASSUME n + 1 <= k - 1 PROVE P(n + 1)
    BY <1>5
  <2>1. /\ n + 1 \in 1..Len(keys) /\ n + 1 \in 1..(k - 1) /\ (n + 1) - 1 = n
        /\ n + 1 # Len(keys) /\ n + 1 \in 0..Len(keys) /\ n <= k - 1
    BY <1>3, <1>5
  <2>2. Extends(f[n + 1], f[n], Spelled(keys[n + 1]), printed[keys[n + 1]],
                MarkAfter(n + 1, keys))
    BY <1>2, <2>1
  <2>3. MarkAfter(n + 1, keys) \in EndMarks /\ MarkAfter(n + 1, keys) \in StartMarks
    BY <2>1, MarkIs
  <2>4. Quiet(f[n], u) /\ Len(f[n]) \in Nat \ {0} /\ f[n][Len(f[n])] \in StartMarks
    BY <1>5, <2>1
  <2>5. /\ IsName(u) /\ IsName(Spelled(keys[n + 1])) /\ ~Same(u, Spelled(keys[n + 1]))
        /\ IsValue(printed[keys[n + 1]]) /\ Differs(printed[keys[n + 1]], u)
    BY <2>1 DEF IsKey
  <2>6. Quiet(f[n + 1], u)
    BY <2>2, <2>3, <2>4, <2>5, QuietStep
  <2>7. f[n + 1][Len(f[n + 1])] = MarkAfter(n + 1, keys)
    BY <2>2 DEF Extends
  <2>8. Len(f[n + 1]) \in Nat \ {0}
    <3>1. /\ Len(f[n + 1]) = Len(f[n]) + Len(Spelled(keys[n + 1])) + 3
                               + Len(printed[keys[n + 1]]) + 1
          /\ Len(Spelled(keys[n + 1])) \in Nat /\ Len(printed[keys[n + 1]]) \in Nat
      BY <2>2 DEF Extends, PairAt
    <3>2. Len(f[n]) \in Nat
      BY <2>4
    <3>3. \A x, y, z \in Nat : x + y + 3 + z + 1 \in Nat \ {0}
      OBVIOUS
    <3> QED BY <3>1, <3>2, <3>3, Zenon
  <2> QED BY <2>3, <2>6, <2>7, <2>8
<1>6. k - 1 \in Nat
  BY <1>3
<1>7. k - 1 \in T
  <2> HIDE DEF T
  <2> QED BY <1>4, <1>5, <1>6, Induction
<1> QED BY <1>6, <1>7

LEMMA PairOn ==
    ASSUME NEW r, NEW t, NEW a \in Nat, NEW s, NEW v, BeginsWith(r, t), PairAt(t, a, s, v),
           Len(r) \in Nat, Len(t) \in Nat
    PROVE  PairAt(r, a, s, v)
<1>1. /\ Len(t) <= Len(r) /\ \A j \in 1..Len(t) : r[j] = t[j]
  BY DEF BeginsWith
<1>2. /\ Len(s) \in Nat /\ Len(v) \in Nat /\ a + Len(s) + 3 + Len(v) <= Len(t)
      /\ t[a + 1] = Q /\ t[a + Len(s) + 2] = Q /\ t[a + Len(s) + 3] = Colon
      /\ \A j \in 1..Len(s) : t[a + 1 + j] = s[j]
      /\ \A j \in 1..Len(v) : t[a + Len(s) + 3 + j] = v[j]
  BY DEF PairAt
<1>3. /\ a + 1 \in 1..Len(t) /\ a + Len(s) + 2 \in 1..Len(t) /\ a + Len(s) + 3 \in 1..Len(t)
      /\ \A j \in 1..Len(s) : a + 1 + j \in 1..Len(t)
      /\ \A j \in 1..Len(v) : a + Len(s) + 3 + j \in 1..Len(t)
  BY <1>2, SMTT(30)
<1>4. a + Len(s) + 3 + Len(v) <= Len(r)
  BY <1>1, <1>2
<1>5. r[a + 1] = Q /\ r[a + Len(s) + 2] = Q /\ r[a + Len(s) + 3] = Colon
  BY <1>1, <1>2, <1>3
<1>6. \A j \in 1..Len(s) : r[a + 1 + j] = s[j]
  BY <1>1, <1>2, <1>3
<1>7. \A j \in 1..Len(v) : r[a + Len(s) + 3 + j] = v[j]
  BY <1>1, <1>2, <1>3
<1> QED BY <1>2, <1>4, <1>5, <1>6, <1>7 DEF PairAt

LEMMA KeyFound ==
    ASSUME NEW S, NEW keys, NEW printed, IsForm(keys, printed, S), NEW k \in 1..Len(keys),
           IsKey(Spelled(keys[k]), k, keys, printed)
    PROVE  /\ Stringify(keys, printed) \in Seq(S)
           /\ \E a : PairFound(Stringify(keys, printed), a, Spelled(keys[k]), printed[keys[k]])
<1> DEFINE u == Spelled(keys[k])
           v == printed[keys[k]]
<1>1. Len(keys) \in Nat /\ Marks \subseteq S
  BY DEF IsForm
<1>2. PICK f : Chain(f, keys, printed, S) /\ Stringify(keys, printed) = f[Len(keys)]
  BY StringifyIs, Zenon
<1> DEFINE r == f[Len(keys)]
           t == f[k]
           o == f[k - 1]
           a == Len(o)
<1>3. BeginsWith(r, t)
  BY <1>1, <1>2, ChainBegins, Zenon
<1>4. Quiet(o, u) /\ a \in Nat \ {0} /\ o[a] \in StartMarks
  BY <1>1, <1>2, ChainQuiet, Zenon
<1>5. Extends(t, o, u, v, MarkAfter(k, keys))
  BY <1>2 DEF Chain
<1>6. r \in Seq(S) /\ t \in Seq(S)
  <2>1. k \in 0..Len(keys) /\ Len(keys) \in 0..Len(keys)
    BY <1>1
  <2> QED BY <1>2, <2>1 DEF Chain
<1>7. MarkAfter(k, keys) \in EndMarks /\ IsName(u)
  BY MarkIs DEF IsKey
<1> HIDE DEF r, t, o, a, u, v
<1>8. Len(r) \in Nat /\ Len(t) \in Nat
  BY <1>6
<1>9. /\ Len(t) = a + Len(u) + 3 + Len(v) + 1 /\ BeginsWith(t, o) /\ PairAt(t, a, u, v)
      /\ t[Len(t)] = MarkAfter(k, keys)
  BY <1>5 DEF Extends, a
<1>10. PairAt(r, a, u, v)
  BY <1>3, <1>4, <1>8, <1>9, PairOn
<1>11. a + Len(u) + 3 + Len(v) + 1 <= Len(r) /\ r[a + Len(u) + 3 + Len(v) + 1] \in EndMarks
  <2>1. Len(t) <= Len(r) /\ r[Len(t)] = t[Len(t)]
    <3>1. Len(t) \in 1..Len(t)
      <4>1. Len(u) \in Nat /\ Len(v) \in Nat
        BY <1>9 DEF PairAt
      <4> QED BY <1>4, <1>9, <4>1
    <3> QED BY <1>3, <3>1 DEF BeginsWith
  <2> QED BY <1>7, <1>9, <2>1
<1>12. BeginsWith(r, o)
  <2>1. Len(o) \in Nat
    BY <1>4 DEF a
  <2> QED BY <1>3, <1>8, <1>9, <2>1, BeginsOn, Zenon
<1>13. \A n \in 1..a : ~Occurs(r, u, n)
  BY <1>4, <1>7, <1>12, QuietBefore, Zenon DEF a
<1>14. PairFound(r, a, u, v)
  BY <1>4, <1>10, <1>11, <1>13 DEF PairFound
<1> QED BY <1>2, <1>6, <1>14 DEF r, u, v

-----------------------------------------------------------------------------
(* The value of a key in the text                                           *)

Space == " "

\* The places of ExtractValue.
KeysAt(t, key) == {n \in DOMAIN t : IsPrefix(QuotedKey(key), SubSeq(t, n, Len(t)))}
ColonsAt(t, key) == {n \in DOMAIN t : KeysAt(t, key) # {} /\ n > Min(KeysAt(t, key))
                                                          /\ t[n] = Colon}
StartsAt(t, key) == {n \in DOMAIN t : ColonsAt(t, key) # {} /\ n > Min(ColonsAt(t, key))
                                                            /\ t[n] # Space}
EndsAt(t, key) == {n \in DOMAIN t : /\ StartsAt(t, key) # {} /\ n >= Min(StartsAt(t, key))
                                    /\ t[n] \in EndMarks}
Sized(x, size) == IF CharsOf(x) >= size THEN <<>> ELSE <<x>>

LEMMA ExtractAt ==
    ASSUME NEW t, NEW key, NEW size, EndsAt(t, key) # {}
    PROVE  ExtractValue(t, key, size)
             = Sized(SubSeq(t, Min(StartsAt(t, key)), Min(EndsAt(t, key)) - 1), size)
BY Zenon DEF ExtractValue, EndsAt, StartsAt, ColonsAt, KeysAt, EndMarks, Colon, Space, Sized

\* v up to the first end mark in it, or all of it.
UpToEnd(v, m) == /\ m \in 0..Len(v) /\ (m < Len(v) => v[m + 1] \in EndMarks)
                 /\ \A j \in 1..m : v[j] \notin EndMarks
IsCut(x, v, size) == \E m : UpToEnd(v, m) /\ x = Sized(SubSeq(v, 1, m), size)

LEMMA ExtractIs ==
    ASSUME NEW S, Marks \subseteq S, NEW t \in Seq(S), NEW key, NEW v \in Seq(S), NEW a,
           Spelled(key) \in Seq(S), IsName(Spelled(key)), PairFound(t, a, Spelled(key), v),
           Len(v) > 0, v[1] # Space, NEW size
    PROVE  IsCut(ExtractValue(t, key, size), v, size)
<1> DEFINE u == Spelled(key)
           c == a + Len(u) + 3
<1>1. /\ a \in Nat \ {0} /\ Len(u) \in Nat \ {0} /\ Len(v) \in Nat /\ Len(t) \in Nat
      /\ c + Len(v) + 1 <= Len(t) /\ t[c + Len(v) + 1] \in EndMarks
      /\ \A n \in 1..a : ~Occurs(t, u, n)
  BY DEF PairFound, IsName
<1>2. /\ t[a + 1] = Q /\ t[a + Len(u) + 2] = Q /\ t[c] = Colon
      /\ \A j \in 1..Len(u) : t[a + 1 + j] = u[j]
      /\ \A j \in 1..Len(v) : t[c + j] = v[j]
  BY DEF PairFound, PairAt
<1>3. \A j \in 1..Len(u) : u[j] # Colon
  BY MarksDiffer DEF IsName
<1>4. Q # Colon /\ Q \in S
  BY MarksDiffer
<1>5. DOMAIN t = 1..Len(t)
  OBVIOUS
<1>6. \A n \in 1..Len(t) : n \in KeysAt(t, key) <=> Occurs(t, u, n)
  <2> SUFFICES ASSUME NEW n \in 1..Len(t) PROVE n \in KeysAt(t, key) <=> Occurs(t, u, n)
    OBVIOUS
  <2>1. IsPrefix(Quote(u), SubSeq(t, n, Len(t))) <=> Occurs(t, u, n)
    BY <1>4, OccursIs, Zenon
  <2> QED BY <1>5, <2>1, Zenon DEF KeysAt, QuotedKey
<1>7. KeysAt(t, key) \subseteq 1..Len(t)
  BY <1>5, Zenon DEF KeysAt
<1> HIDE DEF u
<1>8. c \in Nat /\ a + 1 \in 1..Len(t) /\ c \in 1..Len(t) /\ c + 1 \in 1..Len(t)
  BY <1>1
<1>9. Occurs(t, u, a + 1)
  <2>1. /\ (a + 1) + Len(u) + 1 <= Len(t) /\ (a + 1) + Len(u) + 1 = a + Len(u) + 2
        /\ \A j \in 1..Len(u) : (a + 1) + j = a + 1 + j
    BY <1>1
  <2> HIDE DEF c, Q
  <2> QED BY <1>2, <2>1 DEF Occurs
<1> HIDE DEF Q, Colon, Space, EndMarks
<1>10. Min(KeysAt(t, key)) = a + 1 /\ KeysAt(t, key) # {}
  <2>1. a + 1 \in KeysAt(t, key)
    BY <1>6, <1>8, <1>9
  <2>2. \A n \in KeysAt(t, key) : a + 1 <= n
    BY <1>1, <1>6, <1>7
  <2>3. KeysAt(t, key) \in SUBSET Nat
    BY <1>7
  <2> QED BY <2>1, <2>2, <2>3, LeastIs, Zenon
<1>11. \A n \in 1..Len(t) : n \in ColonsAt(t, key) <=> n > a + 1 /\ t[n] = Colon
  BY <1>5, <1>10, Zenon DEF ColonsAt
<1>12. ColonsAt(t, key) \subseteq 1..Len(t)
  BY <1>5, Zenon DEF ColonsAt
<1>13. Min(ColonsAt(t, key)) = c /\ ColonsAt(t, key) # {}
  <2>1. c \in ColonsAt(t, key)
    <3>1. c > a + 1
      BY <1>1
    <3> HIDE DEF c
    <3> QED BY <1>2, <1>8, <1>11, <3>1
  <2>2. ASSUME NEW n \in ColonsAt(t, key) PROVE c <= n
    <3>1. n \in 1..Len(t) /\ n > a + 1 /\ t[n] = Colon
      BY <1>11, <1>12, <2>2
    <3>2. CASE n \in (a + 2)..(a + Len(u) + 1)
      <4>1. PICK j \in 1..Len(u) : n = a + 1 + j
        <5>1. n - (a + 1) \in 1..Len(u) /\ n = a + 1 + (n - (a + 1))
          BY <1>1, <3>2
        <5> QED BY <5>1, Zenon
      <4>2. t[n] = u[j] /\ u[j] # Colon
        BY <1>2, <1>3, <4>1
      <4> QED BY <3>1, <4>2
    <3>3. CASE n = a + Len(u) + 2
      BY <1>2, <1>4, <3>1, <3>3
    <3> QED BY <1>1, <3>1, <3>2, <3>3, SMTT(30)
  <2>3. ColonsAt(t, key) \in SUBSET Nat
    BY <1>12
  <2> HIDE DEF c
  <2> QED BY <2>1, <2>2, <2>3, LeastIs, Zenon
<1> HIDE DEF c
<1>14. \A n \in 1..Len(t) : n \in StartsAt(t, key) <=> n > c /\ t[n] # Space
  BY <1>5, <1>13, Zenon DEF StartsAt
<1>15. StartsAt(t, key) \subseteq 1..Len(t)
  BY <1>5, Zenon DEF StartsAt
<1>16. Min(StartsAt(t, key)) = c + 1 /\ StartsAt(t, key) # {}
  <2>1. c + 1 \in StartsAt(t, key)
    <3>1. t[c + 1] = v[1]
      BY <1>1, <1>2
    <3> QED BY <1>8, <1>14, <3>1
  <2>2. \A n \in StartsAt(t, key) : c + 1 <= n
    BY <1>8, <1>14, <1>15
  <2>3. StartsAt(t, key) \in SUBSET Nat
    BY <1>15
  <2> QED BY <2>1, <2>2, <2>3, LeastIs, Zenon
<1>17. \A n \in 1..Len(t) : n \in EndsAt(t, key) <=> n >= c + 1 /\ t[n] \in EndMarks
  BY <1>5, <1>16, Zenon DEF EndsAt
<1>18. EndsAt(t, key) \in SUBSET Nat /\ EndsAt(t, key) \subseteq 1..Len(t)
  <2>1. EndsAt(t, key) \subseteq 1..Len(t)
    BY <1>5, Zenon DEF EndsAt
  <2> QED BY <2>1
<1>19. c + Len(v) + 1 \in EndsAt(t, key)
  BY <1>1, <1>8, <1>17
<1>20. PICK e \in EndsAt(t, key) : \A n \in EndsAt(t, key) : e <= n
  BY <1>18, <1>19, Least, Zenon
<1>21. Min(EndsAt(t, key)) = e
  BY <1>18, <1>20, LeastIs, Zenon
<1> DEFINE m == e - 1 - c
<1>22. /\ e \in 1..Len(t) /\ e \in Nat /\ e >= c + 1 /\ t[e] \in EndMarks
       /\ e <= c + Len(v) + 1 /\ m \in 0..Len(v)
  BY <1>1, <1>8, <1>17, <1>18, <1>19, <1>20, SMTT(30)
<1>23. UpToEnd(v, m)
  <2>1. ASSUME m < Len(v) PROVE v[m + 1] \in EndMarks
    <3>1. m + 1 \in 1..Len(v) /\ c + (m + 1) = e
      BY <1>1, <1>8, <1>22, <2>1
    <3> QED BY <1>2, <1>22, <3>1
  <2>2. ASSUME NEW j \in 1..m PROVE v[j] \notin EndMarks
    <3>1. j \in 1..Len(v) /\ c + j \in 1..Len(t) /\ c + j < e /\ c + j >= c + 1
      BY <1>1, <1>8, <1>22, <2>2
    <3>2. c + j \notin EndsAt(t, key)
      <4>1. c + j \in EndsAt(t, key) => e <= c + j
        BY <1>20
      <4>2. ~(e <= c + j)
        BY <1>8, <1>22, <3>1
      <4> QED BY <4>1, <4>2
    <3> QED BY <1>2, <1>17, <3>1, <3>2
  <2> QED BY <1>22, <2>1, <2>2 DEF UpToEnd
<1>24. SubSeq(t, c + 1, e - 1) = SubSeq(v, 1, m)
  <2>1. \A j \in 1..m : t[(c + 1) + j - 1] = v[1 + j - 1]
    <3> SUFFICES ASSUME NEW j \in 1..m PROVE t[(c + 1) + j - 1] = v[1 + j - 1]
      OBVIOUS
    <3>1. j \in 1..Len(v) /\ (c + 1) + j - 1 = c + j /\ 1 + j - 1 = j
      BY <1>1, <1>8, <1>22
    <3> QED BY <1>2, <3>1
  <2>2. SubSeq(v, 1, m) = [j \in 1..m |-> v[1 + j - 1]]
    BY <1>22
  <2>3. SubSeq(t, c + 1, e - 1) = [j \in 1..m |-> t[(c + 1) + j - 1]]
    BY <1>8, <1>22
  <2> HIDE DEF m
  <2> QED BY <2>1, <2>2, <2>3
<1>25. ExtractValue(t, key, size) = Sized(SubSeq(v, 1, m), size)
  <2>1. EndsAt(t, key) # {}
    BY <1>19
  <2>2. ExtractValue(t, key, size)
          = Sized(SubSeq(t, Min(StartsAt(t, key)), Min(EndsAt(t, key)) - 1), size)
    BY <2>1, ExtractAt, Zenon
  <2> HIDE DEF m
  <2> QED BY <1>16, <1>21, <1>24, <2>2, Zenon
<1> HIDE DEF m
<1> QED BY <1>23, <1>25, Zenon DEF IsCut

-----------------------------------------------------------------------------
(* The getters of numbers                                                   *)

LEMMA QuotedIs ==
    ASSUME NEW S, Q \in S, NEW w \in Seq(S)
    PROVE  IsString(Quote(w)) /\ Content(Quote(w)) = w
<1> DEFINE q == Quote(w)
<1>1. /\ q \in Seq(S) /\ Len(q) = Len(w) + 2 /\ q[1] = Q /\ q[Len(w) + 2] = Q
      /\ \A j \in 1..Len(w) : q[j + 1] = w[j]
  BY QuoteIs, Zenon
<1> HIDE DEF q
<1>2. Len(w) \in Nat
  OBVIOUS
<1>3. IsString(q)
  <2>1. Len(q) >= 2 /\ q[Len(q)] = q[Len(w) + 2]
    BY <1>1, <1>2
  <2> QED BY <1>1, <2>1 DEF IsString
<1>4. Content(q) = w
  <2>1. Content(q) = SubSeq(q, 2, Len(w) + 1)
    <3>1. Len(q) - 1 = Len(w) + 1
      BY <1>1, <1>2
    <3> QED BY <3>1, Zenon DEF Content
  <2>2. SubSeq(q, 2, Len(w) + 1) = [j \in 1..Len(w) |-> q[2 + j - 1]]
    BY <1>2
  <2>3. \A j \in 1..Len(w) : q[2 + j - 1] = w[j]
    <3>1. \A j \in 1..Len(w) : 2 + j - 1 = j + 1
      BY <1>2
    <3> QED BY <1>1, <3>1
  <2>4. w = [j \in 1..Len(w) |-> w[j]]
    BY <1>2
  <2> QED BY <2>1, <2>2, <2>3, <2>4
<1> QED BY <1>3, <1>4 DEF q

\* The value of a key, up to the first mark in it that ends a value.
LEMMA KeyValue ==
    ASSUME NEW S, NEW keys, NEW printed, IsForm(keys, printed, S), NEW k \in 1..Len(keys),
           IsKey(Spelled(keys[k]), k, keys, printed),
           NEW v \in Seq(S), printed[keys[k]] = v, Len(v) > 0, v[1] # Space, NEW size
    PROVE  IsCut(ExtractValue(Stringify(keys, printed), keys[k], size), v, size)
<1> DEFINE t == Stringify(keys, printed)
           u == Spelled(keys[k])
<1>1. Marks \subseteq S /\ u \in Seq(S) /\ IsName(u)
  BY DEF IsForm, IsKey
<1>2. t \in Seq(S) /\ \E a : PairFound(t, a, u, v)
  BY KeyFound, Zenon
<1>3. PICK a : PairFound(t, a, u, v)
  BY <1>2
<1> HIDE DEF t
<1> QED BY <1>1, <1>2, <1>3, ExtractIs, Zenon DEF t

\* A value in quotes with no such mark in it comes out whole.
NoEnd(w) == \A j \in 1..Len(w) : w[j] \notin EndMarks

LEMMA WholeIs ==
    ASSUME NEW S, NEW v \in Seq(S), NoEnd(v), NEW x, NEW size, IsCut(x, v, size)
    PROVE  x = Sized(v, size)
<1> PICK m : UpToEnd(v, m) /\ x = Sized(SubSeq(v, 1, m), size)
  BY Zenon DEF IsCut
<1>1. m = Len(v)
  <2>1. m \in 0..Len(v) /\ (m < Len(v) => v[m + 1] \in EndMarks) /\ Len(v) \in Nat
    BY DEF UpToEnd
  <2>2. m < Len(v) => m + 1 \in 1..Len(v)
    BY <2>1
  <2> QED BY <2>1, <2>2 DEF NoEnd
<1>2. SubSeq(v, 1, Len(v)) = v
  OBVIOUS
<1> QED BY <1>1, <1>2, Zenon

LEMMA QuoteEnds ==
    ASSUME NEW S, Q \in S, NEW w \in Seq(S), NoEnd(w)
    PROVE  NoEnd(Quote(w))
<1> DEFINE v == Quote(w)
<1>1. /\ v \in Seq(S) /\ Len(v) = Len(w) + 2 /\ v[1] = Q /\ v[Len(w) + 2] = Q
      /\ \A j \in 1..Len(w) : v[j + 1] = w[j]
  BY QuoteIs, Zenon
<1>2. Len(w) \in Nat
  OBVIOUS
<1>5. Q \notin EndMarks
  BY MarksDiffer, Zenon
<1> HIDE DEF v
<1> SUFFICES ASSUME NEW j \in 1..Len(v) PROVE v[j] \notin EndMarks
  BY DEF NoEnd, v
<1>3. CASE j = 1 \/ j = Len(w) + 2
  BY <1>1, <1>2, <1>3, <1>5
<1>4. CASE j # 1 /\ j # Len(w) + 2
  <2>1. PICK n \in 1..Len(w) : j = n + 1
    <3>1. j - 1 \in 1..Len(w) /\ j = (j - 1) + 1
      BY <1>1, <1>2, <1>4
    <3> QED BY <3>1, Zenon
  <2> QED BY <1>1, <2>1 DEF NoEnd
<1> QED BY <1>3, <1>4

LEMMA QuoteOpens ==
    ASSUME NEW S, Q \in S, NEW w \in Seq(S)
    PROVE  Quote(w) \in Seq(S) /\ Len(Quote(w)) > 0 /\ Quote(w)[1] # Space
<1>1. Quote(w) \in Seq(S) /\ Len(Quote(w)) = Len(w) + 2 /\ Quote(w)[1] = Q
  BY QuoteIs, Zenon
<1>2. Space # Q
  BY MarksDiffer, Zenon DEF Space
<1>3. Len(w) \in Nat
  OBVIOUS
<1> QED BY <1>1, <1>2, <1>3

LEMMA TypedIs ==
    ASSUME NEW S, NEW keys, NEW printed, IsForm(keys, printed, S), NEW k \in 1..Len(keys),
           IsKey(Spelled(keys[k]), k, keys, printed),
           NEW w \in Seq(S), printed[keys[k]] = Quote(w), NoEnd(w), NEW size
    PROVE  ExtractValue(Stringify(keys, printed), keys[k], size) = Sized(Quote(w), size)
<1>1. Q \in S
  BY MarksDiffer DEF IsForm
<1>2. Quote(w) \in Seq(S) /\ Len(Quote(w)) > 0 /\ Quote(w)[1] # Space
  BY <1>1, QuoteOpens, Zenon
<1>3. IsCut(ExtractValue(Stringify(keys, printed), keys[k], size), Quote(w), size)
  BY <1>2, KeyValue, Zenon
<1>4. NoEnd(Quote(w))
  BY <1>1, QuoteEnds, Zenon
<1> QED BY <1>2, <1>3, <1>4, WholeIs, Zenon

GotInteger(r, w) ==
    r.ok => IsInteger(w) /\ r.stored = <<(Number[w[1]] \div 100) % Word>>
GotFloat(r, w) ==
    r.ok => /\ IsNumber(w)
            /\ \E m \in Thousandths(Number[w[1]]) : r.stored = <<m % Word>>

LEMMA NumbersAre ==
    ASSUME NEW S, Q \in S, NEW w \in Seq(S), NEW t, NEW key,
           \A size : ExtractValue(t, key, size) = Sized(Quote(w), size)
    PROVE  /\ \A r \in GetInteger(t, key) : GotInteger(r, w)
           /\ \A r \in GetFloatInt(t, key) : GotFloat(r, w)
<1>1. Stripped(Quote(w)) = {w}
  BY QuotedIs, Zenon DEF Stripped
<1>2. <<Quote(w)>> # <<>> /\ <<Quote(w)>>[1] = Quote(w)
  OBVIOUS
<1>3. Refused.ok = FALSE
  BY DEF Refused, Outcome
<1>4. \A x : Ok(x).stored = <<x>>
  BY DEF Ok, Outcome
<1>5. ASSUME NEW r \in GetInteger(t, key) PROVE GotInteger(r, w)
  <2> DEFINE v == ExtractValue(t, key, SizeOf.integer)
  <2>1. v = <<>> \/ v = <<Quote(w)>>
    BY Zenon DEF Sized
  <2>2. CASE v = <<>>
    <3>1. r = Refused
      BY <1>5, <2>2, Zenon DEF GetInteger
    <3> QED BY <1>3, <3>1, Zenon DEF GotInteger
  <2>3. CASE v = <<Quote(w)>>
    <3>1. r = IF IsInteger(w) THEN Ok((Number[w[1]] \div 100) % Word) ELSE Refused
      <4>1. v[1] = Quote(w) /\ v # <<>>
        BY <1>2, <2>3, Zenon
      <4>2. GetInteger(t, key) =
              {IF IsInteger(s) THEN Ok((Number[s[1]] \div 100) % Word) ELSE Refused
               : s \in Stripped(v[1])}
        BY <4>1, Zenon DEF GetInteger
      <4> HIDE DEF v
      <4>3. GetInteger(t, key) =
              {IF IsInteger(s) THEN Ok((Number[s[1]] \div 100) % Word) ELSE Refused
               : s \in {w}}
        BY <1>1, <4>1, <4>2, Zenon
      <4> QED BY <1>5, <4>3, Zenon
    <3> QED BY <1>3, <1>4, <3>1, Zenon DEF GotInteger
  <2> QED BY <2>1, <2>2, <2>3
<1>6. ASSUME NEW r \in GetFloatInt(t, key) PROVE GotFloat(r, w)
  <2> DEFINE v == ExtractValue(t, key, SizeOf.float)
             all(s) == IF IsNumber(s) THEN {Ok(m % Word) : m \in Thousandths(Number[s[1]])}
                       ELSE {Refused}
  <2>1. v = <<>> \/ v = <<Quote(w)>>
    BY Zenon DEF Sized
  <2>2. CASE v = <<>>
    <3>1. r = Refused
      BY <1>6, <2>2, Zenon DEF GetFloatInt
    <3> QED BY <1>3, <3>1, Zenon DEF GotFloat
  <2>3. CASE v = <<Quote(w)>>
    <3>1. v[1] = Quote(w) /\ v # <<>>
      BY <1>2, <2>3, Zenon
    <3>2. GetFloatInt(t, key) = UNION {all(s) : s \in Stripped(v[1])}
      BY <3>1, Zenon DEF GetFloatInt
    <3> HIDE DEF v
    <3>3. GetFloatInt(t, key) = UNION {all(s) : s \in {w}}
      BY <1>1, <3>1, <3>2, Zenon
    <3>4. r \in all(w)
      <4> HIDE DEF all
      <4> QED BY <1>6, <3>3, Zenon
    <3>5. CASE ~IsNumber(w)
      <4>1. r = Refused
        BY <3>4, <3>5, Zenon
      <4> QED BY <1>3, <4>1, Zenon DEF GotFloat
    <3>6. CASE IsNumber(w)
      <4>1. r \in {Ok(m % Word) : m \in Thousandths(Number[w[1]])}
        BY <3>4, <3>6, Zenon
      <4>2. PICK m \in Thousandths(Number[w[1]]) : r = Ok(m % Word)
        BY <4>1, Zenon
      <4> QED BY <1>4, <3>6, <4>2, Zenon DEF GotFloat
    <3> QED BY <3>5, <3>6
  <2> QED BY <2>1, <2>2, <2>3
<1> QED BY <1>5, <1>6

-----------------------------------------------------------------------------
(* The getters of texts and addresses                                       *)

LEMMA CharsIs ==
    ASSUME NEW S, NEW s \in Seq(S)
    PROVE  \E f \in [Nat -> Nat] :
             /\ f[0] = 0 /\ CharsOf(s) = f[Len(s)]
             /\ \A n \in 0..(Len(s) - 1) : f[n + 1] = f[n] + WidthOf(s[n + 1])
<1> DEFINE N == Len(s)
           Body(g, n) == IF n = 0 THEN 0 ELSE g[n - 1] + WidthOf(s[n])
           IsChars(g) == g = [n \in 0..N |-> Body(g, n)]
           step == [k \in Nat |-> [x \in Nat |-> IF k < N THEN x + WidthOf(s[k + 1]) ELSE x]]
<1>1. N \in Nat /\ \A w : WidthOf(w) \in Nat
  BY JsonAssumption DEF WidthOf
<1>2. step \in [Nat -> [Nat -> Nat]]
  BY <1>1
<1>3. \A k, x \in Nat : k < N => step[k][x] = x + WidthOf(s[k + 1])
  OBVIOUS
<1> HIDE DEF step, N
<1>4. PICK h \in [Nat -> Nat] : RunsBy(h, 0, step)
  BY <1>2, Recursion, Zenon
<1>5. ASSUME NEW n \in 0..(N - 1) PROVE h[n + 1] = h[n] + WidthOf(s[n + 1])
  <2>1. n \in Nat /\ n < N /\ h[n] \in Nat
    BY <1>1, <1>4, <1>5
  <2>2. h[n + 1] = step[n][h[n]]
    BY <1>4, <2>1 DEF RunsBy
  <2> QED BY <1>3, <2>1, <2>2
<1>6. h[0] = 0
  BY <1>4 DEF RunsBy
<1> DEFINE g == [n \in 0..N |-> h[n]]
<1>7. ASSUME NEW n \in 0..N PROVE g[n] = Body(g, n)
  <2>1. CASE n = 0
    BY <1>6, <2>1, <1>7
  <2>2. CASE n # 0
    <3>1. n - 1 \in 0..(N - 1) /\ n - 1 \in 0..N /\ (n - 1) + 1 = n
      BY <1>1, <1>7, <2>2
    <3>2. h[(n - 1) + 1] = h[n - 1] + WidthOf(s[(n - 1) + 1])
      BY <1>5, <3>1
    <3> QED BY <1>7, <2>2, <3>1, <3>2
  <2> QED BY <2>1, <2>2
<1>8. g = [n \in 0..N |-> g[n]]
  OBVIOUS
<1> HIDE DEF g
<1>9. IsChars(g)
  BY <1>7, <1>8, Zenon
<1>10. ASSUME NEW u, IsChars(u) PROVE u[N] = h[N]
  <2>1. u = [n \in 0..N |-> IF n = 0 THEN 0 ELSE u[n - 1] + WidthOf(s[n])]
    BY <1>10
  <2> DEFINE T == {n \in Nat : n <= N => u[n] = h[n]}
  <2>2. 0 \in T
    <3>1. 0 \in 0..N
      BY <1>1
    <3>2. u[0] = 0
      BY <2>1, <3>1, Zenon
    <3> QED BY <1>6, <3>2
  <2>3. ASSUME NEW n \in Nat, n \in T PROVE n + 1 \in T
    <3>1. CASE n + 1 <= N
      <4>1. /\ n + 1 \in 0..N /\ n + 1 # 0 /\ (n + 1) - 1 = n /\ n \in 0..(N - 1)
            /\ n <= N
        BY <1>1, <2>3, <3>1
      <4>2. u[n + 1] = u[(n + 1) - 1] + WidthOf(s[n + 1])
        BY <2>1, <4>1, Zenon
      <4>3. u[n + 1] = h[n + 1]
        BY <1>5, <2>3, <4>1, <4>2
      <4> QED BY <2>3, <4>3
    <3> QED BY <2>3, <3>1
  <2> HIDE DEF T
  <2>4. N \in T
    BY <1>1, <2>2, <2>3, Induction
  <2> QED BY <1>1, <2>4 DEF T
<1>11. CharsOf(s) = (CHOOSE u : IsChars(u))[N]
  BY Zenon DEF CharsOf, N
<1> HIDE DEF IsChars
<1>12. IsChars(CHOOSE u : IsChars(u))
  BY <1>9, Zenon
<1>13. CharsOf(s) = h[N]
  BY <1>10, <1>11, <1>12, Zenon
<1> QED BY <1>5, <1>6, <1>13, Zenon DEF N

LEMMA QuoteChars ==
    ASSUME NEW S, Q \in S, NEW w \in Seq(S)
    PROVE  CharsOf(w) \in Nat /\ CharsOf(Quote(w)) = CharsOf(w) + 2
<1> DEFINE q == Quote(w)
           N == Len(w)
<1>1. /\ q \in Seq(S) /\ Len(q) = N + 2 /\ q[1] = Q /\ q[N + 2] = Q
      /\ \A j \in 1..N : q[j + 1] = w[j]
  BY QuoteIs, Zenon
<1>2. N \in Nat
  OBVIOUS
<1>3. WidthOf(Q) = 1
  BY JsonAssumption DEF WidthOf
<1> HIDE DEF q
<1>4. PICK f \in [Nat -> Nat] :
        /\ f[0] = 0 /\ CharsOf(q) = f[Len(q)]
        /\ \A n \in 0..(Len(q) - 1) : f[n + 1] = f[n] + WidthOf(q[n + 1])
  BY <1>1, CharsIs, Zenon
<1>5. PICK g \in [Nat -> Nat] :
        /\ g[0] = 0 /\ CharsOf(w) = g[N]
        /\ \A n \in 0..(N - 1) : g[n + 1] = g[n] + WidthOf(w[n + 1])
  BY CharsIs, Zenon
<1> HIDE DEF N
<1> DEFINE T == {n \in Nat : n <= N => f[n + 1] = g[n] + 1}
<1>6. 0 \in T
  <2>1. 0 \in 0..(Len(q) - 1)
    BY <1>1, <1>2
  <2>2. f[0 + 1] = f[0] + WidthOf(q[0 + 1])
    BY <1>4, <2>1
  <2>3. 0 + 1 = 1
    OBVIOUS
  <2> QED BY <1>1, <1>3, <1>4, <1>5, <2>2, <2>3
<1>7. ASSUME NEW n \in Nat, n \in T PROVE n + 1 \in T
  <2> SUFFICES ASSUME n + 1 <= N PROVE f[(n + 1) + 1] = g[n + 1] + 1
    BY <1>7
  <2>1. n + 1 \in 0..(Len(q) - 1) /\ n \in 0..(N - 1) /\ n + 1 \in 1..N /\ n <= N
    BY <1>1, <1>2, <1>7
  <2>2. f[(n + 1) + 1] = f[n + 1] + WidthOf(q[(n + 1) + 1])
    BY <1>4, <2>1
  <2>3. q[(n + 1) + 1] = w[n + 1]
    BY <1>1, <2>1
  <2>4. g[n + 1] = g[n] + WidthOf(w[n + 1])
    BY <1>5, <2>1
  <2>5. f[n + 1] = g[n] + 1
    BY <1>7, <2>1
  <2>6. WidthOf(w[n + 1]) \in Nat /\ g[n] \in Nat
    BY <1>5, <1>7, JsonAssumption DEF WidthOf
  <2> QED BY <2>2, <2>3, <2>4, <2>5, <2>6
<1>8. N \in T
  <2> HIDE DEF T
  <2> QED BY <1>2, <1>6, <1>7, Induction
<1>9. f[N + 2] = f[N + 1] + 1
  <2>1. N + 1 \in 0..(Len(q) - 1) /\ (N + 1) + 1 = N + 2
    BY <1>1, <1>2
  <2>2. f[(N + 1) + 1] = f[N + 1] + WidthOf(q[(N + 1) + 1])
    BY <1>4, <2>1
  <2> QED BY <1>1, <1>3, <2>1, <2>2
<1>10. g[N] \in Nat /\ f[N + 2] = g[N] + 2
  BY <1>2, <1>5, <1>8, <1>9
<1> QED BY <1>1, <1>4, <1>5, <1>10 DEF q

LEMMA WordChars ==
    ASSUME NEW x, x \notin DOMAIN Width
    PROVE  CharsOf(<<x>>) = 1
<1> DEFINE s == <<x>>
<1>1. s \in Seq({x}) /\ Len(s) = 1 /\ s[1] = x
  OBVIOUS
<1> HIDE DEF s
<1>2. PICK f \in [Nat -> Nat] :
        /\ f[0] = 0 /\ CharsOf(s) = f[Len(s)]
        /\ \A n \in 0..(Len(s) - 1) : f[n + 1] = f[n] + WidthOf(s[n + 1])
  BY <1>1, CharsIs, Zenon
<1>3. f[0 + 1] = f[0] + WidthOf(s[0 + 1]) /\ 0 + 1 = 1
  <2>1. 0 \in 0..(Len(s) - 1) /\ 0 + 1 = 1
    BY <1>1
  <2> QED BY <1>2, <2>1
<1>4. WidthOf(x) = 1
  BY DEF WidthOf
<1>5. CharsOf(s) = 1
  BY <1>1, <1>2, <1>3, <1>4
<1> QED BY <1>5 DEF s

\* What is cut off before its last quote is no text.
LEMMA CutText ==
    ASSUME NEW S, Q \in S, NEW w \in Seq(S), \A j \in 1..Len(w) : w[j] # Q,
           NEW m, UpToEnd(Quote(w), m), IsString(SubSeq(Quote(w), 1, m))
    PROVE  SubSeq(Quote(w), 1, m) = Quote(w)
<1> DEFINE q == Quote(w)
           x == SubSeq(q, 1, m)
<1>1. /\ q \in Seq(S) /\ Len(q) = Len(w) + 2
      /\ \A j \in 1..Len(w) : q[j + 1] = w[j]
  BY QuoteIs, Zenon
<1>2. m \in 0..Len(q) /\ IsString(x)
  BY DEF UpToEnd
<1> HIDE DEF q
<1>3. Len(x) = m /\ \A j \in 1..m : x[j] = q[j]
  BY <1>1, <1>2
<1>4. m >= 2 /\ x[m] = Q
  BY <1>2, <1>3 DEF IsString
<1>5. Len(w) \in Nat /\ m \in Nat
  BY <1>1, <1>2
<1>6. m = Len(q)
  <2> SUFFICES ASSUME m # Len(q) PROVE FALSE
    OBVIOUS
  <2>1. m - 1 \in 1..Len(w) /\ (m - 1) + 1 = m /\ m \in 1..m
    BY <1>1, <1>2, <1>4, <1>5
  <2>2. q[m] = w[m - 1]
    BY <1>1, <2>1
  <2>3. x[m] = q[m]
    BY <1>3, <2>1
  <2> QED BY <1>4, <2>1, <2>2, <2>3
<1>7. SubSeq(q, 1, Len(q)) = q
  BY <1>1
<1> QED BY <1>6, <1>7 DEF q

\* Of a value in quotes a getter stores all or nothing, or what its buffer held
\* before; it refuses no text and no address that fits.
GotText(r, w) == r = Refused \/ r = Ok(w)
GotAddress(r, w) ==
    \/ r = Refused
    \/ \E s \in {w} \cup Garbage :
         Len(s) = 1 /\ s[1] \in Hosts /\ r = Outcome(s[1] # Broadcast, <<s>>)

LEMMA TextsAre ==
    ASSUME NEW S, Q \in S, NEW w \in Seq(S), \A j \in 1..Len(w) : w[j] # Q,
           NEW t, NEW key, \A size : IsCut(ExtractValue(t, key, size), Quote(w), size)
    PROVE  /\ \A r \in GetString(t, key) : GotText(r, w)
           /\ \A r \in GetIPAddress(t, key) : GotAddress(r, w)
<1>1. Content(Quote(w)) = w
  BY QuotedIs, Zenon
<1>2. \A x, size : Sized(x, size) = <<>> \/ Sized(x, size) = <<x>>
  BY Zenon DEF Sized
<1>3. \A x : <<x>> # <<>> /\ <<x>>[1] = x
  OBVIOUS
<1>4. ASSUME NEW size, ExtractValue(t, key, size) # <<>>
      PROVE  \E x : /\ ExtractValue(t, key, size) = <<x>>
                    /\ IsString(x) => x = Quote(w)
  <2>1. PICK m : /\ UpToEnd(Quote(w), m)
                 /\ ExtractValue(t, key, size) = Sized(SubSeq(Quote(w), 1, m), size)
    BY Zenon DEF IsCut
  <2>2. ExtractValue(t, key, size) = <<SubSeq(Quote(w), 1, m)>>
    BY <1>2, <1>4, <2>1, Zenon
  <2>3. IsString(SubSeq(Quote(w), 1, m)) => SubSeq(Quote(w), 1, m) = Quote(w)
    BY <2>1, CutText
  <2> QED BY <2>2, <2>3, Zenon
<1>5. ASSUME NEW r \in GetString(t, key) PROVE GotText(r, w)
  <2> DEFINE v == ExtractValue(t, key, SizeOf.string)
  <2>1. r = IF v # <<>> /\ IsString(v[1]) THEN Ok(Content(v[1])) ELSE Refused
    BY <1>5, Zenon DEF GetString
  <2>2. CASE v # <<>> /\ IsString(v[1])
    <3>1. PICK x : v = <<x>> /\ (IsString(x) => x = Quote(w))
      BY <1>4, <2>2, Zenon
    <3> HIDE DEF v
    <3>2. v[1] = x
      BY <3>1
    <3>3. Content(v[1]) = w
      BY <1>1, <2>2, <3>1, <3>2, Zenon
    <3> QED BY <2>1, <2>2, <3>3, Zenon DEF GotText
  <2>3. CASE ~(v # <<>> /\ IsString(v[1]))
    BY <2>1, <2>3, Zenon DEF GotText
  <2> QED BY <2>2, <2>3
<1>6. ASSUME NEW r \in GetIPAddress(t, key) PROVE GotAddress(r, w)
  <2> DEFINE v == ExtractValue(t, key, SizeOf.ip)
             got(s) == IF Len(s) # 1 \/ s[1] \notin Hosts THEN Refused
                       ELSE Outcome(s[1] # Broadcast, <<s>>)
  <2>1. CASE v = <<>>
    <3>1. r = Refused
      BY <1>6, <2>1, Zenon DEF GetIPAddress
    <3> QED BY <3>1, Zenon DEF GotAddress
  <2>2. CASE v # <<>>
    <3>1. PICK x : v = <<x>> /\ (IsString(x) => x = Quote(w))
      BY <1>4, <2>2, Zenon
    <3>2. GetIPAddress(t, key) = {got(s) : s \in Stripped(v[1])}
      BY <2>2, Zenon DEF GetIPAddress
    <3> HIDE DEF v
    <3>3. v[1] = x
      BY <3>1
    <3>4. Stripped(x) \subseteq {w} \cup Garbage
      BY <1>1, <3>1, Zenon DEF Stripped
    <3>5. PICK s \in Stripped(x) : r = got(s)
      <4> HIDE DEF got
      <4> QED BY <1>6, <3>2, <3>3, Zenon
    <3>6. s \in {w} \cup Garbage
      BY <3>4, <3>5
    <3>7. CASE Len(s) = 1 /\ s[1] \in Hosts
      <4>1. r = Outcome(s[1] # Broadcast, <<s>>)
        BY <3>5, <3>7, Zenon
      <4> QED BY <3>6, <3>7, <4>1, Zenon DEF GotAddress
    <3>8. CASE ~(Len(s) = 1 /\ s[1] \in Hosts)
      <4>1. r = Refused
        BY <3>5, <3>8, Zenon
      <4> QED BY <4>1, Zenon DEF GotAddress
    <3> QED BY <3>7, <3>8
  <2> QED BY <2>1, <2>2
<1> QED BY <1>5, <1>6

\* A value that comes out whole and fits is accepted.
LEMMA FitsIsTaken ==
    ASSUME NEW S, Q \in S, NEW w \in Seq(S), NEW t, NEW key,
           \A size : ExtractValue(t, key, size) = Sized(Quote(w), size)
    PROVE  /\ CharsOf(w) <= 29 => \A r \in GetString(t, key) : r.ok
           /\ CharsOf(w) <= 14 /\ Len(w) = 1 /\ w[1] \in Hosts /\ w[1] # Broadcast
                => \A r \in GetIPAddress(t, key) : r.ok
<1>1. /\ IsString(Quote(w)) /\ Content(Quote(w)) = w
      /\ CharsOf(w) \in Nat /\ CharsOf(Quote(w)) = CharsOf(w) + 2
  BY QuotedIs, QuoteChars, Zenon
<1>2. <<Quote(w)>> # <<>> /\ <<Quote(w)>>[1] = Quote(w)
  OBVIOUS
<1>3. /\ SizeOf.string = 32 /\ SizeOf.ip = 17
      /\ (\A x : Ok(x).ok) /\ \A b, x : Outcome(b, x).ok = b
  BY DEF SizeOf, Ok, Outcome
<1>4. ASSUME CharsOf(w) <= 29, NEW r \in GetString(t, key) PROVE r.ok
  <2>1. ~(CharsOf(Quote(w)) >= SizeOf.string)
    BY <1>1, <1>3, <1>4
  <2>2. ExtractValue(t, key, SizeOf.string) = <<Quote(w)>>
    BY <2>1, Zenon DEF Sized
  <2>3. r = Ok(Content(Quote(w)))
    BY <1>1, <1>2, <1>4, <2>2, Zenon DEF GetString
  <2> QED BY <1>3, <2>3, Zenon
<1>5. ASSUME CharsOf(w) <= 14, Len(w) = 1, w[1] \in Hosts, w[1] # Broadcast,
             NEW r \in GetIPAddress(t, key)
      PROVE  r.ok
  <2>1. ~(CharsOf(Quote(w)) >= SizeOf.ip)
    BY <1>1, <1>3, <1>5
  <2>2. ExtractValue(t, key, SizeOf.ip) = <<Quote(w)>>
    BY <2>1, Zenon DEF Sized
  <2>3. Stripped(Quote(w)) = {w}
    BY <1>1, Zenon DEF Stripped
  <2>4. r = Outcome(w[1] # Broadcast, <<w>>)
    <3>1. GetIPAddress(t, key)
            = {IF Len(s) # 1 \/ s[1] \notin Hosts THEN Refused
               ELSE Outcome(s[1] # Broadcast, <<s>>) : s \in Stripped(Quote(w))}
      BY <1>2, <2>2, Zenon DEF GetIPAddress
    <3> QED BY <1>5, <2>3, <3>1, Zenon
  <2> QED BY <1>3, <1>5, <2>4, Zenon
<1> QED BY <1>4, <1>5

\* A box is read as it is checked.
LEMMA FlagIsTaken ==
    ASSUME NEW t, NEW key, NEW b,
           \A size : ExtractValue(t, key, size) = Sized(Bool(b), size)
    PROVE  \A r \in GetBoolean(t, key) : r = Outcome(TRUE, <<>>)
<1> DEFINE x == IF b THEN "true" ELSE "false"
<1>1. x \notin DOMAIN Width /\ x \in {"true", "false", "0", "1"}
  BY JsonAssumption
<1>2. Bool(b) = <<x>>
  BY Zenon DEF Bool
<1> HIDE DEF x
<1>3. CharsOf(Bool(b)) = 1 /\ SizeOf.boolean = 7
  BY <1>1, <1>2, WordChars DEF SizeOf
<1>4. ExtractValue(t, key, SizeOf.boolean) = <<Bool(b)>>
  <2>1. ~(CharsOf(Bool(b)) >= SizeOf.boolean)
    BY <1>3
  <2> QED BY <2>1, Zenon DEF Sized
<1> QED BY <1>1, <1>2, <1>4, Zenon DEF GetBoolean
=============================================================================
