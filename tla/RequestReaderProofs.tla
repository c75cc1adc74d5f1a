------------------------ MODULE RequestReaderProofs ------------------------
(* Theorems about RequestReader, for any requests, any cutting of the stream *)
(* and any size of the buffer: the offsets stay inside of it, and the lines  *)
(* handed on are those that were sent.                                       *)
EXTENDS RequestReader, SharedLemmas

-----------------------------------------------------------------------------
(* The stream: where each line lies in it                                   *)

\* The line x, with its end, after the first a bytes of b.
LineAt(b, a, x) ==
    /\ a \in Nat /\ a + Len(x) + 2 <= Len(b)
    /\ \A j \in 1..Len(x) : b[a + j] = x[j]
    /\ b[a + Len(x) + 1] = "CR" /\ b[a + Len(x) + 2] = "LF"

\* b is the first n of the lines, and line k + 1 begins after st[k] bytes.
LaidUpTo(b, ls, st, n) ==
    /\ b \in Seq(Byte) /\ Len(b) = st[n]
    /\ \A k \in 0..(n - 1) : /\ LineAt(b, st[k], ls[k + 1])
                             /\ st[k + 1] = st[k] + Len(ls[k + 1]) + 2
Laid(b, ls, st) == st[0] = 0 /\ LaidUpTo(b, ls, st, Len(ls))

LEMMA PieceIs ==
    ASSUME NEW x \in Texts
    PROVE  x \o CRLF \in Seq(Byte) /\ Len(x \o CRLF) = Len(x) + 2 /\ LineAt(x \o CRLF, 0, x)
<1>1. x \in Seq(Byte) /\ Len(x) \in Nat /\ CRLF \in Seq(Byte)
  BY DEF Texts, CRLF, Byte
<1>2. Len(CRLF) = 2 /\ CRLF[1] = "CR" /\ CRLF[2] = "LF"
  BY DEF CRLF
<1>3. x \o CRLF \in Seq(Byte) /\ IsConcat(x \o CRLF, x, CRLF)
  BY <1>1, ConcatIs, Zenon
<1> DEFINE y == x \o CRLF
<1> HIDE DEF y
<1>4. y[Len(x) + 1] = "CR" /\ y[Len(x) + 2] = "LF" /\ \A j \in 1..Len(x) : y[j] = x[j]
  BY <1>1, <1>2, <1>3 DEF IsConcat, y
<1>5. Len(y) = Len(x) + 2
  BY <1>1, <1>2, <1>3 DEF IsConcat, y
<1>6. LineAt(y, 0, x)
  BY <1>1, <1>4, <1>5 DEF LineAt
<1> QED BY <1>3, <1>5, <1>6 DEF y

\* A line stays where it is when more follows, and lies where it is appended.
LEMMA LineStays ==
    ASSUME NEW b \in Seq(Byte), NEW y \in Seq(Byte), NEW a, NEW x \in Texts, LineAt(b, a, x)
    PROVE  LineAt(b \o y, a, x)
<1>1. IsConcat(b \o y, b, y)
  BY ConcatIs, Zenon
<1> DEFINE c == b \o y
<1> HIDE DEF c
<1>2. Len(b) \in Nat /\ Len(c) >= Len(b) /\ \A n \in 1..Len(b) : c[n] = b[n]
  BY <1>1 DEF IsConcat, c
<1>3. Len(x) \in Nat /\ a \in Nat /\ a + Len(x) + 2 <= Len(b)
  BY DEF LineAt, Texts
<1>4. LineAt(c, a, x)
  BY <1>2, <1>3 DEF LineAt
<1> QED BY <1>4 DEF c

LEMMA LineAppended ==
    ASSUME NEW b \in Seq(Byte), NEW x \in Texts
    PROVE  LineAt(b \o (x \o CRLF), Len(b), x)
<1> DEFINE y == x \o CRLF
<1>1. y \in Seq(Byte) /\ Len(y) = Len(x) + 2 /\ LineAt(y, 0, x) /\ Len(x) \in Nat
  BY PieceIs DEF Texts
<1> HIDE DEF y
<1>2. IsConcat(b \o y, b, y)
  BY <1>1, ConcatIs, Zenon
<1> DEFINE c == b \o y
<1> HIDE DEF c
<1>3. Len(b) \in Nat /\ Len(c) = Len(b) + Len(x) + 2 /\ \A n \in 1..(Len(x) + 2) : c[Len(b) + n] = y[n]
  BY <1>1, <1>2 DEF IsConcat, c
<1>4. \A j \in 1..Len(x) : y[j] = x[j]
  BY <1>1 DEF LineAt
<1>5. y[Len(x) + 1] = "CR" /\ y[Len(x) + 2] = "LF"
  BY <1>1 DEF LineAt
<1>6. Len(x) + 1 \in 1..(Len(x) + 2) /\ Len(x) + 2 \in 1..(Len(x) + 2)
      /\ \A j \in 1..Len(x) : j \in 1..(Len(x) + 2)
  BY <1>1
<1>7. c[Len(b) + (Len(x) + 1)] = "CR" /\ c[Len(b) + (Len(x) + 2)] = "LF"
  BY <1>3, <1>5, <1>6
<1>8. \A j \in 1..Len(x) : c[Len(b) + j] = x[j]
  BY <1>3, <1>4, <1>6
<1>9. LineAt(c, Len(b), x)
  BY <1>1, <1>3, <1>7, <1>8 DEF LineAt
<1> QED BY <1>9 DEF c, y

\* FlattenSeq as a recursion over the lines.
Flattens(f, ls) ==
    f = [i \in 1..Len(ls) |-> IF i = 1 THEN ls[1] \o CRLF ELSE f[i - 1] \o (ls[i] \o CRLF)]

LEMMA FlattensExists ==
    ASSUME NEW ls \in Seq(Texts)
    PROVE  \E f : Flattens(f, ls)
<1> DEFINE n == Len(ls)
           next(k, x) == IF k = 0 THEN ls[1] \o CRLF ELSE x \o (ls[k + 1] \o CRLF)
           step == [k \in Nat |-> [x \in Seq(Byte) |-> IF k < n THEN next(k, x) ELSE x]]
<1>1. n \in Nat /\ \A k \in 1..n : ls[k] \in Texts
  OBVIOUS
<1>2. ASSUME NEW k \in Nat, k < n, NEW x \in Seq(Byte) PROVE next(k, x) \in Seq(Byte)
  <2>1. k + 1 \in 1..n /\ 1 \in 1..n
    BY <1>1, <1>2
  <2>2. ls[1] \o CRLF \in Seq(Byte) /\ ls[k + 1] \o CRLF \in Seq(Byte)
    BY <1>1, <2>1, PieceIs, Zenon
  <2>3. x \o (ls[k + 1] \o CRLF) \in Seq(Byte)
    BY <1>2, <2>2, ConcatIs, Zenon
  <2> QED BY <2>2, <2>3
<1> HIDE DEF next
<1>3. step \in [Nat -> [Seq(Byte) -> Seq(Byte)]]
  BY <1>2
<1>4. <<>> \in Seq(Byte)
  OBVIOUS
<1>5. \A k \in Nat, x \in Seq(Byte) : k < n => step[k][x] = next(k, x)
  OBVIOUS
<1> HIDE DEF step
<1>6. PICK h \in [Nat -> Seq(Byte)] : RunsBy(h, <<>>, step)
  BY <1>3, <1>4, Recursion, Zenon
<1> DEFINE f == [i \in 1..n |-> h[i]]
<1>7. ASSUME NEW i \in 1..n
      PROVE  f[i] = IF i = 1 THEN ls[1] \o CRLF ELSE f[i - 1] \o (ls[i] \o CRLF)
  <2> n \in Nat /\ i \in 1..n
    BY <1>1, <1>7
  <2>1. i - 1 \in Nat /\ i - 1 < n /\ (i - 1) + 1 = i /\ (i # 1 => i - 1 \in 1..n)
        /\ (i = 1 <=> i - 1 = 0)
    BY SMTT(30)
  <2>2. h[i] = step[i - 1][h[i - 1]] /\ h[i - 1] \in Seq(Byte)
    BY <1>6, <2>1 DEF RunsBy
  <2>3. f[i] = next(i - 1, h[i - 1])
    BY <1>5, <2>1, <2>2
  <2>4. i # 1 => f[i - 1] = h[i - 1]
    BY <2>1
  <2> HIDE DEF f
  <2> QED BY <2>1, <2>3, <2>4, Zenon DEF next
<1>8. f = [i \in 1..n |-> f[i]]
  OBVIOUS
<1> HIDE DEF f
<1>9. Flattens(f, ls)
  BY <1>7, <1>8, Zenon DEF Flattens
<1> QED BY <1>9

LEMMA EncodedIs ==
    ASSUME NEW ls \in Seq(Texts)
    PROVE  \E st : Laid(Encoded(ls), ls, st)
<1> DEFINE n == Len(ls)
           pieces == [i \in DOMAIN ls |-> ls[i] \o CRLF]
<1>1. n \in Nat /\ DOMAIN ls = 1..n /\ \A k \in 1..n : ls[k] \in Texts
  OBVIOUS
<1>2. pieces \in Seq(Seq(Byte)) /\ Len(pieces) = n /\ \A i \in 1..n : pieces[i] = ls[i] \o CRLF
  <2>1. pieces \in [1..n -> Seq(Byte)]
    BY <1>1, PieceIs
  <2> QED BY <1>1, <2>1
<1>3. Encoded(ls) = FlattenSeq(pieces)
  BY Zenon DEF Encoded
<1> HIDE DEF pieces
<1>4. CASE n = 0
  <2>1. FlattenSeq(pieces) = pieces
    BY <1>2, <1>4, Zenon DEF FlattenSeq
  <2>2. pieces = <<>>
    BY <1>2, <1>4
  <2>3. Encoded(ls) \in Seq(Byte) /\ Len(Encoded(ls)) = 0
    BY <1>3, <2>1, <2>2
  <2>4. Laid(Encoded(ls), ls, [k \in {0} |-> 0])
    BY <1>4, <2>3 DEF Laid, LaidUpTo
  <2> QED BY <2>4
<1>5. CASE n # 0
  <2> DEFINE f == CHOOSE g : Flattens(g, ls)
             body(g) == [i \in 1..Len(pieces) |-> IF i = 1 THEN pieces[i] ELSE g[i - 1] \o pieces[i]]
  <2>1. Flattens(f, ls)
    BY FlattensExists, Zenon
  <2>2. \A g : Flattens(g, ls) <=> g = body(g)
    <3> SUFFICES ASSUME NEW g PROVE Flattens(g, ls) <=> g = body(g)
      OBVIOUS
    <3>1. \A i \in 1..n : pieces[i] = ls[i] \o CRLF /\ (i = 1 => pieces[i] = ls[1] \o CRLF)
      BY <1>2
    <3>2. body(g) = [i \in 1..n |-> IF i = 1 THEN ls[1] \o CRLF ELSE g[i - 1] \o (ls[i] \o CRLF)]
      BY <1>2, <3>1, Zenon
    <3> QED BY <3>2, Zenon DEF Flattens
  <2>3. FlattenSeq(pieces) = (CHOOSE g : g = body(g))[n]
    BY <1>2, <1>5, Zenon DEF FlattenSeq
  <2>4. (CHOOSE g : g = body(g)) = f
    <3> HIDE DEF body
    <3> QED BY <2>2, Zenon
  <2>5. Encoded(ls) = f[n]
    BY <1>3, <2>3, <2>4
  <2> HIDE DEF f
  <2> DEFINE st == [k \in 0..n |-> IF k = 0 THEN 0 ELSE Len(f[k])]
  <2>6. f[1] = ls[1] \o CRLF /\ \A i \in 2..n : f[i] = f[i - 1] \o (ls[i] \o CRLF)
    <3>1. 1 \in 1..n /\ \A i \in 2..n : i \in 1..n /\ i # 1
      BY <1>1, <1>5
    <3> QED BY <2>1, <3>1, Zenon DEF Flattens
  <2>7. st[0] = 0 /\ \A k \in 1..n : st[k] = Len(f[k])
    BY <1>1
  <2> HIDE DEF st
  <2> DEFINE T == {k \in Nat : k + 1 <= n => LaidUpTo(f[k + 1], ls, st, k + 1)}
  <2>8. 0 \in T
    <3>1. 1 \in 1..n /\ 0..(1 - 1) = {0}
      BY <1>1, <1>5
    <3>2. f[1] \in Seq(Byte) /\ Len(f[1]) = Len(ls[1]) + 2 /\ LineAt(f[1], 0, ls[1])
      BY <1>1, <2>6, <3>1, PieceIs, Zenon
    <3>3. LaidUpTo(f[1], ls, st, 1)
      BY <2>7, <3>1, <3>2 DEF LaidUpTo, LineAt
    <3> QED BY <3>3
  <2>9. ASSUME NEW k \in Nat, k \in T PROVE k + 1 \in T
    <3> SUFFICES ASSUME (k + 1) + 1 <= n PROVE LaidUpTo(f[(k + 1) + 1], ls, st, (k + 1) + 1)
      BY <2>9
    <3> DEFINE i == k + 2
               b == f[k + 1]
    <3>1. i \in 2..n /\ i - 1 = k + 1 /\ i = (k + 1) + 1 /\ i \in 1..n /\ k + 1 \in 1..n
      BY <1>1, <2>9
    <3>2. LaidUpTo(b, ls, st, k + 1)
      BY <1>1, <2>9, <3>1
    <3>3. b \in Seq(Byte) /\ Len(b) = st[k + 1] /\ ls[i] \in Texts
      BY <1>1, <3>1, <3>2 DEF LaidUpTo
    <3>4. f[i] = b \o (ls[i] \o CRLF)
      BY <2>6, <3>1
    <3>5. ls[i] \o CRLF \in Seq(Byte) /\ Len(ls[i] \o CRLF) = Len(ls[i]) + 2
      BY <3>3, PieceIs
    <3>6. LineAt(f[i], st[k + 1], ls[i])
      BY <3>3, <3>4, LineAppended, Zenon
    <3>7. f[i] \in Seq(Byte) /\ IsConcat(f[i], b, ls[i] \o CRLF)
      <4> HIDE DEF b
      <4> QED BY <3>3, <3>4, <3>5, ConcatIs, Zenon
    <3> HIDE DEF b
    <3>8. Len(f[i]) = st[k + 1] + Len(ls[i]) + 2
      <4>1. Len(ls[i]) \in Nat
        BY <3>3 DEF Texts
      <4>2. Len(f[i]) = Len(b) + Len(ls[i] \o CRLF)
        BY <3>7, Zenon DEF IsConcat
      <4>3. Len(f[i]) = Len(b) + (Len(ls[i]) + 2) /\ Len(b) \in Nat
        BY <3>3, <3>5, <4>2
      <4> QED BY <3>3, <4>1, <4>3, SMTT(30)
    <3>9. ASSUME NEW j \in 0..(i - 1)
          PROVE  LineAt(f[i], st[j], ls[j + 1]) /\ st[j + 1] = st[j] + Len(ls[j + 1]) + 2
      <4>1. CASE j = k + 1
        <5>1. j + 1 = i /\ st[i] = Len(f[i])
          BY <2>7, <3>1, <4>1
        <5> QED BY <3>6, <3>8, <4>1, <5>1
      <4>2. CASE j # k + 1
        <5>1. j \in 0..((k + 1) - 1) /\ j + 1 \in 1..n
          BY <1>1, <3>1, <3>9, <4>2
        <5>2. LineAt(b, st[j], ls[j + 1]) /\ st[j + 1] = st[j] + Len(ls[j + 1]) + 2
          BY <3>2, <5>1 DEF LaidUpTo
        <5>3. LineAt(f[i], st[j], ls[j + 1])
          BY <1>1, <3>3, <3>4, <3>5, <5>1, <5>2, LineStays, Zenon
        <5> QED BY <5>2, <5>3
      <4> QED BY <4>1, <4>2
    <3>10. LaidUpTo(f[i], ls, st, i)
      BY <2>7, <3>1, <3>7, <3>9 DEF LaidUpTo
    <3> QED BY <3>1, <3>10
  <2>10. n - 1 \in T
    <3>1. n - 1 \in Nat
      BY <1>1, <1>5
    <3> HIDE DEF T
    <3> QED BY <2>8, <2>9, <3>1, Induction
  <2>11. LaidUpTo(f[n], ls, st, n)
    BY <1>1, <1>5, <2>10
  <2> QED BY <2>5, <2>7, <2>11 DEF Laid
<1> QED BY <1>4, <1>5

\* Where the lines of a request begin in its bytes.
Begins(r) == CHOOSE st : Laid(Bytes(r), Lines(r), st)

LEMMA RequestIs ==
    ASSUME NEW r \in Requests
    PROVE  /\ Lines(r) \in Seq(Texts) /\ Len(Lines(r)) \in Nat /\ Len(Lines(r)) > 0
           /\ Lines(r)[1] = FirstLine(r)
           /\ Bytes(r) \in Seq(Byte) /\ Len(Bytes(r)) \in Nat
           /\ Laid(Bytes(r), Lines(r), Begins(r))
           /\ ContentLength(r) \in Nat
<1>1. r.post \in BOOLEAN /\ r.headers \in Seq(Texts) /\ r.body \in Seq(Texts)
  BY ReaderAssumption
<1>2. FirstLine(r) \in Texts /\ <<>> \in Texts
  BY DEF FirstLine, Texts, Byte
<1>3. <<FirstLine(r)>> \in Seq(Texts) /\ <<<<>>>> \in Seq(Texts)
  BY <1>2
<1> DEFINE a == <<FirstLine(r)>> \o r.headers
           c == a \o <<<<>>>>
<1>4. a \in Seq(Texts) /\ Len(a) > 0 /\ a[1] = FirstLine(r)
  <2>1. a \in Seq(Texts) /\ IsConcat(a, <<FirstLine(r)>>, r.headers)
    BY <1>1, <1>3, ConcatIs, Zenon
  <2>2. Len(<<FirstLine(r)>>) = 1 /\ <<FirstLine(r)>>[1] = FirstLine(r)
    OBVIOUS
  <2> HIDE DEF a
  <2> QED BY <2>1, <2>2 DEF IsConcat
<1> HIDE DEF a
<1>5. c \in Seq(Texts) /\ Len(c) > 0 /\ c[1] = FirstLine(r)
  <2>1. c \in Seq(Texts) /\ IsConcat(c, a, <<<<>>>>)
    BY <1>3, <1>4, ConcatIs, Zenon
  <2> HIDE DEF c
  <2> QED BY <1>4, <2>1 DEF IsConcat
<1>6. Lines(r) = c \o r.body
  BY Zenon DEF Lines, a
<1> HIDE DEF c
<1>7. Lines(r) \in Seq(Texts) /\ Len(Lines(r)) > 0 /\ Lines(r)[1] = FirstLine(r)
  <2>1. Lines(r) \in Seq(Texts) /\ IsConcat(Lines(r), c, r.body)
    BY <1>1, <1>5, <1>6, ConcatIs, Zenon
  <2> QED BY <1>5, <2>1 DEF IsConcat
<1>8. Laid(Bytes(r), Lines(r), Begins(r))
  BY <1>7, EncodedIs, Zenon DEF Begins, Bytes
<1>9. Bytes(r) \in Seq(Byte)
  BY <1>8 DEF Laid, LaidUpTo
<1>10. PICK st : Laid(Encoded(r.body), r.body, st)
  BY <1>1, EncodedIs, Zenon
<1>11. Encoded(r.body) \in Seq(Byte)
  BY <1>10 DEF Laid, LaidUpTo
<1>12. ContentLength(r) \in Nat
  BY <1>11 DEF ContentLength
<1> QED BY <1>7, <1>8, <1>9, <1>12

-----------------------------------------------------------------------------
(* The helpers                                                              *)

LEMMA SegmentIs ==
    ASSUME request \in Requests, cut \in 0..Len(Bytes(request)), got \in 0..cut,
           NEW room \in Int, NEW s \in Segments(room)
    PROVE  /\ s \in Seq(Byte) /\ Len(s) \in 1..room /\ got + Len(s) <= cut
           /\ \A i \in 1..Len(s) : s[i] = Bytes(request)[got + i]
<1> DEFINE b == Bytes(request)
<1>1. b \in Seq(Byte) /\ Len(b) \in Nat
  BY RequestIs
<1>2. PICK n \in {k \in 1..room : got + k <= cut} : s = SubSeq(b, got + 1, got + n)
  BY DEF Segments
<1> HIDE DEF b
<1>3. cut <= Len(b) /\ cut \in Nat /\ got \in Nat
  BY <1>1 DEF b
<1>4. n \in 1..room /\ got + n <= cut
  BY <1>2
<1>5. s \in Seq(Byte) /\ Len(s) = n /\ \A i \in 1..n : s[i] = b[got + i]
  <2>1. got + 1 >= 1 /\ got + n <= Len(b) /\ got + n >= got + 1
    BY <1>1, <1>3, <1>4
  <2> QED BY <1>1, <1>2, <1>3, <1>4, <2>1, SMTT(30)
<1> QED BY <1>4, <1>5 DEF b

\* r is b with s from at on.
Copies(r, b, at, s) ==
    /\ r \in [1..Size -> Byte]
    /\ \A i \in 1..Len(s) : r[at + i - 1] = s[i]
    /\ \A i \in 1..Size : i < at \/ i >= at + Len(s) => r[i] = b[i]

LEMMA CopiedIs ==
    ASSUME NEW b \in [1..Size -> Byte], NEW s \in Seq(Byte), NEW at \in Nat \ {0},
           at + Len(s) - 1 <= Size
    PROVE  Copies(Copied(b, at, s), b, at, s)
<1> DEFINE r == Copied(b, at, s)
<1>1. Size \in Nat /\ Len(s) \in Nat
  BY ReaderAssumption
<1>2. r = [i \in 1..Size |-> IF i \in at..(at + Len(s) - 1) THEN s[i - at + 1] ELSE b[i]]
  BY DEF Copied
<1>3. \A i \in 1..Size : r[i] = IF i \in at..(at + Len(s) - 1) THEN s[i - at + 1] ELSE b[i]
  BY <1>2
<1>4. r \in [1..Size -> Byte]
  <2>1. \A i \in 1..Size : i \in at..(at + Len(s) - 1) => i - at + 1 \in 1..Len(s)
    BY <1>1
  <2>2. ASSUME NEW i \in 1..Size PROVE r[i] \in Byte
    <3>1. CASE i \in at..(at + Len(s) - 1)
      <4>1. s[i - at + 1] \in Byte
        BY <2>1, <2>2, <3>1
      <4> QED BY <1>3, <2>2, <3>1, <4>1
    <3>2. CASE i \notin at..(at + Len(s) - 1)
      <4>1. r[i] = b[i]
        BY <1>3, <2>2, <3>2
      <4> QED BY <2>2, <4>1
    <3> QED BY <3>1, <3>2
  <2>3. r = [i \in 1..Size |-> r[i]]
    BY <1>2
  <2> HIDE DEF r
  <2> QED BY <2>2, <2>3
<1> HIDE DEF r
<1>5. ASSUME NEW i \in 1..Len(s) PROVE r[at + i - 1] = s[i]
  <2>1. at + i - 1 \in 1..Size /\ at + i - 1 \in at..(at + Len(s) - 1) /\ (at + i - 1) - at + 1 = i
    BY <1>1, <1>5
  <2> QED BY <1>3, <2>1
<1>6. ASSUME NEW i \in 1..Size, i < at \/ i >= at + Len(s) PROVE r[i] = b[i]
  <2>1. i \notin at..(at + Len(s) - 1)
    BY <1>1, <1>6
  <2> QED BY <1>3, <1>6, <2>1
<1> QED BY <1>4, <1>5, <1>6 DEF Copies, r

LEMMA FirstIs ==
    ASSUME NEW T \in SUBSET Nat, NEW m \in T, \A t \in T : m <= t
    PROVE  First(T) = m
<1>1. \A x \in T : (\A y \in T : x <= y) => x = m
  OBVIOUS
<1> QED BY <1>1 DEF First

LEMMA FirstIn ==
    ASSUME NEW T \in SUBSET Nat, T # {}
    PROVE  First(T) \in T /\ \A t \in T : First(T) <= t
BY Least DEF First

LEMMA SpacesFirst ==
    ASSUME NEW T \in SUBSET (1..Size), T # {}
    PROVE  First(T) \in T /\ \A t \in T : First(T) <= t
<1>1. T \in SUBSET Nat
  BY ReaderAssumption
<1> QED BY <1>1, FirstIn

LEMMA BreaksAre ==
    ASSUME NEW b, NEW from \in Nat, NEW to \in Nat
    PROVE  Breaks(b, from, to) \in SUBSET Nat
BY DEF Breaks

-----------------------------------------------------------------------------
(* Types: the offsets stay inside of the buffer                             *)

Typed ==
    /\ TypeOK /\ lines \in Seq([text : Seq(Byte), long : BOOLEAN])
    /\ Reading => Room > 0

\* What is read next lies in what was received.
Bounds == Typed /\ pos <= used

\* The first line seems to end behind what was received: the task gives up.
Behind == Typed /\ pos > used /\ phase \in {"headers", "dropped"}

\* Until the first line is parsed, the headers have no part of the buffer.
Unparsed ==
    phase \in {"first", "parse"} =>
      base = 0 /\ pos = 0 /\ skipped = 0 /\ remaining = 0 /\ lines = <<>>

LEMMA BufferIs ==
    ASSUME Bounds
    PROVE  /\ Size \in Nat /\ base \in Nat /\ used \in Nat /\ pos \in Nat /\ Room = Size - base
           /\ base + used <= Size /\ pos <= used /\ base <= Size
           /\ buffer \in Seq(Byte) /\ Len(buffer) = Size
<1>1. Size \in Nat
  BY ReaderAssumption
<1>2. base \in 0..Size /\ used \in 0..Room /\ pos \in 0..used /\ buffer \in [1..Size -> Byte]
  <2>1. /\ base \in 0..Size /\ used \in (-Size)..Room /\ pos \in {0} \cup 0..used /\ pos <= used
        /\ buffer \in [1..Size -> Byte]
    BY DEF Bounds, Typed, TypeOK
  <2> QED BY <1>1, <2>1 DEF Room
<1>3. buffer \in Seq(Byte) /\ Len(buffer) = Size
  BY <1>1, <1>2
<1> QED BY <1>1, <1>2, <1>3 DEF Room

LEMMA OffsetsIn ==
    ASSUME NEW room, NEW u \in 0..room, NEW q \in 0..u
    PROVE  u \in (-Size)..room /\ q \in {0} \cup 0..u /\ q <= u
BY ReaderAssumption

LEMMA LongIs ==
    ASSUME NEW s \in Seq([text : Seq(Byte), long : BOOLEAN])
    PROVE  \A i \in DOMAIN s : s[i].long \in BOOLEAN
<1> DEFINE R == [text : Seq(Byte), long : BOOLEAN]
<1>1. \A r \in R : r.long \in BOOLEAN
  OBVIOUS
<1>2. s \in Seq(R)
  OBVIOUS
<1> HIDE DEF R
<1>3. \A i \in DOMAIN s : s[i] \in R
  BY <1>2
<1> QED BY <1>1, <1>3

LEMMA RecvTypes == Bounds /\ Unparsed /\ RecvLine => Bounds' /\ Unparsed'
<1> SUFFICES ASSUME Bounds, Unparsed, RecvLine PROVE Bounds' /\ Unparsed'
  OBVIOUS
<1>1. phase = "first" /\ base = 0 /\ pos = 0
  BY DEF RecvLine, Unparsed
<1>2. Size \in Nat /\ used \in 0..Size /\ got \in 0..cut /\ request \in Requests
      /\ cut \in 0..Len(Bytes(request)) /\ buffer \in [1..Size -> Byte]
  BY <1>1, BufferIs DEF Bounds, Typed, TypeOK
<1>3. PICK s \in Segments(Size - used) :
        /\ got' = got + Len(s) /\ used' = used + Len(s)
        /\ buffer' = Copied(buffer, 1, s)
        /\ phase' \in {"parse", "dropped", "first"}
  BY <1>1 DEF RecvLine, Goto
<1>4. s \in Seq(Byte) /\ Len(s) \in 1..(Size - used) /\ got + Len(s) <= cut
  BY <1>2, SegmentIs
<1>5. buffer' \in [1..Size -> Byte]
  BY <1>2, <1>3, <1>4, CopiedIs, SMTT(30) DEF Copies
<1>6. UNCHANGED <<request, cut, whole, base, pos, post, remaining, skipped, lines>>
  BY DEF RecvLine, clientVars
<1>7. got' \in 0..cut' /\ used' \in 0..Room'
  <2>1. cut \in Nat
    BY <1>2, RequestIs
  <2> QED BY <1>1, <1>2, <1>3, <1>4, <1>6, <2>1 DEF Room
<1>8. used' \in (-Size)..Room' /\ pos' \in {0} \cup 0..used' /\ pos' <= used'
  <2>1. pos' \in 0..used'
    BY <1>1, <1>6, <1>7
  <2> QED BY <1>7, <2>1, OffsetsIn
<1>9. skipped' \in 0..Room'
  BY <1>6 DEF Bounds, Typed, TypeOK, Room
<1>10. TypeOK'
  BY <1>1, <1>3, <1>5, <1>6, <1>7, <1>8, <1>9 DEF Bounds, Typed, TypeOK
<1> QED BY <1>1, <1>3, <1>6, <1>8, <1>10 DEF Bounds, Typed, Unparsed, Reading

\* What is parsed: the second space is at p2, the end of the line at p3.
ParsedAt(p2, p3) ==
    /\ p2 \in 1..Size /\ buffer[p2] = "SP"
    /\ \E p1 \in 1..(p2 - 1) : \A i \in 1..(p2 - 1) : buffer[i] = "SP" <=> i = p1
    /\ p3 \in p2..(Size - 1) /\ p3 \in Breaks(buffer, p2, Size)
    /\ \A q \in Breaks(buffer, p2, Size) : p3 <= q
    /\ Size - (p3 + 1) >= MinHeader
    /\ base' = p3 + 1 /\ used' = used - (p3 + 1)
    /\ buffer' = [buffer EXCEPT ![p2] = "NUL"]
    /\ post' = (buffer[1] = "M")
    /\ lines' = <<[text |-> SubSeq(buffer, 1, p3 - 1), long |-> FALSE]>>
    /\ phase' = "headers"

LEMMA ParseIs ==
    ASSUME Bounds, Unparsed, ParseFirst
    PROVE  /\ phase = "parse" /\ UNCHANGED <<request, cut, whole, got, pos, remaining, skipped>>
           /\ \/ phase' = "dropped" /\ UNCHANGED <<base, used, buffer, post, lines>>
              \/ \E p2, p3 : ParsedAt(p2, p3)
<1>1. phase = "parse" /\ base = 0
  BY DEF ParseFirst, Unparsed
<1>2. Size \in Nat /\ used \in 0..Size /\ buffer \in [1..Size -> Byte]
  BY <1>1, BufferIs DEF Bounds, Typed, TypeOK
<1>3. UNCHANGED <<request, cut, whole, got, pos, remaining, skipped>>
  BY DEF ParseFirst, clientVars
<1>4. SUFFICES ASSUME ~(phase' = "dropped" /\ UNCHANGED <<base, used, buffer, post, lines>>)
               PROVE  \E p2, p3 : ParsedAt(p2, p3)
  BY <1>1, <1>3
<1> DEFINE Ends(from) == {i \in from..Size : buffer[i] = "NUL"}
           Spaces(from) == {i \in from..Size : /\ buffer[i] = "SP"
                                               /\ \A e \in Ends(from) : i < e}
           p1 == First(Spaces(1))
           p2 == First(Spaces(p1 + 1))
           p3 == First(Breaks(buffer, p2, Size))
<1>5. /\ Spaces(1) # {} /\ Spaces(p1 + 1) # {}
      /\ Breaks(buffer, p2, Size) # {}
      /\ base' = p3 + 1 /\ used' = used - (p3 + 1)
      /\ buffer' = [buffer EXCEPT ![p2] = "NUL"]
      /\ post' = (buffer[1] = "M")
      /\ lines' = <<[text |-> SubSeq(buffer, 1, p3 - 1), long |-> FALSE]>>
      /\ phase' = "headers" /\ Size - (p3 + 1) >= MinHeader
  BY <1>4 DEF ParseFirst, Goto
<1>6. p1 \in 1..Size /\ p1 \in Spaces(1) /\ \A i \in Spaces(1) : p1 <= i
  BY <1>2, <1>5, SpacesFirst
<1>7. p2 \in Spaces(p1 + 1) /\ \A i \in Spaces(p1 + 1) : p2 <= i
  <2>1. Spaces(p1 + 1) \in SUBSET (1..Size)
    <3> HIDE DEF p1
    <3>1. (p1 + 1)..Size \in SUBSET (1..Size)
      BY <1>2, <1>6
    <3> QED BY <3>1
  <2> HIDE DEF p1, Spaces
  <2> QED BY <1>5, <2>1, SpacesFirst DEF p1
<1> HIDE DEF p1, p2
<1>8. p2 \in (p1 + 1)..Size /\ buffer[p2] = "SP" /\ buffer[p1] = "SP"
  BY <1>6, <1>7
<1>9. ASSUME NEW i \in 1..(p2 - 1), buffer[i] = "SP" PROVE i = p1
  <2>1. CASE i < p1
    <3>1. i \in 1..Size
      BY <1>2, <1>6, <1>9, <2>1
    <3>2. \A e \in Ends(1) : i < e
      BY <1>2, <1>6, <1>9, <2>1
    <3>3. i \in Spaces(1)
      BY <1>9, <3>1, <3>2
    <3> HIDE DEF Spaces
    <3> QED BY <1>6, <1>9, <2>1, <3>1, <3>3
  <2>2. CASE i > p1
    <3>1. i \in (p1 + 1)..Size
      BY <1>2, <1>6, <1>8, <1>9, <2>2
    <3>2. \A e \in Ends(p1 + 1) : p2 < e
      BY <1>7
    <3>3. \A e \in Ends(p1 + 1) : i < e
      BY <1>2, <1>6, <1>8, <1>9, <3>2
    <3>4. i \in Spaces(p1 + 1)
      BY <1>9, <3>1, <3>3
    <3>5. p2 <= i
      <4> HIDE DEF Spaces
      <4> QED BY <1>7, <3>4
    <3> QED BY <1>2, <1>6, <1>8, <1>9, <3>5
  <2> QED BY <1>2, <1>6, <1>8, <1>9, <2>1, <2>2
<1> HIDE DEF Spaces
<1>10. p1 \in 1..(p2 - 1) /\ p2 \in 1..Size
  BY <1>2, <1>6, <1>8
<1>11. p3 \in p2..(Size - 1) /\ p3 \in Breaks(buffer, p2, Size)
       /\ \A q \in Breaks(buffer, p2, Size) : p3 <= q
  <2>1. Breaks(buffer, p2, Size) \in SUBSET (p2..(Size - 1))
    BY DEF Breaks
  <2>2. Breaks(buffer, p2, Size) \in SUBSET (1..Size)
    BY <1>2, <1>10, <2>1
  <2>3. p3 \in Breaks(buffer, p2, Size) /\ \A q \in Breaks(buffer, p2, Size) : p3 <= q
    BY <1>5, <2>2, SpacesFirst
  <2> QED BY <2>1, <2>3
<1> HIDE DEF p3
<1>12. \A i \in 1..(p2 - 1) : buffer[i] = "SP" <=> i = p1
  BY <1>8, <1>9
<1>13. ParsedAt(p2, p3)
  BY <1>5, <1>8, <1>10, <1>11, <1>12 DEF ParsedAt
<1> QED BY <1>13

LEMMA ParseTypes == Bounds /\ Unparsed /\ ParseFirst /\ base' <= used => Bounds' /\ Unparsed'
<1> SUFFICES ASSUME Bounds, Unparsed, ParseFirst, base' <= used PROVE Bounds' /\ Unparsed'
  OBVIOUS
<1>1. /\ phase = "parse" /\ UNCHANGED <<request, cut, whole, got, pos, remaining, skipped>>
      /\ \/ phase' = "dropped" /\ UNCHANGED <<base, used, buffer, post, lines>>
         \/ \E p2, p3 : ParsedAt(p2, p3)
  BY ParseIs, Zenon
<1>2. base = 0 /\ pos = 0 /\ skipped = 0
  BY <1>1 DEF Unparsed
<1>3. CASE phase' = "dropped" /\ UNCHANGED <<base, used, buffer, post, lines>>
  BY <1>1, <1>3 DEF Bounds, Typed, TypeOK, Room, Unparsed, Reading
<1>4. CASE \E p2, p3 : ParsedAt(p2, p3)
  <2>1. PICK p2, p3 : ParsedAt(p2, p3)
    BY <1>4
  <2>2. Size \in Nat /\ used \in 0..Size /\ buffer \in [1..Size -> Byte]
        /\ buffer \in Seq(Byte) /\ Len(buffer) = Size
    BY <1>2, BufferIs DEF Bounds, Typed, TypeOK
  <2>3. p3 \in Nat /\ p3 + 1 <= Size /\ p3 >= 1 /\ p3 + 1 <= used /\ Size - (p3 + 1) >= MinHeader
        /\ base' = p3 + 1 /\ used' = used - (p3 + 1)
    BY <2>1, <2>2 DEF ParsedAt
  <2>4. base' \in 0..Size /\ used' \in 0..Room' /\ pos' \in 0..used' /\ skipped' \in 0..Room'
        /\ Room' > 0
    BY <1>1, <1>2, <2>2, <2>3, ReaderAssumption DEF Room
  <2>5. buffer' \in [1..Size -> Byte]
    BY <2>1, <2>2 DEF ParsedAt, Byte
  <2>6. SubSeq(buffer, 1, p3 - 1) \in Seq(Byte)
    BY <2>2, <2>3
  <2>7. lines' \in Seq([text : Seq(Byte), long : BOOLEAN])
    BY <2>1, <2>6 DEF ParsedAt
  <2>8. \A i \in DOMAIN lines' : lines'[i].long \in BOOLEAN
    BY <2>7, LongIs
  <2>9. post' \in BOOLEAN /\ phase' = "headers"
    BY <2>1 DEF ParsedAt
  <2>10. used' \in (-Size)..Room' /\ pos' \in {0} \cup 0..used' /\ pos' <= used'
    BY <2>4, OffsetsIn
  <2>11. TypeOK'
    BY <1>1, <2>4, <2>5, <2>8, <2>9, <2>10 DEF Bounds, Typed, TypeOK
  <2> QED BY <2>4, <2>7, <2>9, <2>10, <2>11 DEF Bounds, Typed, Unparsed
<1> QED BY <1>1, <1>3, <1>4

\* A line is found where the unread part of the buffer has its first break.
LEMMA FoundIs ==
    ASSUME Bounds, Found # {}
    PROVE  LET p == First(Found) IN
           /\ p \in Start..(Limit - 1) /\ Found \in SUBSET Nat /\ p \in Found
           /\ \A q \in Found : p <= q
           /\ p \in 1..Size /\ p + 1 - base \in pos..used
           /\ SubSeq(buffer, Start, p - 1) \in Seq(Byte)
           /\ Len(SubSeq(buffer, Start, p - 1)) = p - Start
           /\ \A i \in 1..(p - Start) : SubSeq(buffer, Start, p - 1)[i] = buffer[base + pos + i]
<1> DEFINE p == First(Found)
<1>1. /\ Size \in Nat /\ base \in Nat /\ used \in Nat /\ pos \in Nat
      /\ base + used <= Size /\ pos <= used
      /\ buffer \in Seq(Byte) /\ Len(buffer) = Size
  BY BufferIs
<1>2. Start = base + pos + 1 /\ Limit = base + used
  BY DEF Start, Limit
<1>3. Found \in SUBSET (Start..(Limit - 1))
  BY DEF Found, Breaks
<1>4. Found \in SUBSET Nat
  BY <1>1, <1>2, <1>3
<1>5. p \in Found /\ \A q \in Found : p <= q
  BY <1>4, FirstIn
<1> HIDE DEF p
<1>6. p \in Start..(Limit - 1)
  BY <1>3, <1>5
<1>7. p \in 1..Size /\ p + 1 - base \in pos..used
  BY <1>1, <1>2, <1>6
<1>8. /\ SubSeq(buffer, Start, p - 1) \in Seq(Byte)
      /\ Len(SubSeq(buffer, Start, p - 1)) = p - Start
      /\ \A i \in 1..(p - Start) : SubSeq(buffer, Start, p - 1)[i] = buffer[base + pos + i]
  BY <1>1, <1>2, <1>6
<1> QED BY <1>4, <1>5, <1>6, <1>7, <1>8 DEF p

LEMMA TakeTypes == Bounds /\ TakeLine => Bounds' /\ Unparsed'
<1> SUFFICES ASSUME Bounds, TakeLine PROVE Bounds' /\ Unparsed'
  OBVIOUS
<1> DEFINE p == First(Found)
           line == SubSeq(buffer, Start, p - 1)
           n == p + 1 - base
<1>1. Found # {} /\ phase \in {"headers", "body"}
  BY DEF TakeLine, Reading
<1>2. /\ buffer' = [buffer EXCEPT ![p] = "NUL"]
      /\ pos' = n
      /\ lines' = Append(lines, [text |-> line, long |-> skipped # 0])
      /\ IF phase = "headers" THEN TakeHeader(line, n) ELSE TakePost(n)
      /\ skipped' = 0
      /\ UNCHANGED <<request, cut, whole, got, base, used, post>>
  BY Zenon DEF TakeLine, clientVars
<1>3. n \in pos..used /\ line \in Seq(Byte)
  BY <1>1, FoundIs, Zenon
<1> HIDE DEF p, line, n
<1>4. phase' \in {"headers", "body", "handled", "dropped"}
  BY <1>1, <1>2, Zenon DEF TakeHeader, TakePost, NoLine, Goto
<1>5. remaining' \in Int
  <2>1. request \in Requests /\ remaining \in Int /\ used \in Int
    BY BufferIs DEF Bounds, Typed, TypeOK
  <2>2. ContentLength(request) \in Int /\ NotBuffered(n) \in Int
    BY <1>3, <2>1, RequestIs, BufferIs DEF NotBuffered
  <2>3. remaining' \in {remaining, NotBuffered(n), ContentLength(request)}
    BY <1>2, Zenon DEF TakeHeader, TakePost
  <2> QED BY <2>1, <2>2, <2>3
<1>6. lines' \in Seq([text : Seq(Byte), long : BOOLEAN])
  <2>1. [text |-> line, long |-> skipped # 0] \in [text : Seq(Byte), long : BOOLEAN]
    BY <1>3
  <2>2. lines \in Seq([text : Seq(Byte), long : BOOLEAN])
    BY DEF Bounds, Typed
  <2> QED BY <1>2, <2>1, <2>2
<1>7. \A i \in DOMAIN lines' : lines'[i].long \in BOOLEAN
  BY <1>6, LongIs
<1>8. buffer' \in [1..Size -> Byte]
  BY <1>2 DEF Bounds, Typed, TypeOK, Byte
<1>9. base' \in 0..Size /\ used' \in 0..Room' /\ pos' \in 0..used' /\ skipped' \in 0..Room'
  BY <1>2, <1>3, BufferIs DEF Room
<1>10. used' \in (-Size)..Room' /\ pos' \in {0} \cup 0..used' /\ pos' <= used'
  BY <1>9, OffsetsIn
<1>11. TypeOK'
  <2>1. /\ request \in Requests /\ cut \in 0..Len(Bytes(request)) /\ got \in 0..cut
        /\ whole \in BOOLEAN /\ post \in BOOLEAN
    BY DEF Bounds, Typed, TypeOK
  <2> QED BY <1>2, <1>4, <1>5, <1>7, <1>8, <1>9, <1>10, <2>1 DEF TypeOK
<1>12. Room' > 0
  BY <1>1, <1>2 DEF Bounds, Typed, Reading, Room
<1> QED BY <1>4, <1>6, <1>10, <1>11, <1>12 DEF Bounds, Typed, Unparsed

\* What is left in the buffer before the next recv: the unread bytes, or the
\* last CR of a buffer that they filled.
LEMMA KeptIs ==
    ASSUME Bounds, Reading, Found = {}
    PROVE  /\ Room \in Nat /\ NewPos \in Nat /\ Kept \in Nat /\ NewPos <= Kept /\ Kept <= Room
           /\ Moved \in [1..Size -> Byte] /\ NewPos <= pos
           /\ Full => /\ pos = 0 /\ used = Room /\ NewPos = 0
                      /\ Kept = IF buffer[Size] = "CR" THEN 1 ELSE 0
                      /\ Moved[base + 1] = buffer[Size]
           /\ ~Full => /\ Kept - NewPos = used - pos
                       /\ \A i \in 1..(used - pos) : Moved[base + NewPos + i] = buffer[base + pos + i]
<1>1. /\ Size \in Nat /\ base \in Nat /\ used \in Nat /\ pos \in Nat /\ Room = Size - base
      /\ base + used <= Size /\ pos <= used /\ base <= Size
      /\ buffer \in Seq(Byte) /\ Len(buffer) = Size
  BY BufferIs
<1>2. Room > 0 /\ buffer \in [1..Size -> Byte]
  BY DEF Bounds, Typed, TypeOK
<1>3. CASE Full
  <2>1. pos = 0 /\ used = Room /\ ~Movable
    BY <1>1, <1>3 DEF Full, Movable
  <2>2. NewPos = 0 /\ Kept = IF buffer[Size] = "CR" THEN 1 ELSE 0
    BY <1>3, <2>1 DEF NewPos, Kept, LastCR
  <2>3. Moved = [buffer EXCEPT ![base + 1] = buffer[Size]]
    BY <1>3 DEF Moved
  <2>4. base + 1 \in 1..Size /\ Size \in 1..Size
    BY <1>1, <1>2
  <2>5. Moved \in [1..Size -> Byte] /\ Moved[base + 1] = buffer[Size]
    BY <1>2, <2>3, <2>4
  <2> QED BY <1>1, <1>2, <1>3, <2>1, <2>2, <2>5
<1>4. CASE ~Full /\ Movable
  <2> DEFINE s == SubSeq(buffer, Start, Limit)
  <2>1. pos > 0 /\ pos < used /\ NewPos = 0 /\ Kept = used - pos
    BY <1>4 DEF Movable, NewPos, Kept
  <2>2. /\ s \in Seq(Byte) /\ Len(s) = used - pos
        /\ \A i \in 1..(used - pos) : s[i] = buffer[base + pos + i]
    BY <1>1, <2>1 DEF Start, Limit
  <2>3. Moved = Copied(buffer, base + 1, s)
    BY <1>4 DEF Moved
  <2> HIDE DEF s
  <2>4. base + 1 \in Nat \ {0} /\ base + 1 + Len(s) - 1 <= Size
    BY <1>1, <2>2, SMTT(30)
  <2>5. Copies(Moved, buffer, base + 1, s)
    BY <1>2, <2>2, <2>3, <2>4, CopiedIs
  <2>6. ASSUME NEW i \in 1..(used - pos) PROVE Moved[base + NewPos + i] = buffer[base + pos + i]
    <3>1. Moved[base + 1 + i - 1] = s[i] /\ base + 1 + i - 1 = base + NewPos + i
      BY <1>1, <2>1, <2>2, <2>5, <2>6 DEF Copies
    <3> QED BY <2>2, <3>1
  <2>7. Moved \in [1..Size -> Byte]
    BY <2>5 DEF Copies
  <2> QED BY <1>1, <1>4, <2>1, <2>6, <2>7
<1>5. CASE ~Full /\ ~Movable
  <2>1. NewPos = pos /\ Kept = used /\ Moved = buffer
    BY <1>5 DEF NewPos, Kept, Moved
  <2> QED BY <1>1, <1>2, <1>5, <2>1
<1> QED BY <1>3, <1>4, <1>5

\* What recv appends to it.
Received(s) ==
    /\ s \in Seq(Byte) /\ Len(s) \in Nat \ {0} /\ got + Len(s) <= cut
    /\ \A i \in 1..Len(s) : s[i] = Bytes(request)[got + i]
    /\ got' = got + Len(s) /\ used' = Kept + Len(s) /\ used' <= Room
    /\ Copies(buffer', Moved, base + Kept + 1, s)
    /\ remaining' \in Int /\ Kept < Room /\ phase' = phase

LEMMA RefillIs ==
    ASSUME Bounds, Refill
    PROVE  /\ Reading /\ Found = {}
           /\ skipped' = IF Full THEN Room - Kept ELSE skipped
           /\ pos' = NewPos
           /\ UNCHANGED <<request, cut, whole, base, post, lines>>
           /\ \/ /\ phase' \in {"handled", "dropped"}
                 /\ buffer' = Moved /\ used' = Kept /\ UNCHANGED <<got, remaining>>
              \/ \E s : Received(s)
<1>1. /\ Reading /\ Found = {}
      /\ skipped' = IF Full THEN Room - Kept ELSE skipped
      /\ pos' = NewPos
      /\ UNCHANGED <<request, cut, whole, base, post, lines>>
  BY Zenon DEF Refill, clientVars
<1>2. CASE NoLine /\ buffer' = Moved /\ used' = Kept /\ UNCHANGED <<got, remaining>>
  BY <1>1, <1>2 DEF NoLine, Goto
<1>3. CASE /\ Avail > 0
           /\ \E s \in Segments(Avail) :
                /\ got' = got + Len(s) /\ used' = Kept + Len(s)
                /\ buffer' = Copied(Moved, base + Kept + 1, s)
                /\ remaining' = IF phase = "body" THEN remaining - Len(s) ELSE remaining
           /\ UNCHANGED phase
  <2>1. PICK s \in Segments(Avail) :
          /\ got' = got + Len(s) /\ used' = Kept + Len(s)
          /\ buffer' = Copied(Moved, base + Kept + 1, s)
          /\ remaining' = IF phase = "body" THEN remaining - Len(s) ELSE remaining
    BY <1>3
  <2>2. /\ Room \in Nat /\ Kept \in Nat /\ Kept <= Room /\ Moved \in [1..Size -> Byte]
    BY <1>1, KeptIs
  <2>3. request \in Requests /\ cut \in 0..Len(Bytes(request)) /\ got \in 0..cut /\ remaining \in Int
    BY DEF Bounds, Typed, TypeOK
  <2>4. Avail \in Int /\ Avail <= Room - Kept
    BY <2>2, <2>3 DEF Avail
  <2>5. /\ s \in Seq(Byte) /\ Len(s) \in 1..Avail /\ got + Len(s) <= cut
        /\ \A i \in 1..Len(s) : s[i] = Bytes(request)[got + i]
    BY <2>3, <2>4, SegmentIs
  <2>6. base \in Nat /\ Size \in Nat /\ Room = Size - base
    BY BufferIs
  <2>7. base + Kept + 1 \in Nat \ {0} /\ base + Kept + 1 + Len(s) - 1 <= Size
    BY <2>2, <2>4, <2>5, <2>6
  <2>8. Copies(buffer', Moved, base + Kept + 1, s)
    BY <2>1, <2>2, <2>5, <2>7, CopiedIs
  <2>9. Len(s) \in Nat \ {0} /\ used' <= Room /\ Kept < Room
    BY <2>1, <2>2, <2>4, <2>5
  <2>10. remaining' \in Int
    BY <2>1, <2>3, <2>9
  <2>11. Received(s)
    BY <1>3, <2>1, <2>5, <2>8, <2>9, <2>10 DEF Received
  <2> QED BY <1>1, <2>11
<1> QED BY <1>2, <1>3 DEF Refill

LEMMA RefillTypes == Bounds /\ Refill => Bounds' /\ Unparsed'
<1> SUFFICES ASSUME Bounds, Refill PROVE Bounds' /\ Unparsed'
  OBVIOUS
<1>1. /\ Reading /\ Found = {}
      /\ skipped' = IF Full THEN Room - Kept ELSE skipped
      /\ pos' = NewPos
      /\ UNCHANGED <<request, cut, whole, base, post, lines>>
      /\ \/ /\ phase' \in {"handled", "dropped"}
            /\ buffer' = Moved /\ used' = Kept /\ UNCHANGED <<got, remaining>>
         \/ \E s : Received(s)
  BY RefillIs, Zenon
<1>2. /\ Room \in Nat /\ NewPos \in Nat /\ Kept \in Nat /\ NewPos <= Kept /\ Kept <= Room
      /\ Moved \in [1..Size -> Byte]
  BY <1>1, KeptIs
<1>3. /\ request \in Requests /\ cut \in 0..Len(Bytes(request)) /\ got \in 0..cut
      /\ whole \in BOOLEAN /\ post \in BOOLEAN /\ base \in 0..Size /\ remaining \in Int
      /\ skipped \in 0..Room /\ \A i \in DOMAIN lines : lines[i].long \in BOOLEAN
  BY DEF Bounds, Typed, TypeOK
<1>4. Room' = Room /\ Room > 0 /\ skipped' \in 0..Room'
  BY <1>1, <1>2, <1>3 DEF Room, Bounds, Typed
<1>5. /\ phase' \in {"headers", "body", "handled", "dropped"} /\ buffer' \in [1..Size -> Byte]
      /\ used' \in Nat /\ used' <= Room /\ Kept <= used' /\ got' \in 0..cut' /\ remaining' \in Int
  <2>1. CASE /\ phase' \in {"handled", "dropped"}
             /\ buffer' = Moved /\ used' = Kept /\ UNCHANGED <<got, remaining>>
    BY <1>1, <1>2, <1>3, <2>1
  <2>2. ASSUME NEW s, Received(s)
        PROVE  /\ phase' \in {"headers", "body"} /\ buffer' \in [1..Size -> Byte]
               /\ used' \in Nat /\ used' <= Room /\ Kept <= used' /\ got' \in 0..cut'
               /\ remaining' \in Int
    <3>1. cut \in Nat
      BY <1>3, RequestIs
    <3>2. phase' \in {"headers", "body"} /\ buffer' \in [1..Size -> Byte] /\ remaining' \in Int
      BY <1>1, <2>2 DEF Received, Reading, Copies
    <3>3. used' \in Nat /\ used' <= Room /\ Kept <= used' /\ got' \in 0..cut'
      <4>1. /\ Len(s) \in Nat /\ got + Len(s) <= cut /\ got' = got + Len(s)
            /\ used' = Kept + Len(s) /\ used' <= Room
        BY <2>2 DEF Received
      <4> QED BY <1>1, <1>2, <1>3, <3>1, <4>1
    <3> QED BY <3>2, <3>3
  <2> QED BY <1>1, <2>1, <2>2
<1>6. used' \in 0..Room' /\ pos' \in 0..used'
  BY <1>1, <1>2, <1>4, <1>5
<1>7. used' \in (-Size)..Room' /\ pos' \in {0} \cup 0..used' /\ pos' <= used'
  BY <1>6, OffsetsIn
<1>8. TypeOK'
  BY <1>1, <1>3, <1>4, <1>5, <1>7 DEF TypeOK
<1> QED BY <1>1, <1>4, <1>5, <1>7, <1>8 DEF Bounds, Typed, Unparsed

LEMMA InitTypes == Init => Bounds /\ Unparsed
<1> SUFFICES ASSUME Init PROVE Bounds /\ Unparsed
  OBVIOUS
<1>1. request \in Requests /\ cut \in 0..Len(Bytes(request)) /\ got \in 0..cut
  BY RequestIs DEF Init
<1>2. buffer \in [1..Size -> Byte]
  BY ReaderAssumption DEF Init
<1>3. TypeOK
  <2>1. lines = <<>> /\ DOMAIN lines = {}
    BY DEF Init
  <2>2. base \in 0..Size /\ used \in 0..Room /\ pos \in 0..used /\ skipped \in 0..Room
    BY ReaderAssumption DEF Init, Room
  <2>3. \A i \in DOMAIN lines : lines[i].long \in BOOLEAN
    BY <2>1
  <2>4. whole \in BOOLEAN /\ post \in BOOLEAN
    BY Zenon DEF Init
  <2>5. remaining \in Int /\ phase = "first"
    BY DEF Init
  <2>6. used \in (-Size)..Room /\ pos \in {0} \cup 0..used
    BY <2>2, OffsetsIn
  <2> QED BY <1>1, <1>2, <2>2, <2>3, <2>4, <2>5, <2>6 DEF TypeOK
<1> QED BY <1>3 DEF Init, Bounds, Typed, Unparsed, Reading

LEMMA IdleTypes ==
    ASSUME Bounds, Unparsed,
           \/ UNCHANGED vars
           \/ phase' = "dropped" /\ UNCHANGED <<request, cut, whole, got, buffer, base, used, pos,
                                                skipped, post, remaining, lines>>
    PROVE  Bounds' /\ Unparsed'
<1>1. CASE UNCHANGED vars
  BY <1>1 DEF Bounds, Typed, Unparsed, TypeOK, Room, Reading, vars, clientVars, bufferVars
<1>2. CASE phase' = "dropped" /\ UNCHANGED <<request, cut, whole, got, buffer, base, used, pos,
                                             skipped, post, remaining, lines>>
  BY <1>2 DEF Bounds, Typed, Unparsed, TypeOK, Room, Reading
<1> QED BY <1>1, <1>2

LEMMA ParseBehind ==
    ASSUME Bounds, Unparsed, ParseFirst, base' > used
    PROVE  Behind' /\ Unparsed'
<1>1. phase = "parse" /\ base = 0 /\ pos = 0 /\ skipped = 0
  BY DEF ParseFirst, Unparsed
<1>2. /\ Size \in Nat /\ used \in 0..Size /\ buffer \in [1..Size -> Byte]
      /\ buffer \in Seq(Byte) /\ Len(buffer) = Size
  BY <1>1, BufferIs DEF Bounds, Typed, TypeOK
<1>3. base' # base
  BY <1>1, <1>2
<1>4. /\ UNCHANGED <<request, cut, whole, got, pos, remaining, skipped>>
      /\ \E p2, p3 : ParsedAt(p2, p3)
  BY <1>3, ParseIs, Zenon
<1>5. PICK p2, p3 : ParsedAt(p2, p3)
  BY <1>4
<1>6. p3 \in Nat /\ p3 >= 1 /\ Size - (p3 + 1) >= MinHeader
      /\ base' = p3 + 1 /\ used' = used - (p3 + 1)
  BY <1>2, <1>5 DEF ParsedAt
<1>7. MinHeader \in Nat \ {0}
  BY ReaderAssumption
<1>8. /\ base' \in 0..Size /\ used' \in (-Size)..Room' /\ pos' = 0 /\ pos' > used'
      /\ skipped' \in 0..Room' /\ Room' > 0
  BY <1>1, <1>2, <1>4, <1>6, <1>7 DEF Room
<1>9. buffer' \in [1..Size -> Byte]
  BY <1>2, <1>5 DEF ParsedAt, Byte
<1>10. SubSeq(buffer, 1, p3 - 1) \in Seq(Byte)
  <2>1. p3 - 1 \in Nat /\ p3 - 1 <= Size
    BY <1>2, <1>6, <1>7
  <2>2. \A i \in 1..(p3 - 1) : buffer[i] \in Byte
    BY <1>2, <2>1
  <2> QED BY <2>1, <2>2
<1>11. lines' \in Seq([text : Seq(Byte), long : BOOLEAN])
  BY <1>5, <1>10 DEF ParsedAt
<1>12. \A i \in DOMAIN lines' : lines'[i].long \in BOOLEAN
  BY <1>11, LongIs
<1>13. post' \in BOOLEAN /\ phase' = "headers"
  BY <1>5 DEF ParsedAt
<1>14. TypeOK'
  BY <1>4, <1>8, <1>9, <1>12, <1>13 DEF Bounds, Typed, TypeOK
<1> QED BY <1>8, <1>11, <1>13, <1>14 DEF Behind, Typed, Unparsed

\* Then nothing but the early return is left, or nothing at all.
LEMMA BehindEnds == Behind /\ Unparsed /\ [Next]_vars => Behind' /\ Unparsed'
<1> SUFFICES ASSUME Behind, Unparsed, [Next]_vars PROVE Behind' /\ Unparsed'
  OBVIOUS
<1>1. Typed /\ pos > used /\ ~(pos <= used) /\ phase \in {"headers", "dropped"}
  <2>1. Typed /\ pos > used /\ phase \in {"headers", "dropped"}
    BY DEF Behind
  <2>2. Size \in Nat /\ used \in (-Size)..Room /\ pos \in {0} \cup 0..used /\ base \in 0..Size
    BY <2>1, ReaderAssumption DEF Typed, TypeOK
  <2> QED BY <2>1, <2>2 DEF Room
<1>2. ~RecvLine /\ ~ParseFirst /\ ~HangUp /\ ~TakeLine /\ ~Refill
  BY <1>1 DEF RecvLine, ParseFirst, HangUp, TakeLine, Refill
<1>3. CASE Beyond
  <2>1. /\ phase' = "dropped"
        /\ UNCHANGED <<request, cut, whole, got, buffer, base, used, pos, skipped, post,
                       remaining, lines>>
    BY <1>1, <1>3 DEF Beyond, NoLine, Goto, Reading, clientVars, bufferVars
  <2> QED BY <1>1, <2>1 DEF Behind, Typed, TypeOK, Room, Reading, Unparsed
<1>4. CASE UNCHANGED vars
  BY <1>1, <1>4 DEF Behind, Typed, Unparsed, TypeOK, Room, Reading, vars, clientVars, bufferVars
<1> QED BY <1>2, <1>3, <1>4 DEF Next, Finished

\* The offsets stay inside of the buffer, whatever malloc left in it, whatever
\* the client sends and however it is cut, and none is used that lies behind
\* what was received: the early return at httpserver.c:64 catches the end of a
\* first line that an earlier request left there.
THEOREM TypesAreCorrect == Spec => []TypeOK
<1> DEFINE Inv == (Bounds \/ Behind) /\ Unparsed
<1>1. Init => Inv
  BY InitTypes
<1>2. Inv /\ [Next]_vars => Inv'
  <2> SUFFICES ASSUME Bounds, Unparsed, [Next]_vars PROVE Inv'
    BY BehindEnds
  <2>1. CASE RecvLine
    BY <2>1, RecvTypes
  <2>2. CASE ParseFirst
    <3>1. base' <= used \/ base' > used
      <4>1. base' \in Int /\ used \in Int
        BY <2>2, BufferIs, ParseIs DEF ParsedAt
      <4> QED BY <4>1
    <3> QED BY <2>2, <3>1, ParseTypes, ParseBehind
  <2>3. CASE Beyond
    BY <2>3, BufferIs DEF Beyond
  <2>4. CASE TakeLine
    BY <2>4, TakeTypes
  <2>5. CASE Refill
    BY <2>5, RefillTypes
  <2>6. CASE HangUp
    <3>1. phase' = "dropped" /\ UNCHANGED <<request, cut, whole, got, buffer, base, used, pos,
                                             skipped, post, remaining, lines>>
      BY <2>6 DEF HangUp, Goto, clientVars, bufferVars
    <3> QED BY <3>1, IdleTypes
  <2>7. CASE Finished \/ UNCHANGED vars
    <3>1. UNCHANGED vars
      BY <2>7 DEF Finished
    <3> QED BY <3>1, IdleTypes
  <2> QED BY <2>1, <2>2, <2>3, <2>4, <2>5, <2>6, <2>7 DEF Next
<1>3. Inv => TypeOK
  BY DEF Bounds, Behind, Typed
<1> QED BY <1>1, <1>2, <1>3, PTL DEF Spec

-----------------------------------------------------------------------------
(* Lines: the unread bytes are those of the stream that follow the lines    *)
(* taken so far, or the rest of a line whose beginning was discarded        *)

LEMMA BeginsAre ==
    ASSUME request \in Requests, NEW k \in 0..Len(Lines(request))
    PROVE  LET st == Begins(request)
               b == Bytes(request)
               x == Lines(request)[k + 1]
           IN /\ st[k] \in Nat /\ st[0] = 0 /\ Len(b) \in Nat /\ b \in Seq(Byte)
              /\ k = Len(Lines(request)) => st[k] = Len(b)
              /\ k < Len(Lines(request)) =>
                   /\ x \in Texts /\ Len(x) \in Nat /\ LineAt(b, st[k], x)
                   /\ st[k + 1] = st[k] + Len(x) + 2
<1> DEFINE st == Begins(request)
           b == Bytes(request)
           ls == Lines(request)
<1>1. /\ ls \in Seq(Texts) /\ Len(ls) \in Nat /\ b \in Seq(Byte) /\ Len(b) \in Nat
      /\ Laid(b, ls, st)
  BY RequestIs
<1> HIDE DEF st, b, ls
<1>2. k = Len(ls) => st[k] = Len(b)
  BY <1>1 DEF Laid, LaidUpTo
<1>3. ASSUME k < Len(ls)
      PROVE  /\ ls[k + 1] \in Texts /\ Len(ls[k + 1]) \in Nat /\ LineAt(b, st[k], ls[k + 1])
             /\ st[k + 1] = st[k] + Len(ls[k + 1]) + 2
  <2>1. k \in 0..(Len(ls) - 1) /\ k + 1 \in 1..Len(ls)
    BY <1>1, <1>3 DEF ls
  <2>2. ls[k + 1] \in Texts /\ Len(ls[k + 1]) \in Nat
    BY <1>1, <2>1 DEF Texts
  <2> QED BY <1>1, <2>1, <2>2 DEF Laid, LaidUpTo
<1>4. st[k] \in Nat
  <2>1. k < Len(ls) \/ k = Len(ls)
    BY <1>1 DEF ls
  <2> QED BY <1>1, <1>2, <1>3, <2>1 DEF LineAt
<1> QED BY <1>1, <1>2, <1>3, <1>4 DEF Laid, st, b, ls

\* How much of the stream has been taken out of the buffer.
Taken == got - (used - pos)

Aligned ==
    LET k == Len(lines)
        a == Begins(request)[k]
    IN /\ k <= Len(Lines(request)) /\ a <= Taken
       /\ skipped = 0 => Taken = a
       /\ skipped # 0 => k < Len(Lines(request)) /\ Taken <= a + Len(Lines(request)[k + 1])
       /\ \A i \in 1..(used - pos) : buffer[base + pos + i] = Bytes(request)[Taken + i]

\* A first segment that holds the first line.
Whole ==
    /\ phase = "first" => got = 0 \/ got = cut
    /\ phase = "first" => used = got
    /\ phase = "parse" => /\ used = got /\ got >= Len(FirstLine(request)) + 2
                          /\ \A i \in 1..got : buffer[i] = Bytes(request)[i]
    /\ Reading => Aligned

LinesInv == whole => Bounds /\ Unparsed /\ Whole /\ LinesAreSent

\* The next line of the stream, from a place inside of it, ends at the first
\* break of the buffer.
LEMMA NextBreak ==
    ASSUME Bounds, Aligned, Len(lines) < Len(Lines(request))
    PROVE  LET e == Begins(request)[Len(lines)] + Len(Lines(request)[Len(lines) + 1]) + 1
               p == base + pos + (e - Taken)
           IN /\ e \in Nat /\ Taken \in Nat /\ Taken < e
              /\ e + 1 <= got => p \in Found
              /\ \A q \in Found : p <= q
              /\ \A i \in (Taken + 1)..(e - 1) : Bytes(request)[i] # "CR"
              /\ Bytes(request)[e] = "CR"
<1> DEFINE k == Len(lines)
           a == Begins(request)[k]
           b == Bytes(request)
           x == Lines(request)[k + 1]
           e == a + Len(x) + 1
           p == base + pos + (e - Taken)
<1>1. request \in Requests /\ k \in 0..Len(Lines(request)) /\ k < Len(Lines(request))
  <2>1. request \in Requests /\ Len(Lines(request)) \in Nat
    BY RequestIs DEF Bounds, Typed, TypeOK
  <2>2. k \in Nat
    BY DEF Bounds, Typed
  <2> QED BY <2>1, <2>2
<1>2. a \in Nat /\ x \in Texts /\ Len(x) \in Nat /\ LineAt(b, a, x) /\ Len(b) \in Nat
  BY <1>1, BeginsAre
<1>3. a <= Taken /\ (skipped = 0 => Taken = a) /\ (skipped # 0 => Taken <= a + Len(x))
      /\ \A i \in 1..(used - pos) : buffer[base + pos + i] = b[Taken + i]
  BY DEF Aligned
<1> HIDE DEF k, a, b, x
<1>4. /\ Size \in Nat /\ base \in Nat /\ used \in Nat /\ pos \in Nat
      /\ base + used <= Size /\ pos <= used
  BY BufferIs
<1>5. got \in Nat
  <2>1. request \in Requests /\ cut \in 0..Len(b) /\ got \in 0..cut
    BY DEF Bounds, Typed, TypeOK, b
  <2> QED BY <1>2, <2>1
<1>6. Taken \in Int /\ Taken = got - (used - pos)
  BY <1>4, <1>5 DEF Taken
<1>7. e \in Nat /\ Taken \in Nat /\ Taken < e
  BY <1>2, <1>3, <1>6
<1>8. ASSUME NEW i \in (Taken + 1)..(e - 1) PROVE b[i] \notin {"CR", "NUL"}
  <2> DEFINE j == i - a
  <2>1. j \in 1..Len(x) /\ a + j = i
    BY <1>2, <1>3, <1>7, <1>8
  <2>2. x[j] \in Byte \ {"CR", "NUL"}
    <3>1. x \in Seq(Byte \ {"CR", "NUL"})
      BY <1>2 DEF Texts
    <3> QED BY <2>1, <3>1
  <2>3. b[a + j] = x[j]
    BY <1>2, <2>1 DEF LineAt
  <2> QED BY <2>1, <2>2, <2>3
<1>9. b[e] = "CR" /\ b[e + 1] = "LF"
  <2>1. a + Len(x) + 2 = e + 1
    BY <1>2
  <2> QED BY <1>2, <2>1 DEF LineAt
<1>10. Start = base + pos + 1 /\ Limit = base + used
  BY DEF Start, Limit
<1>11. ASSUME e + 1 <= got PROVE p \in Found
  <2>1. e - Taken \in 1..(used - pos) /\ e - Taken + 1 \in 1..(used - pos)
    BY <1>4, <1>5, <1>6, <1>7, <1>11
  <2>2. p \in Start..(Limit - 1)
    BY <1>4, <1>10, <2>1
  <2>3. buffer[p] = "CR"
    <3> DEFINE i == e - Taken
    <3>1. i \in 1..(used - pos) /\ Taken + i = e /\ base + pos + i = p
      BY <1>7, <2>1
    <3> HIDE DEF i
    <3>2. buffer[base + pos + i] = b[Taken + i]
      BY <1>3, <3>1
    <3> QED BY <1>9, <3>1, <3>2
  <2>4. buffer[p + 1] = "LF"
    <3> DEFINE i == e - Taken + 1
    <3>1. i \in 1..(used - pos) /\ Taken + i = e + 1 /\ base + pos + i = p + 1
      BY <1>4, <1>7, <2>1
    <3> HIDE DEF i
    <3>2. buffer[base + pos + i] = b[Taken + i]
      BY <1>3, <3>1
    <3> QED BY <1>9, <3>1, <3>2
  <2>5. ASSUME NEW j \in Start..p PROVE buffer[j] # "NUL"
    <3> DEFINE i == j - (base + pos)
    <3>1. i \in 1..(e - Taken) /\ base + pos + i = j /\ i \in 1..(used - pos)
      BY <1>4, <1>7, <1>10, <2>1, <2>5
    <3>2. buffer[j] = b[Taken + i]
      <4> HIDE DEF i
      <4> QED BY <1>3, <3>1
    <3>3. Taken + i \in (Taken + 1)..(e - 1) \/ Taken + i = e
      <4> HIDE DEF i
      <4> QED BY <1>7, <3>1
    <3> QED BY <1>8, <1>9, <3>2, <3>3
  <2> HIDE DEF p
  <2> QED BY <2>2, <2>3, <2>4, <2>5 DEF Found, Breaks
<1>12. ASSUME NEW q \in Found, q < p PROVE FALSE
  <2>1. q \in Start..(Limit - 1) /\ buffer[q] = "CR"
    BY DEF Found, Breaks
  <2> DEFINE i == q - (base + pos)
  <2>2. i \in 1..(used - pos) /\ base + pos + i = q /\ Taken + i \in (Taken + 1)..(e - 1)
    BY <1>4, <1>7, <1>10, <1>12, <2>1
  <2>3. buffer[q] = b[Taken + i]
    <3> HIDE DEF i
    <3> QED BY <1>3, <2>2
  <2> HIDE DEF i
  <2> QED BY <1>8, <2>1, <2>2, <2>3
<1>13. \A q \in Found : p <= q
  <2>1. p \in Int
    BY <1>4, <1>7
  <2>2. \A q \in Found : q \in Int
    BY <1>4, <1>10 DEF Found, Breaks
  <2> HIDE DEF p
  <2> QED BY <1>12, <2>1, <2>2
<1> QED BY <1>7, <1>8, <1>9, <1>11, <1>13 DEF k, a, b, x

LEMMA OpeningIs ==
    ASSUME request \in Requests
    PROVE  LET b == Bytes(request) IN
           /\ Len(FirstLine(request)) = 5 /\ Len(FirstLine(request) \o CRLF) = 7
           /\ \A i \in 1..5 : b[i] = FirstLine(request)[i]
           /\ b[1] \notin {"SP", "CR", "NUL"} /\ b[2] = "SP" /\ b[3] = "x" /\ b[4] = "SP"
           /\ b[5] = "x" /\ b[6] = "CR" /\ b[7] = "LF" /\ Begins(request)[1] = 7
<1> DEFINE b == Bytes(request)
           x == FirstLine(request)
<1>1. /\ Len(x) = 5 /\ x[1] \notin {"SP", "CR", "NUL"} /\ x[2] = "SP" /\ x[3] = "x"
      /\ x[4] = "SP" /\ x[5] = "x"
  BY DEF FirstLine
<1> DEFINE ls == Lines(request)
           st == Begins(request)
<1>2. 0 \in 0..Len(ls) /\ 0 < Len(ls) /\ ls[1] = x
  BY RequestIs
<1> HIDE DEF x, b, ls, st
<1>3. st[0] = 0 /\ LineAt(b, st[0], ls[0 + 1]) /\ st[0 + 1] = st[0] + Len(ls[0 + 1]) + 2
      /\ ls[0 + 1] \in Texts
  BY <1>2, BeginsAre, Zenon DEF b, ls, st
<1>4. LineAt(b, 0, x) /\ x \in Texts /\ st[1] = 7
  <2>1. ls[0 + 1] = x /\ st[0 + 1] = st[1]
    BY <1>2
  <2>2. LineAt(b, 0, x) /\ x \in Texts /\ st[1] = 0 + Len(x) + 2
    BY <1>3, <2>1, Zenon
  <2> QED BY <1>1, <2>2
<1>5. (\A j \in 1..5 : b[j] = x[j]) /\ b[6] = "CR" /\ b[7] = "LF"
  BY <1>1, <1>4 DEF LineAt
<1>6. Len(x \o CRLF) = 7
  <2>1. Len(x \o CRLF) = Len(x) + 2
    BY <1>4, PieceIs, Zenon
  <2> QED BY <1>1, <2>1
<1> QED BY <1>1, <1>4, <1>5, <1>6 DEF x, b, st

LEMMA RecvLines == whole /\ Bounds /\ Unparsed /\ Whole /\ RecvLine => Whole' /\ LinesAreSent'
<1> SUFFICES ASSUME whole, Bounds, Unparsed, Whole, RecvLine PROVE Whole' /\ LinesAreSent'
  OBVIOUS
<1> DEFINE b == Bytes(request)
<1>1. phase = "first" /\ base = 0 /\ lines = <<>> /\ used = got /\ (got = 0 \/ got = cut)
  BY DEF RecvLine, Unparsed, Whole
<1>2. Size \in Nat /\ used \in 0..Size /\ got \in 0..cut /\ request \in Requests
      /\ cut \in 0..Len(b) /\ buffer \in [1..Size -> Byte] /\ Len(b) \in Nat
  BY <1>1, BufferIs, RequestIs DEF Bounds, Typed, TypeOK
<1>3. UNCHANGED <<request, cut, whole, lines>>
  BY DEF RecvLine, clientVars
<1>4. PICK s \in Segments(Size - used) :
        /\ got + Len(s) = cut \/ Len(s) >= Len(FirstLine(request) \o CRLF)
        /\ got' = got + Len(s) /\ used' = used + Len(s)
        /\ buffer' = Copied(buffer, 1, s)
        /\ IF Breaks(buffer', 1, used') # {} THEN Goto("parse")
           ELSE IF used' = Size THEN Goto("dropped") ELSE UNCHANGED phase
  BY DEF RecvLine
<1>5. /\ s \in Seq(Byte) /\ Len(s) \in 1..(Size - used) /\ got + Len(s) <= cut
      /\ \A i \in 1..Len(s) : s[i] = b[got + i]
  BY <1>2, SegmentIs
<1>6. got = 0 /\ used = 0 /\ got' = Len(s) /\ used' = Len(s) /\ Len(s) \in Nat /\ Len(s) <= Size
  BY <1>1, <1>2, <1>4, <1>5
<1>7. Copies(buffer', buffer, 1, s)
  BY <1>2, <1>4, <1>5, <1>6, CopiedIs
<1>8. ASSUME NEW i \in 1..Len(s) PROVE buffer'[i] = b[i]
  <2>1. 1 + i - 1 = i /\ got + i = i
    BY <1>6, <1>8
  <2>2. buffer'[1 + i - 1] = s[i]
    BY <1>7, <1>8 DEF Copies
  <2> QED BY <1>5, <1>8, <2>1, <2>2
<1>9. /\ b[1] \notin {"SP", "CR", "NUL"} /\ b[2] = "SP" /\ b[3] = "x" /\ b[4] = "SP"
      /\ b[5] = "x" /\ b[6] = "CR" /\ b[7] = "LF"
      /\ Len(FirstLine(request)) = 5 /\ Len(FirstLine(request) \o CRLF) = 7
  BY <1>2, OpeningIs
<1> HIDE DEF b
<1>10. Breaks(buffer', 1, used') # {} => got' >= 7
  <2> SUFFICES ASSUME NEW i \in Breaks(buffer', 1, used'), Len(s) < 7 PROVE FALSE
    BY <1>6
  <2>1. i \in 1..(Len(s) - 1) /\ buffer'[i] = "CR" /\ buffer'[i + 1] = "LF"
    BY <1>6 DEF Breaks
  <2>2. i \in 1..Len(s) /\ i \in 1..5
    BY <1>6, <2>1
  <2>3. b[i] = "CR"
    BY <1>8, <2>1, <2>2
  <2>4. i = 1 \/ i = 2 \/ i = 3 \/ i = 4 \/ i = 5
    BY <2>2
  <2> QED BY <1>9, <2>3, <2>4
<1>11. Len(s) >= 7 => Breaks(buffer', 1, used') # {}
  <2> SUFFICES ASSUME Len(s) >= 7 PROVE 6 \in Breaks(buffer', 1, used')
    OBVIOUS
  <2>1. \A i \in 1..7 : buffer'[i] = b[i]
    BY <1>6, <1>8
  <2>2. buffer'[6] = "CR" /\ buffer'[6 + 1] = "LF" /\ 6 \in 1..(used' - 1)
    BY <1>6, <1>9, <2>1
  <2>3. ASSUME NEW j \in 1..6 PROVE buffer'[j] # "NUL"
    <3>1. j = 1 \/ j = 2 \/ j = 3 \/ j = 4 \/ j = 5 \/ j = 6
      BY <2>3
    <3>2. buffer'[j] = b[j]
      BY <2>1, <2>3
    <3> QED BY <1>9, <3>1, <3>2
  <2> QED BY <2>2, <2>3 DEF Breaks
<1>12. phase' \in {"first", "parse", "dropped"} /\ (phase' = "first" => got' = cut')
       /\ (phase' = "parse" => got' >= 7)
  BY <1>1, <1>3, <1>4, <1>6, <1>9, <1>10, <1>11 DEF Goto
<1>13. Whole'
  BY <1>3, <1>6, <1>8, <1>9, <1>12 DEF Whole, Reading, b
<1>14. LinesAreSent'
  <2>1. lines' = <<>> /\ DOMAIN lines' = {} /\ Len(lines') = 0
    BY <1>1, <1>3
  <2>2. Len(Lines(request')) \in Nat
    BY <1>2, <1>3, RequestIs
  <2> QED BY <2>1, <2>2 DEF LinesAreSent
<1> QED BY <1>13, <1>14

LEMMA ParsedFirst ==
    ASSUME whole, Bounds, Unparsed, Whole, phase = "parse", NEW p2, NEW p3, ParsedAt(p2, p3)
    PROVE  p2 = 4 /\ p3 = 6
<1> DEFINE b == Bytes(request)
<1>1. /\ used = got /\ got >= 7 /\ \A i \in 1..got : buffer[i] = b[i]
      /\ b[1] \notin {"SP", "CR", "NUL"} /\ b[2] = "SP" /\ b[3] = "x" /\ b[4] = "SP"
      /\ b[5] = "x" /\ b[6] = "CR" /\ b[7] = "LF"
  <2>1. request \in Requests
    BY DEF Bounds, Typed, TypeOK
  <2>2. Len(FirstLine(request)) = 5
    BY <2>1, OpeningIs
  <2> QED BY <2>1, <2>2, OpeningIs DEF Whole
<1> HIDE DEF b
<1>2. Size \in Nat /\ base = 0 /\ used \in Nat /\ used <= Size
  BY BufferIs DEF Unparsed
<1>3. \A i \in 1..7 : buffer[i] = b[i]
  BY <1>1, <1>2
<1>4. /\ buffer[1] \notin {"SP", "CR", "NUL"} /\ buffer[2] = "SP" /\ buffer[3] = "x"
      /\ buffer[4] = "SP" /\ buffer[5] = "x" /\ buffer[6] = "CR" /\ buffer[7] = "LF"
  BY <1>1, <1>3
<1>5. p2 \in 1..Size /\ buffer[p2] = "SP" /\ p3 \in p2..(Size - 1) /\ p3 \in Breaks(buffer, p2, Size)
      /\ \A q \in Breaks(buffer, p2, Size) : p3 <= q
  BY DEF ParsedAt
<1>6. PICK p1 \in 1..(p2 - 1) : \A i \in 1..(p2 - 1) : buffer[i] = "SP" <=> i = p1
  BY DEF ParsedAt
<1>7. p2 <= 4
  <2> SUFFICES ASSUME p2 > 4 PROVE FALSE
    BY <1>5
  <2>1. 2 \in 1..(p2 - 1) /\ 4 \in 1..(p2 - 1)
    BY <1>5
  <2> QED BY <1>4, <1>6, <2>1
<1>8. p2 # 1 /\ p2 # 2 /\ p2 # 3
  <2>1. p2 # 1 /\ p2 # 3
    BY <1>4, <1>5
  <2>2. p2 = 2 => p1 = 1 /\ 1 \in 1..(p2 - 1)
    BY <1>6
  <2> QED BY <1>4, <1>6, <2>1, <2>2
<1>9. p2 = 4
  BY <1>5, <1>7, <1>8
<1>10. 6 \in Breaks(buffer, p2, Size)
  <2>1. 6 \in 4..(Size - 1)
    BY <1>1, <1>2
  <2>2. ASSUME NEW j \in 4..6 PROVE buffer[j] # "NUL"
    <3>1. j = 4 \/ j = 5 \/ j = 6
      BY <2>2
    <3> QED BY <1>4, <3>1
  <2> QED BY <1>4, <1>9, <2>1, <2>2 DEF Breaks
<1>11. p3 <= 6 /\ buffer[p3] = "CR"
  BY <1>5, <1>10 DEF Breaks
<1>12. p3 = 4 \/ p3 = 5 \/ p3 = 6
  BY <1>2, <1>5, <1>9, <1>11
<1> QED BY <1>4, <1>9, <1>11, <1>12

LEMMA ParseLines ==
    ASSUME whole, Bounds, Unparsed, Whole, LinesAreSent, ParseFirst
    PROVE  base' <= used /\ Whole' /\ LinesAreSent'
<1>1. /\ phase = "parse" /\ UNCHANGED <<request, cut, whole, got, pos, remaining, skipped>>
      /\ \/ phase' = "dropped" /\ UNCHANGED <<base, used, buffer, post, lines>>
         \/ \E p2, p3 : ParsedAt(p2, p3)
  BY ParseIs, Zenon
<1>2. base = 0 /\ pos = 0 /\ skipped = 0 /\ Size \in Nat /\ used \in Nat /\ used <= Size
      /\ request \in Requests /\ buffer \in [1..Size -> Byte] /\ buffer \in Seq(Byte) /\ Len(buffer) = Size
  BY <1>1, BufferIs DEF Unparsed, Bounds, Typed, TypeOK
<1>3. CASE phase' = "dropped" /\ UNCHANGED <<base, used, buffer, post, lines>>
  BY <1>1, <1>2, <1>3 DEF Whole, LinesAreSent, Reading
<1>4. ASSUME NEW p2, NEW p3, ParsedAt(p2, p3) PROVE base' <= used /\ Whole' /\ LinesAreSent'
  <2> DEFINE b == Bytes(request)
             x == FirstLine(request)
             t == SubSeq(buffer, 1, 5)
  <2>1. p2 = 4 /\ p3 = 6
    BY <1>1, <1>4, ParsedFirst
  <2>2. Len(x) = 5 /\ Begins(request)[1] = 7 /\ \A i \in 1..5 : b[i] = x[i]
    BY <1>2, OpeningIs
  <2>3. used = got /\ got >= 7 /\ \A i \in 1..got : buffer[i] = b[i]
    BY <1>1, <2>2 DEF Whole
  <2>4. x \in Texts /\ Lines(request)[1] = x /\ Len(Lines(request)) \in Nat /\ 1 <= Len(Lines(request))
    BY <1>2, RequestIs
  <2> HIDE DEF b, x
  <2>5. base' = 7 /\ used' = got - 7 /\ pos' = 0 /\ skipped' = 0 /\ phase' = "headers" /\ got' = got
        /\ buffer' = [buffer EXCEPT ![4] = "NUL"]
        /\ lines' = <<[text |-> t, long |-> FALSE]>>
    BY <1>1, <1>2, <1>4, <2>1, <2>3 DEF ParsedAt
  <2>6. t = x
    <3>1. t \in Seq(Byte) /\ Len(t) = 5 /\ \A i \in 1..5 : t[i] = buffer[i]
      BY <1>2, <2>3
    <3>2. x \in Seq(Byte \ {"CR", "NUL"})
      BY <2>4 DEF Texts
    <3>3. \A i \in 1..5 : t[i] = x[i]
      <4> HIDE DEF t
      <4>1. \A i \in 1..5 : i \in 1..got
        BY <1>2, <2>3
      <4> QED BY <2>2, <2>3, <3>1, <4>1
    <3> HIDE DEF t
    <3> QED BY <2>2, <3>1, <3>2, <3>3
  <2> HIDE DEF t
  <2>7. Len(lines') = 1 /\ DOMAIN lines' = {1} /\ lines'[1] = [text |-> x, long |-> FALSE]
    BY <2>5, <2>6
  <2>8. Taken' = 7
    BY <1>2, <2>3, <2>5 DEF Taken
  <2>9. ASSUME NEW i \in 1..(got - 7) PROVE buffer'[7 + i] = b[7 + i]
    <3>1. 7 + i \in 1..got /\ 7 + i \in 1..Size /\ 7 + i # 4
      BY <1>2, <2>3, <2>9
    <3>2. buffer'[7 + i] = buffer[7 + i]
      BY <1>2, <2>5, <3>1
    <3> QED BY <2>3, <3>1, <3>2
  <2>10. \A i \in 1..(used' - pos') : buffer'[base' + pos' + i] = b[Taken' + i]
    <3>1. used' - pos' = got - 7 /\ base' + pos' = 7
      BY <1>2, <2>3, <2>5
    <3> QED BY <2>8, <2>9, <3>1
  <2>11. request' = request /\ whole'
    BY <1>1
  <2>12. Aligned'
    BY <2>2, <2>4, <2>5, <2>7, <2>8, <2>10, <2>11, SMTT(30) DEF Aligned, b
  <2>13. Whole'
    BY <2>5, <2>12 DEF Whole
  <2>14. LinesAreSent'
    BY <2>4, <2>7, <2>11 DEF LinesAreSent
  <2> QED BY <2>3, <2>5, <2>13, <2>14
<1> QED BY <1>1, <1>3, <1>4

LEMMA TakeLines ==
    ASSUME whole, Bounds, Whole, LinesAreSent, TakeLine
    PROVE  Whole' /\ LinesAreSent'
<1> DEFINE p == First(Found)
           line == SubSeq(buffer, Start, p - 1)
           n == p + 1 - base
           k == Len(lines)
           a == Begins(request)[k]
           b == Bytes(request)
           ls == Lines(request)
           x == ls[k + 1]
           e == a + Len(x) + 1
<1>1. Found # {} /\ Reading /\ Aligned
  BY DEF TakeLine, Whole
<1>2. /\ buffer' = [buffer EXCEPT ![p] = "NUL"]
      /\ pos' = n
      /\ lines' = Append(lines, [text |-> line, long |-> skipped # 0])
      /\ skipped' = 0
      /\ UNCHANGED <<request, cut, whole, got, base, used, post>>
  BY Zenon DEF TakeLine, clientVars
<1>3. /\ p \in Start..(Limit - 1) /\ Found \in SUBSET Nat /\ p \in Found
      /\ \A q \in Found : p <= q
      /\ p \in 1..Size /\ n \in pos..used /\ line \in Seq(Byte)
      /\ Len(line) = p - Start
      /\ \A i \in 1..(p - Start) : line[i] = buffer[base + pos + i]
  BY <1>1, FoundIs, Zenon
<1>4. /\ request \in Requests /\ ls \in Seq(Texts) /\ Len(ls) \in Nat /\ k \in Nat
      /\ b \in Seq(Byte) /\ Len(b) \in Nat /\ cut <= Len(b) /\ cut \in Nat /\ got \in Nat /\ got <= cut
      /\ lines \in Seq([text : Seq(Byte), long : BOOLEAN])
  <2>1. request \in Requests /\ cut \in 0..Len(b) /\ got \in 0..cut
        /\ lines \in Seq([text : Seq(Byte), long : BOOLEAN])
    BY DEF Bounds, Typed, TypeOK
  <2>2. ls \in Seq(Texts) /\ Len(ls) \in Nat /\ b \in Seq(Byte) /\ Len(b) \in Nat
    BY <2>1, RequestIs
  <2>3. k \in Nat
    BY <2>1
  <2> QED BY <2>1, <2>2, <2>3
<1>5. /\ Size \in Nat /\ base \in Nat /\ used \in Nat /\ pos \in Nat
      /\ base + used <= Size /\ pos <= used
  BY BufferIs
<1>6. /\ k <= Len(ls) /\ a <= Taken /\ (skipped = 0 => Taken = a)
      /\ \A i \in 1..(used - pos) : buffer[base + pos + i] = b[Taken + i]
  BY <1>1 DEF Aligned
<1>7. Taken = got - (used - pos) /\ Start = base + pos + 1 /\ Limit = base + used
  BY DEF Taken, Start, Limit
<1> HIDE DEF p, line, n, k, a, b, ls, x
<1>8. k < Len(ls)
  <2> SUFFICES ASSUME k = Len(ls) PROVE FALSE
    BY <1>4, <1>6
  <2>1. a = Len(b)
    BY <1>4, BeginsAre DEF a, b, ls, k
  <2>2. used > pos
    BY <1>3, <1>5, <1>7
  <2> QED BY <1>4, <1>5, <1>6, <1>7, <2>1, <2>2
<1>9. x \in Texts /\ Len(x) \in Nat /\ LineAt(b, a, x) /\ a \in Nat
      /\ Begins(request)[k + 1] = a + Len(x) + 2
  <2>1. k \in 0..Len(ls)
    BY <1>4, <1>6
  <2> QED BY <1>4, <1>8, <2>1, BeginsAre DEF a, b, ls, k, x
<1>10. /\ e \in Nat /\ Taken \in Nat /\ Taken < e
       /\ e + 1 <= got => base + pos + (e - Taken) \in Found
       /\ \A q \in Found : base + pos + (e - Taken) <= q
  BY <1>1, <1>8, NextBreak DEF a, b, ls, k, x
\* The break that is found is the end of the line.
<1>11. p = base + pos + (e - Taken)
  <2>1. base + pos + (e - Taken) <= p
    BY <1>3, <1>10
  <2>2. p + 1 <= base + used /\ p \in Nat
    BY <1>3, <1>5, <1>7, SMTT(30)
  <2>3. e + 1 <= got
    <3> HIDE DEF e
    <3> QED BY <1>4, <1>5, <1>7, <1>10, <2>1, <2>2
  <2>4. p <= base + pos + (e - Taken)
    BY <1>3, <1>10, <2>3
  <2> HIDE DEF e
  <2> QED BY <1>5, <1>10, <2>1, <2>2, <2>4
<1>12. p - Start = e - Taken - 1 /\ n = pos + (e - Taken) + 1 /\ Taken' = e + 1
  <2>1. p - Start = e - Taken - 1 /\ n = pos + (e - Taken) + 1
    <3> HIDE DEF e
    <3> QED BY <1>4, <1>5, <1>7, <1>10, <1>11 DEF n
  <2>2. Taken' = got - (used - n)
    BY <1>2 DEF Taken
  <2> HIDE DEF e
  <2> QED BY <1>4, <1>5, <1>7, <1>10, <2>1, <2>2
<1>13. EndsWith(line, x)
  <2>1. Len(line) = e - Taken - 1 /\ Len(line) <= Len(x) /\ Len(line) \in Nat
        /\ Len(line) <= used - pos
    <3>1. Len(line) = e - Taken - 1
      BY <1>3, <1>12
    <3>2. n <= used
      BY <1>3, <1>5
    <3>3. e - Taken + 1 <= used - pos
      <4> HIDE DEF e
      <4> QED BY <1>5, <1>10, <1>12, <3>2
    <3>4. a <= Taken /\ a \in Nat /\ Len(x) \in Nat /\ Taken \in Nat /\ e \in Nat /\ Taken < e
      BY <1>6, <1>9, <1>10
    <3>5. Len(line) <= Len(x)
      BY <3>1, <3>4
    <3>6. Len(line) \in Nat /\ Len(line) <= used - pos
      <4> HIDE DEF e
      <4> QED BY <1>5, <3>1, <3>3, <3>4
    <3> QED BY <3>1, <3>5, <3>6
  <2>2. ASSUME NEW i \in 1..Len(line) PROVE line[i] = x[Len(x) - Len(line) + i]
    <3>1. line[i] = buffer[base + pos + i]
      BY <1>3, <2>2
    <3>2. buffer[base + pos + i] = b[Taken + i]
      <4>1. i \in 1..(used - pos)
        BY <1>5, <2>1, <2>2
      <4> QED BY <1>6, <4>1
    <3> DEFINE j == Len(x) - Len(line) + i
    <3>3. j \in 1..Len(x) /\ a + j = Taken + i
      BY <1>9, <1>10, <2>1, <2>2
    <3> HIDE DEF j
    <3>4. b[a + j] = x[j]
      BY <1>9, <3>3 DEF LineAt
    <3> QED BY <3>1, <3>2, <3>3, <3>4 DEF j
  <2> QED BY <2>1, <2>2 DEF EndsWith
<1>14. x \in Seq(Byte)
  BY <1>9 DEF Texts
<1>15. IsSuffix(line, x)
  BY <1>3, <1>13, <1>14, SuffixIs
<1>16. skipped = 0 => line = x
  <2> SUFFICES ASSUME skipped = 0 PROVE line = x
    OBVIOUS
  <2>1. Len(line) = Len(x)
    BY <1>3, <1>6, <1>9, <1>12
  <2>2. \A i \in 1..Len(line) : line[i] = x[i]
    <3>1. \A i \in 1..Len(line) : Len(x) - Len(line) + i = i
      BY <1>9, <2>1
    <3> QED BY <1>13, <3>1 DEF EndsWith
  <2> QED BY <1>3, <1>14, <2>1, <2>2
<1>17. LinesAreSent'
  <2> DEFINE r == [text |-> line, long |-> skipped # 0]
  <2>1. Len(lines') = k + 1 /\ DOMAIN lines' = 1..(k + 1) /\ lines'[k + 1] = r
        /\ \A i \in 1..k : lines'[i] = lines[i]
    BY <1>2, <1>4 DEF k
  <2>2. \A i \in 1..k : IF lines[i].long THEN IsSuffix(lines[i].text, ls[i])
                        ELSE lines[i].text = ls[i]
    <3>1. DOMAIN lines = 1..k
      BY <1>4 DEF k
    <3> QED BY <3>1 DEF LinesAreSent, ls
  <2>3. IF r.long THEN IsSuffix(r.text, ls[k + 1]) ELSE r.text = ls[k + 1]
    BY <1>15, <1>16 DEF x
  <2> HIDE DEF r
  <2>4. \A i \in 1..(k + 1) : IF lines'[i].long THEN IsSuffix(lines'[i].text, ls[i])
                              ELSE lines'[i].text = ls[i]
    <3>1. \A i \in 1..(k + 1) : i \in 1..k \/ i = k + 1
      BY <1>4
    <3> QED BY <2>1, <2>2, <2>3, <3>1
  <2>5. Len(lines') <= Len(ls)
    BY <1>4, <1>8, <2>1
  <2> QED BY <1>2, <2>1, <2>4, <2>5 DEF LinesAreSent, ls
<1>18. Aligned'
  <2>1. Len(lines') = k + 1 /\ k + 1 <= Len(ls)
    BY <1>2, <1>4, <1>8 DEF k
  <2>2. Begins(request)[k + 1] = e + 1
    BY <1>9
  <2>3. ASSUME NEW i \in 1..(used - n) PROVE buffer'[base + n + i] = b[Taken' + i]
    <3> DEFINE j == n - pos + i
    <3>1. j \in 1..(used - pos) /\ base + pos + j = base + n + i /\ Taken + j = Taken' + i
          /\ base + n + i \in 1..Size /\ base + n + i # p
      <4> HIDE DEF e
      <4>1. n \in Nat /\ n >= pos /\ n <= used
        BY <1>3, <1>5
      <4>2. base + n = p + 1 /\ p \in Nat
        BY <1>3, <1>5 DEF n
      <4> QED BY <1>5, <1>10, <1>12, <2>3, <4>1, <4>2
    <3> HIDE DEF j
    <3>2. buffer \in [1..Size -> Byte]
      BY DEF Bounds, Typed, TypeOK
    <3>3. buffer'[base + n + i] = buffer[base + n + i]
      BY <1>2, <3>1, <3>2
    <3>4. buffer[base + pos + j] = b[Taken + j]
      BY <1>6, <3>1
    <3> QED BY <3>1, <3>3, <3>4
  <2> HIDE DEF e
  <2> QED BY <1>2, <1>10, <1>12, <2>1, <2>2, <2>3 DEF Aligned, b, ls
<1>19. phase' \notin {"first", "parse"}
  BY DEF TakeLine, TakeHeader, TakePost, NoLine, Goto, Reading
<1> QED BY <1>17, <1>18, <1>19 DEF Whole

\* What recv appends to bytes that were the stream's goes on with the stream.
LEMMA ReceivedIs ==
    ASSUME Bounds, Reading, Found = {}, NEW s, Received(s), pos' = NewPos, base' = base,
           \A i \in 1..(Kept - NewPos) :
             Moved[base + NewPos + i] = Bytes(request)[got - (Kept - NewPos) + i]
    PROVE  /\ Taken' = got - (Kept - NewPos)
           /\ \A i \in 1..(used' - pos') : buffer'[base' + pos' + i] = Bytes(request)[Taken' + i]
<1> DEFINE b == Bytes(request)
<1>1. /\ Len(s) \in Nat \ {0} /\ (\A i \in 1..Len(s) : s[i] = b[got + i])
      /\ got' = got + Len(s) /\ used' = Kept + Len(s) /\ used' <= Room
      /\ Copies(buffer', Moved, base + Kept + 1, s)
  BY DEF Received
<1>2. Room \in Nat /\ NewPos \in Nat /\ Kept \in Nat /\ NewPos <= Kept
  BY KeptIs
<1>3. Size \in Nat /\ base \in Nat /\ Room = Size - base
  BY BufferIs
<1>4. got \in Nat
  <2>1. request \in Requests /\ cut \in 0..Len(b) /\ got \in 0..cut
    BY DEF Bounds, Typed, TypeOK
  <2>2. Len(b) \in Nat
    BY <2>1, RequestIs
  <2> QED BY <2>1, <2>2
<1> HIDE DEF b
<1>5. Taken' = got - (Kept - NewPos)
  BY <1>1, <1>2, <1>4 DEF Taken
<1>6. ASSUME NEW i \in 1..(used' - pos') PROVE buffer'[base' + pos' + i] = b[Taken' + i]
  <2>1. CASE i <= Kept - NewPos
    <3>1. i \in 1..(Kept - NewPos) /\ base + NewPos + i \in 1..Size /\ base + NewPos + i < base + Kept + 1
      BY <1>1, <1>2, <1>3, <1>6, <2>1
    <3>2. buffer'[base + NewPos + i] = Moved[base + NewPos + i]
      BY <1>1, <3>1 DEF Copies
    <3>3. Moved[base + NewPos + i] = b[got - (Kept - NewPos) + i]
      BY <3>1 DEF b
    <3> QED BY <1>5, <3>2, <3>3
  <2>2. CASE i > Kept - NewPos
    <3> DEFINE j == i - (Kept - NewPos)
    <3>1. j \in 1..Len(s) /\ base + Kept + 1 + j - 1 = base + NewPos + i
          /\ got + j = got - (Kept - NewPos) + i
      BY <1>1, <1>2, <1>3, <1>4, <1>6, <2>2
    <3> HIDE DEF j
    <3>2. buffer'[base + Kept + 1 + j - 1] = s[j] /\ s[j] = b[got + j]
      BY <1>1, <3>1 DEF Copies
    <3> QED BY <1>5, <3>1, <3>2
  <2> QED BY <1>1, <1>2, <1>6, <2>1, <2>2
<1> QED BY <1>5, <1>6 DEF b

LEMMA RefillLines ==
    ASSUME whole, Bounds, Whole, LinesAreSent, Refill
    PROVE  Whole' /\ LinesAreSent'
<1> DEFINE k == Len(lines)
           a == Begins(request)[k]
           b == Bytes(request)
           ls == Lines(request)
           x == ls[k + 1]
           e == a + Len(x) + 1
<1>1. /\ Reading /\ Found = {}
      /\ skipped' = IF Full THEN Room - Kept ELSE skipped
      /\ pos' = NewPos
      /\ UNCHANGED <<request, cut, whole, base, post, lines>>
      /\ \/ /\ phase' \in {"handled", "dropped"}
            /\ buffer' = Moved /\ used' = Kept /\ UNCHANGED <<got, remaining>>
         \/ \E s : Received(s)
  BY RefillIs, Zenon
<1>2. LinesAreSent'
  BY <1>1 DEF LinesAreSent
<1>3. CASE phase' \in {"handled", "dropped"}
  BY <1>2, <1>3 DEF Whole, Reading
<1>4. ASSUME NEW s, Received(s) PROVE Whole'
  <2>1. /\ Room \in Nat /\ NewPos \in Nat /\ Kept \in Nat /\ NewPos <= Kept /\ Kept < Room
        /\ Full => /\ pos = 0 /\ used = Room /\ NewPos = 0
                   /\ Kept = IF buffer[Size] = "CR" THEN 1 ELSE 0
                   /\ Moved[base + 1] = buffer[Size]
        /\ ~Full => /\ Kept - NewPos = used - pos
                    /\ \A i \in 1..(used - pos) : Moved[base + NewPos + i] = buffer[base + pos + i]
    BY <1>1, <1>4, KeptIs DEF Received
  <2>2. /\ Aligned /\ k <= Len(ls) /\ a <= Taken /\ (skipped = 0 => Taken = a)
        /\ skipped # 0 => k < Len(ls) /\ Taken <= a + Len(x)
        /\ \A i \in 1..(used - pos) : buffer[base + pos + i] = b[Taken + i]
    BY <1>1 DEF Whole, Aligned
  <2>3. /\ Size \in Nat /\ base \in Nat /\ used \in Nat /\ pos \in Nat /\ Room = Size - base
        /\ base + used <= Size /\ pos <= used
    BY BufferIs
  <2>4. /\ request \in Requests /\ Len(ls) \in Nat /\ k \in Nat /\ Len(b) \in Nat
        /\ cut <= Len(b) /\ cut \in Nat /\ got \in Nat /\ got <= cut
    <3>1. request \in Requests /\ cut \in 0..Len(b) /\ got \in 0..cut
          /\ lines \in Seq([text : Seq(Byte), long : BOOLEAN])
      BY DEF Bounds, Typed, TypeOK
    <3>2. Len(ls) \in Nat /\ Len(b) \in Nat
      BY <3>1, RequestIs
    <3>3. k \in Nat
      BY <3>1
    <3> QED BY <3>1, <3>2, <3>3
  <2> HIDE DEF k, a, b, ls, x
  <2>5. Taken = got - (used - pos)
    BY DEF Taken
  <2>6. a \in Nat /\ (k = Len(ls) => a = Len(b)) /\ (k < Len(ls) => Len(x) \in Nat)
    <3>1. k \in 0..Len(ls)
      BY <2>2, <2>4
    <3> QED BY <2>4, <3>1, BeginsAre DEF a, b, ls, k, x
  <2>7. phase' \in {"headers", "body"} /\ pos' = NewPos /\ base' = base /\ request' = request
        /\ lines' = lines
    BY <1>1, <1>4 DEF Received, Reading
  <2>8. CASE ~Full
    <3>1. ASSUME NEW i \in 1..(Kept - NewPos)
          PROVE  Moved[base + NewPos + i] = b[got - (Kept - NewPos) + i]
      BY <2>1, <2>2, <2>5, <2>8, <3>1
    <3>2. /\ Taken' = got - (Kept - NewPos)
          /\ \A i \in 1..(used' - pos') : buffer'[base' + pos' + i] = b[Taken' + i]
      BY <1>1, <1>4, <2>7, <3>1, ReceivedIs DEF b
    <3>3. Taken' = Taken /\ skipped' = skipped
      BY <1>1, <2>1, <2>5, <2>8, <3>2
    <3>4. Aligned'
      BY <2>2, <2>7, <3>2, <3>3 DEF Aligned, k, a, b, ls, x
    <3> QED BY <2>7, <3>4 DEF Whole
  \* The buffer holds a part of one line: what is discarded is not its end.
  <2>9. CASE Full
    <3>1. Taken = got - Room /\ Room > 0
      BY <2>1, <2>3, <2>5, <2>9
    <3>2. k < Len(ls)
      BY <2>2, <2>3, <2>4, <2>6, <3>1
    <3>3. e \in Nat /\ got <= e /\ b[e] = "CR"
      <4>1. e \in Nat /\ (e + 1 <= got => base + pos + (e - Taken) \in Found) /\ b[e] = "CR"
        BY <2>2, <3>2, NextBreak DEF a, b, ls, k, x
      <4> HIDE DEF e
      <4> QED BY <1>1, <2>4, <4>1
    <3>4. buffer[Size] = b[got]
      <4>1. Room \in 1..(used - pos) /\ base + pos + Room = Size /\ Taken + Room = got
        BY <2>1, <2>3, <2>4, <2>9, <3>1
      <4>2. buffer[base + pos + Room] = b[Taken + Room]
        BY <2>2, <4>1
      <4> QED BY <4>1, <4>2
    <3>5. ASSUME NEW i \in 1..(Kept - NewPos)
          PROVE  Moved[base + NewPos + i] = b[got - (Kept - NewPos) + i]
      <4>1. i = 1 /\ Kept = 1 /\ NewPos = 0
        BY <2>1, <2>9, <3>5
      <4>2. base + NewPos + i = base + 1 /\ got - (Kept - NewPos) + i = got
        BY <2>3, <2>4, <4>1
      <4> QED BY <2>1, <2>9, <3>4, <4>2
    <3>6. /\ Taken' = got - (Kept - NewPos)
          /\ \A i \in 1..(used' - pos') : buffer'[base' + pos' + i] = b[Taken' + i]
      BY <1>1, <1>4, <2>7, <3>5, ReceivedIs DEF b
    <3>7. Taken' = got - Kept /\ skipped' = Room - Kept /\ skipped' # 0
      BY <1>1, <2>1, <2>4, <2>9, <3>6
    <3>8. a <= Taken' /\ Taken' <= a + Len(x)
      <4>1. got # e \/ Kept = 1
        BY <2>1, <2>9, <3>3, <3>4
      <4>2. got - Kept >= got - Room
        BY <2>1, <2>4
      <4>3. Len(x) \in Nat /\ e = a + Len(x) + 1
        BY <2>6, <3>2
      <4> HIDE DEF e
      <4> QED BY <2>1, <2>2, <2>4, <2>6, <2>9, <3>1, <3>3, <3>7, <4>1, <4>2, <4>3
    <3>9. Aligned'
      BY <2>2, <2>7, <3>2, <3>6, <3>7, <3>8 DEF Aligned, k, a, b, ls, x
    <3> QED BY <2>7, <3>9 DEF Whole
  <2> QED BY <2>8, <2>9
<1> QED BY <1>1, <1>2, <1>3, <1>4

\* However TCP cuts the request behind its first line, the lines that the code
\* hands on are those that the client sent, each once and in their order, and
\* of a line that does not fit it is the end (httpserver.c:61-117): for any
\* requests, any size of the buffer and whatever malloc left in it.
THEOREM HandsOnWhatIsSent == Spec => []LinesAreSent
<1>1. Init => LinesInv
  <2> SUFFICES ASSUME Init PROVE Bounds /\ Unparsed /\ Whole /\ LinesAreSent
    BY DEF LinesInv
  <2>1. Whole
    BY DEF Init, Whole, Reading
  <2>2. LinesAreSent
    <3>1. lines = <<>> /\ Len(lines) = 0 /\ DOMAIN lines = {}
      BY DEF Init
    <3>2. Len(Lines(request)) \in Nat
      BY RequestIs DEF Init
    <3> QED BY <3>1, <3>2 DEF LinesAreSent
  <2> QED BY <2>1, <2>2, InitTypes
<1>2. LinesInv /\ [Next]_vars => LinesInv'
  <2> SUFFICES ASSUME LinesInv, [Next]_vars, whole'
               PROVE  Bounds' /\ Unparsed' /\ Whole' /\ LinesAreSent'
    BY DEF LinesInv
  <2>1. whole
    BY DEF Next, RecvLine, ParseFirst, Beyond, TakeLine, Refill, HangUp, Finished, vars,
           clientVars
  <2>2. Bounds /\ Unparsed /\ Whole /\ LinesAreSent
    BY <2>1 DEF LinesInv
  <2>3. CASE RecvLine
    BY <2>1, <2>2, <2>3, RecvTypes, RecvLines
  <2>4. CASE ParseFirst
    BY <2>1, <2>2, <2>4, ParseTypes, ParseLines
  <2>5. CASE Beyond
    BY <2>2, <2>5, BufferIs DEF Beyond
  <2>6. CASE TakeLine
    BY <2>1, <2>2, <2>6, TakeTypes, TakeLines
  <2>7. CASE Refill
    BY <2>1, <2>2, <2>7, RefillTypes, RefillLines
  <2>8. CASE HangUp
    <3>1. phase' = "dropped" /\ UNCHANGED <<request, cut, whole, got, buffer, base, used, pos,
                                             skipped, post, remaining, lines>>
      BY <2>8 DEF HangUp, Goto, clientVars, bufferVars
    <3>2. Whole' /\ LinesAreSent'
      BY <2>2, <3>1 DEF Whole, LinesAreSent, Reading
    <3> QED BY <2>2, <3>1, <3>2, IdleTypes
  <2>9. CASE Finished \/ UNCHANGED vars
    <3>1. UNCHANGED vars
      BY <2>9 DEF Finished
    <3>2. Whole' /\ LinesAreSent'
      BY <2>2, <3>1 DEF Whole, LinesAreSent, Reading, Aligned, Taken, vars, clientVars, bufferVars
    <3> QED BY <2>2, <3>1, <3>2, IdleTypes
  <2> QED BY <2>3, <2>4, <2>5, <2>6, <2>7, <2>8, <2>9 DEF Next
<1>3. LinesInv => LinesAreSent
  BY DEF LinesInv, LinesAreSent
<1> QED BY <1>1, <1>2, <1>3, PTL DEF Spec
=============================================================================
